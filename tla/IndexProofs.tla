---------------------------- MODULE IndexProofs -----------------------------
(***************************************************************************)
(* Proofs about Index for every set of pages and texts, whatever links to  *)
(* what, and for any number of transactions of each kind.                  *)
(***************************************************************************)
EXTENDS Index, TLAPS, FiniteSetTheorems, SequenceTheorems

USE DEF tables, rankVars

(* The rows the statement of x has yet to visit.                           *)
Ahead(x) == Range(todo[x])

(* A store that has begun has a page to write.                             *)
HasDoc ==
    \A s \in Stores :
        pc[s] \in {"upserting", "unlinking"} => doc[s].url \in Urls /\ doc[s].text \in Texts

TypeInv == TypeOK /\ HasDoc

-----------------------------------------------------------------------------
(* Lemmas about the operators.                                             *)

(* The next row of a statement, and those after it.                        *)
LEMMA NextRow ==
    ASSUME NEW S, NEW q \in Seq(S), q # <<>>
    PROVE  /\ Head(q) \in S /\ Tail(q) \in Seq(S)
           /\ Range(q) = {Head(q)} \cup Range(Tail(q))
<1>1. Head(q) \in S /\ Tail(q) \in Seq(S) BY HeadTailProperties
<1>2. /\ DOMAIN q = 1..Len(q) /\ Len(q) \in Nat /\ Len(q) >= 1
      /\ DOMAIN Tail(q) = 1..(Len(q) - 1)
      /\ \A i \in 1..(Len(q) - 1) : Tail(q)[i] = q[i + 1]
      /\ Head(q) = q[1]
  BY HeadTailProperties, EmptySeq, LenProperties
<1>3. ASSUME NEW y \in Range(q) PROVE y \in {Head(q)} \cup Range(Tail(q))
  <2>1. PICK i \in 1..Len(q) : y = q[i] BY <1>2, <1>3 DEF Range
  <2>2. CASE i = 1 BY <2>1, <2>2, <1>2
  <2>3. CASE i # 1
    <3>1. i - 1 \in 1..(Len(q) - 1) /\ Tail(q)[i - 1] = q[i]
      BY <2>1, <2>3, <1>2
    <3> QED BY <3>1, <2>1, <1>2 DEF Range
  <2> QED BY <2>2, <2>3
<1>4. ASSUME NEW y \in Range(Tail(q)) PROVE y \in Range(q)
  <2>1. PICK i \in 1..(Len(q) - 1) : y = Tail(q)[i] BY <1>2, <1>4 DEF Range
  <2>2. i + 1 \in 1..Len(q) /\ y = q[i + 1] BY <2>1, <1>2
  <2> QED BY <2>2, <1>2 DEF Range
<1>5. Head(q) \in Range(q) BY <1>2 DEF Range
<1> QED BY <1>1, <1>3, <1>4, <1>5

(* Sets of rows are finite, and a statement visits each row of its set.    *)
LEMMA RowsFinite == IsFiniteSet(LinkRows) /\ IsFiniteSet(Rows)
<1>1. IsFiniteSet(LinkRows)
  BY IndexAssumption, FS_Product DEF LinkRows
<1> QED BY <1>1, IndexAssumption, FS_Union DEF Rows

LEMMA OrderingsType ==
    ASSUME NEW S \in SUBSET Rows, NEW q \in Orderings(S)
    PROVE  q \in Seq(Rows) /\ Range(q) = S
<1>1. Cardinality(S) \in Nat BY RowsFinite, FS_Subset, FS_CardinalityType
<1>2. q \in [1..Cardinality(S) -> S] /\ Range(q) = S BY DEF Orderings
<1>3. q \in Seq(S) BY <1>1, <1>2, SeqDef
<1> QED BY <1>2, <1>3, SeqMonotonic

(* The three kinds of transaction.                                         *)
LEMMA Kinds ==
    /\ Stores \subseteq Txs /\ Rankings \subseteq Txs /\ Reindexes \subseteq Txs
    /\ Stores \cap Rankings = {} /\ Stores \cap Reindexes = {}
    /\ Rankings \cap Reindexes = {}
BY IndexAssumption DEF Txs

LEMMA RowKinds ==
    /\ Urls \subseteq Rows /\ LinkRows \subseteq Rows
    /\ Urls \cap LinkRows = {} /\ NoUrl \notin Urls /\ NoText \notin Texts
    /\ Stored \subseteq Urls
    /\ \A u \in Urls : From(u) \subseteq LinkRows
BY IndexAssumption DEF Rows, LinkRows, Stored, From

(* What the statements make of the row of a page.                          *)
LEMMA PageUpdates ==
    ASSUME NEW p \in Page, NEW t \in MaybeText, NEW r \in Rankings
    PROVE  /\ StoredPage(p, t) = [text |-> t, vector |-> t, rank |-> p.rank]
           /\ [p EXCEPT !.rank = r] = [text |-> p.text, vector |-> p.vector, rank |-> r]
           /\ [p EXCEPT !.vector = t] = [text |-> p.text, vector |-> t, rank |-> p.rank]
           /\ p.text \in MaybeText /\ p.vector \in MaybeText
           /\ p.rank \in Rankings \cup {NoRank}
<1>1. /\ p.text \in MaybeText /\ p.vector \in MaybeText
      /\ p.rank \in Rankings \cup {NoRank}
  BY DEF Page
<1>2. [p EXCEPT !.rank = r] = [text |-> p.text, vector |-> p.vector, rank |-> r]
  BY DEF Page
<1>3. [p EXCEPT !.vector = t] = [text |-> p.text, vector |-> t, rank |-> p.rank]
  BY DEF Page
<1> QED BY <1>1, <1>2, <1>3 DEF StoredPage

-----------------------------------------------------------------------------
(* Type correctness.                                                       *)

LEMMA InitType == Init => TypeOK
<1> SUFFICES ASSUME Init PROVE TypeOK OBVIOUS
<1>1. pages \in [Urls -> Page] BY DEF Init, Page, MaybeText
<1>2. links \subseteq LinkRows /\ resolved \subseteq LinkRows BY DEF Init
<1>3. todo \in [Txs -> Seq(Rows)] BY DEF Init
<1> QED BY <1>1, <1>2, <1>3
        DEF Init, TypeOK, Places, NoDoc, NoVectors, NothingOwed, MaybeText

LEMMA EndType ==
    ASSUME TypeOK, NEW x \in Txs, NEW anew \in SUBSET Urls, End(x, anew)
    PROVE  /\ pc' \in [Txs -> Places]
           /\ todo' \in [Txs -> Seq(Rows)] /\ held' \in [Txs -> SUBSET Rows]
           /\ doc' \in [Stores -> [url : Urls \cup {NoUrl}, text : MaybeText]]
           /\ fresh' \in [Reindexes -> [Urls -> MaybeText]]
           /\ edges' \in [Rankings -> SUBSET LinkRows]
           /\ owed' \in [Rankings -> [pages : SUBSET Urls, links : SUBSET LinkRows]]
           /\ replaced' \in [Rankings -> SUBSET Urls]
<1>1. pc' \in [Txs -> Places] BY DEF End, TypeOK, Places
<1>2. todo' \in [Txs -> Seq(Rows)] /\ held' \in [Txs -> SUBSET Rows]
  BY DEF End, TypeOK
<1>3. doc' \in [Stores -> [url : Urls \cup {NoUrl}, text : MaybeText]]
  BY DEF End, TypeOK, NoDoc, MaybeText
<1>4. fresh' \in [Reindexes -> [Urls -> MaybeText]]
  BY DEF End, TypeOK, NoVectors, MaybeText
<1>5. edges' \in [Rankings -> SUBSET LinkRows]
      /\ owed' \in [Rankings -> [pages : SUBSET Urls, links : SUBSET LinkRows]]
      /\ replaced' \in [Rankings -> SUBSET Urls]
  BY DEF End, TypeOK, NothingOwed
<1> QED BY <1>1, <1>2, <1>3, <1>4, <1>5

(* A statement moves on by one row, whether it writes it or not.           *)
LEMMA MoveType ==
    ASSUME TypeOK, NEW x \in Txs, todo[x] # <<>>, Write(x) \/ PassOver(x)
    PROVE  todo' \in [Txs -> Seq(Rows)] /\ held' \in [Txs -> SUBSET Rows]
<1>1. todo[x] \in Seq(Rows) BY DEF TypeOK
<1>2. Head(todo[x]) \in Rows /\ Tail(todo[x]) \in Seq(Rows) BY <1>1, NextRow
<1>3. todo' = [todo EXCEPT ![x] = Tail(todo[x])] BY DEF Write, PassOver
<1>4. todo' \in [Txs -> Seq(Rows)] BY <1>2, <1>3 DEF TypeOK
<1>5. held' \in [Txs -> SUBSET Rows]
  <2>1. CASE Write(x) BY <2>1, <1>2 DEF Write, TypeOK
  <2>2. CASE PassOver(x) BY <2>2 DEF PassOver, TypeOK
  <2> QED BY <2>1, <2>2
<1> QED BY <1>4, <1>5

LEMMA StoreType ==
    ASSUME TypeInv, NEW s \in Stores, BeginStore(s) \/ StoreStep(s)
    PROVE  TypeInv'
<1> USE DEF TypeInv
<1>k. s \in Txs BY Kinds
<1>1. CASE BeginStore(s)
  <2>1. PICK u \in Urls, t \in Texts :
            /\ doc' = [doc EXCEPT ![s] = [url |-> u, text |-> t]]
            /\ todo' = [todo EXCEPT ![s] = <<u>>]
    BY <1>1 DEF BeginStore
  <2>2. <<u>> \in Seq(Rows) BY RowKinds
  <2>3. TypeOK' BY <1>1, <1>k, <2>1, <2>2 DEF BeginStore, TypeOK, Places, MaybeText
  <2>4. HasDoc' BY <1>1, <1>k, <2>1, Kinds DEF BeginStore, TypeOK, HasDoc
  <2> QED BY <2>3, <2>4
<1>2. CASE UpsertPage(s)
  <2>1. PICK q \in Orderings(links \cap From(doc[s].url)) :
            todo' = [todo EXCEPT ![s] = q]
    BY <1>2 DEF UpsertPage
  <2>2. q \in Seq(Rows) BY <2>1, OrderingsType, RowKinds DEF TypeOK
  <2>3. Head(todo[s]) \in Rows BY <1>2, <1>k, NextRow DEF UpsertPage, Reaches, TypeOK
  <2>4. TypeOK' BY <1>2, <1>k, <2>1, <2>2, <2>3 DEF UpsertPage, TypeOK, Places
  <2>5. HasDoc' BY <1>2, <1>k, Kinds DEF UpsertPage, Reaches, TypeOK, HasDoc
  <2> QED BY <2>4, <2>5
<1>3. CASE DeleteLink(s)
  <2>1. TypeOK' BY <1>3, <1>k, MoveType DEF DeleteLink, Reaches, TypeOK
  <2>2. HasDoc' BY <1>3 DEF DeleteLink, HasDoc
  <2> QED BY <2>1, <2>2
<1>4. CASE CommitStore(s)
  <2>1. doc[s].url \in Urls /\ doc[s].text \in Texts
    BY <1>4 DEF CommitStore, Through, HasDoc
  <2>2. links' \subseteq LinkRows /\ resolved' \subseteq LinkRows
    BY <1>4, <2>1, IndexAssumption DEF CommitStore, LinksAfter, From, LinkRows, TypeOK
  <2>3. pages' \in [Urls -> Page]
    <3>1. StoredPage(pages[doc[s].url], doc[s].text) \in Page
      <4> DEFINE p == pages[doc[s].url]
      <4>1. p \in Page /\ doc[s].text \in MaybeText BY <2>1 DEF TypeOK, MaybeText
      <4>2. p.rank \in Rankings \cup {NoRank} BY <4>1 DEF Page
      <4> QED BY <4>1, <4>2 DEF StoredPage, Page
    <3> QED BY <1>4, <2>1, <3>1 DEF CommitStore, TypeOK
  <2>4. {doc[s].url} \in SUBSET Urls /\ End(s, {doc[s].url})
    BY <1>4, <2>1 DEF CommitStore
  <2>5. TypeOK' BY <1>k, <2>2, <2>3, <2>4, EndType DEF TypeOK
  <2>6. HasDoc' BY <2>4, <1>k, Kinds DEF End, TypeOK, HasDoc
  <2> QED BY <2>5, <2>6
<1> QED BY <1>1, <1>2, <1>3, <1>4 DEF StoreStep

LEMMA RankingType ==
    ASSUME TypeInv, NEW r \in Rankings, BeginRanking(r) \/ RankingStep(r)
    PROVE  TypeInv'
<1> USE DEF TypeInv
<1>k. r \in Txs /\ r \notin Stores BY Kinds
<1>1. CASE BeginRanking(r)
  <2> DEFINE S == {l \in links \ resolved : l[2] \in Stored}
  <2>1. PICK q \in Orderings(S) : todo' = [todo EXCEPT ![r] = q]
    BY <1>1 DEF BeginRanking
  <2>2. S \in SUBSET Rows BY RowKinds DEF TypeOK
  <2>3. q \in Seq(Rows) BY <2>1, <2>2, OrderingsType
  <2>4. owed' \in [Rankings -> [pages : SUBSET Urls, links : SUBSET LinkRows]]
    BY <1>1, RowKinds DEF BeginRanking, TypeOK
  <2>5. TypeOK' BY <1>1, <1>k, <2>1, <2>3, <2>4 DEF BeginRanking, TypeOK, Places
  <2>6. HasDoc' BY <1>1, <1>k, Kinds DEF BeginRanking, TypeOK, HasDoc
  <2> QED BY <2>5, <2>6
<1>2. CASE ResolveLink(r)
  <2>1. TypeOK' BY <1>2, <1>k, MoveType DEF ResolveLink, Reaches, TypeOK
  <2>2. HasDoc' BY <1>2 DEF ResolveLink, HasDoc
  <2> QED BY <2>1, <2>2
<1>3. CASE ReadPages(r)
  <2>1. CASE Stored = {}
    <3>1. End(r, {}) /\ UNCHANGED tables BY <1>3, <2>1 DEF ReadPages
    <3>2. TypeOK' BY <1>k, <3>1, EndType DEF TypeOK
    <3>3. HasDoc' BY <1>k, <3>1, Kinds DEF End, TypeOK, HasDoc
    <3> QED BY <3>2, <3>3
  <2>2. CASE Stored # {}
    <3>1. PICK q \in Orderings(Stored) : todo' = [todo EXCEPT ![r] = q]
      BY <1>3, <2>2 DEF ReadPages
    <3>2. q \in Seq(Rows) BY <3>1, OrderingsType, RowKinds
    <3>3. TypeOK' BY <1>3, <1>k, <2>2, <3>1, <3>2 DEF ReadPages, TypeOK, Places
    <3>4. HasDoc' BY <1>3, <1>k, <2>2, Kinds DEF ReadPages, TypeOK, HasDoc
    <3> QED BY <3>3, <3>4
  <2> QED BY <2>1, <2>2
<1>4. CASE ReadEdges(r)
  <2>1. {l \in EdgesSeen(r) : l[1] # l[2]} \subseteq LinkRows BY DEF EdgesSeen, TypeOK
  <2>2. TypeOK' BY <1>4, <1>k, <2>1 DEF ReadEdges, TypeOK, Places
  <2>3. HasDoc' BY <1>4, <1>k, Kinds DEF ReadEdges, TypeOK, HasDoc
  <2> QED BY <2>2, <2>3
<1>5. CASE WriteRank(r)
  <2>1. TypeOK' BY <1>5, <1>k, MoveType DEF WriteRank, Reaches, TypeOK
  <2>2. HasDoc' BY <1>5 DEF WriteRank, HasDoc
  <2> QED BY <2>1, <2>2
<1>6. CASE CommitRanking(r)
  <2>1. End(r, {}) BY <1>6 DEF CommitRanking
  <2>2. pages' \in [Urls -> Page]
    <3>1. \A u \in Urls : [pages[u] EXCEPT !.rank = r] \in Page
      BY DEF TypeOK, Page
    <3> QED BY <1>6, <3>1 DEF CommitRanking, TypeOK
  <2>3. links' \subseteq LinkRows /\ resolved' \subseteq LinkRows
    BY <1>6 DEF CommitRanking, TypeOK
  <2>4. TypeOK' BY <1>k, <2>1, <2>2, <2>3, EndType DEF TypeOK
  <2>5. HasDoc' BY <1>k, <2>1, Kinds DEF End, TypeOK, HasDoc
  <2> QED BY <2>4, <2>5
<1> QED BY <1>1, <1>2, <1>3, <1>4, <1>5, <1>6 DEF RankingStep

LEMMA ReindexType ==
    ASSUME TypeInv, NEW x \in Reindexes, BeginReindex(x) \/ ReindexStep(x)
    PROVE  TypeInv'
<1> USE DEF TypeInv
<1>k. x \in Txs /\ x \notin Stores BY Kinds
<1>1. CASE BeginReindex(x)
  <2>1. PICK q \in Orderings(Stored) : todo' = [todo EXCEPT ![x] = q]
    BY <1>1 DEF BeginReindex
  <2>2. q \in Seq(Rows) BY <2>1, OrderingsType, RowKinds
  <2>3. [u \in Urls |-> pages[u].text] \in [Urls -> MaybeText] BY DEF TypeOK, Page
  <2>4. fresh' \in [Reindexes -> [Urls -> MaybeText]]
    BY <1>1, <2>3 DEF BeginReindex, TypeOK
  <2>5. TypeOK' BY <1>1, <1>k, <2>1, <2>2, <2>4 DEF BeginReindex, TypeOK, Places
  <2>6. HasDoc' BY <1>1, <1>k, Kinds DEF BeginReindex, TypeOK, HasDoc
  <2> QED BY <2>5, <2>6
<1>2. CASE IndexPage(x)
  <2>1. fresh' \in [Reindexes -> [Urls -> MaybeText]]
    <3> DEFINE u == Head(todo[x])
    <3>1. fresh' = [fresh EXCEPT ![x][u] = VectorOf(x, u)] BY <1>2 DEF IndexPage
    <3>2. u \in Urls => VectorOf(x, u) \in MaybeText BY DEF VectorOf, TypeOK, Page
    <3>4. fresh[x] \in [Urls -> MaybeText] BY DEF TypeOK
    <3> HIDE DEF u
    <3>3. [fresh[x] EXCEPT ![u] = VectorOf(x, u)] \in [Urls -> MaybeText]
      BY <3>2, <3>4
    <3> QED BY <3>1, <3>3 DEF TypeOK
  <2>2. TypeOK' BY <1>2, <1>k, <2>1, MoveType DEF IndexPage, Reaches, TypeOK
  <2>3. HasDoc' BY <1>2 DEF IndexPage, HasDoc
  <2> QED BY <2>2, <2>3
<1>3. CASE CommitReindex(x)
  <2>1. End(x, {}) BY <1>3 DEF CommitReindex
  <2>2. pages' \in [Urls -> Page]
    <3>1. ASSUME NEW u \in Urls
          PROVE  [pages[u] EXCEPT !.vector = fresh[x][u]] \in Page
      <4>1. pages[u] \in Page /\ fresh[x][u] \in MaybeText BY DEF TypeOK
      <4> QED BY <4>1 DEF Page
    <3> QED BY <1>3, <3>1 DEF CommitReindex, TypeOK
  <2>3. TypeOK' BY <1>k, <1>3, <2>1, <2>2, EndType DEF CommitReindex, TypeOK
  <2>4. HasDoc' BY <1>k, <2>1, Kinds DEF End, TypeOK, HasDoc
  <2> QED BY <2>3, <2>4
<1> QED BY <1>1, <1>2, <1>3 DEF ReindexStep

LEMMA RollbackType ==
    ASSUME TypeInv, NEW x \in Txs, Rollback(x)
    PROVE  TypeInv'
<1> USE DEF TypeInv
<1>1. End(x, {}) /\ UNCHANGED tables BY DEF Rollback
<1>2. TypeOK' BY <1>1, EndType DEF TypeOK
<1>3. HasDoc' BY <1>1, Kinds DEF End, TypeOK, HasDoc
<1> QED BY <1>2, <1>3

(* Every action is one of the lemmas' cases.                               *)
LEMMA StepCases ==
    ASSUME [Next]_vars
    PROVE  \/ \E s \in Stores : BeginStore(s) \/ StoreStep(s)
           \/ \E r \in Rankings : BeginRanking(r) \/ RankingStep(r)
           \/ \E x \in Reindexes : BeginReindex(x) \/ ReindexStep(x)
           \/ \E x \in Txs : Rollback(x)
           \/ UNCHANGED vars
BY Zenon DEF Next, DeadlockAbort, Quiescent

(* Tables, transactions and what they have read are of their types.        *)
THEOREM TypeCorrect == Spec => []TypeInv
<1>1. Init => TypeInv
  <2>1. Init => HasDoc BY Kinds DEF Init, HasDoc
  <2> QED BY <2>1, InitType DEF TypeInv
<1>2. TypeInv /\ [Next]_vars => TypeInv'
  <2> SUFFICES ASSUME TypeInv, [Next]_vars PROVE TypeInv' OBVIOUS
  <2>1. CASE UNCHANGED vars BY <2>1 DEF vars, TypeInv, TypeOK, HasDoc
  <2> QED BY <2>1, StepCases, StoreType, RankingType, ReindexType, RollbackType
<1> QED BY <1>1, <1>2, PTL DEF Spec

-----------------------------------------------------------------------------
(* What the row locks achieve.  A row has been written by one transaction  *)
(* at a time; what each kind of transaction has found and written so far   *)
(* is still so when it commits.                                            *)

Exclusive == \A x, y \in Txs : x # y => held[x] \cap held[y] = {}

(* The store holds the row of its page, and the links of the page that are *)
(* there now are those its DELETE has found.                               *)
StoreGood(s) ==
    /\ pc[s] = "upserting" => todo[s] = <<doc[s].url>>
    /\ pc[s] = "unlinking" =>
          /\ doc[s].url \in held[s]
          /\ links \cap From(doc[s].url) \subseteq held[s] \cup Ahead(s)

LinksThere == {l \in links : l[2] \in Stored}

(* The links a ranking must see: not those of pages stored anew since.     *)
Owes(r) == {l \in owed[r].links : l[1] \notin replaced[r]}

RankGood(r) ==
    /\ held[r] \cap LinkRows \subseteq LinksThere
    /\ held[r] \cap Urls \subseteq Stored
    /\ pc[r] = "resolving" =>
          /\ Ahead(r) \subseteq LinkRows
          /\ \A l \in Ahead(r) : l[1] \notin replaced[r] => l \in LinksThere
          /\ owed[r].pages \subseteq Stored
          /\ Owes(r) \subseteq resolved \cup held[r] \cup Ahead(r)
    /\ pc[r] = "reading" => Owes(r) \subseteq resolved \cup held[r]
    /\ pc[r] \in {"reading", "writing"} =>
          /\ Ahead(r) \subseteq Stored
          /\ owed[r].pages \subseteq held[r] \cup Ahead(r)
    /\ pc[r] = "writing" => \A l \in Owes(r) : l[1] # l[2] => l \in edges[r]

(* A vector that was computed is that of the text of the page.             *)
FreshGood(x) ==
    pc[x] = "indexing" =>
        /\ Ahead(x) \subseteq Urls
        /\ \A u \in held[x] \cap Urls : fresh[x][u] = pages[u].text

IndexInv ==
    /\ TypeInv /\ Exclusive /\ TablesAgree
    /\ \A s \in Stores : StoreGood(s)
    /\ \A r \in Rankings : RankGood(r)
    /\ \A x \in Reindexes : FreshGood(x)

Step(x) ==
    \/ x \in Stores /\ (BeginStore(x) \/ StoreStep(x))
    \/ x \in Rankings /\ (BeginRanking(x) \/ RankingStep(x))
    \/ x \in Reindexes /\ (BeginReindex(x) \/ ReindexStep(x))
    \/ Rollback(x)

-----------------------------------------------------------------------------
(* What a step of one transaction is to the others.                        *)

(* It is none of their affairs,                                            *)
Untouched(y) ==
    /\ pc'[y] = pc[y] /\ todo'[y] = todo[y] /\ held'[y] = held[y]
    /\ y \in Stores => doc'[y] = doc[y]
    /\ y \in Reindexes => fresh'[y] = fresh[y]
    /\ y \in Rankings => edges'[y] = edges[y] /\ owed'[y] = owed[y]

LEMMA EndFrame ==
    ASSUME TypeInv, NEW x \in Txs, NEW anew, End(x, anew), NEW y \in Txs \ {x}
    PROVE  Untouched(y)
BY Kinds DEF End, Untouched, TypeInv, TypeOK

LEMMA Frame ==
    ASSUME TypeInv, NEW x \in Txs, Step(x), NEW y \in Txs \ {x}
    PROVE  Untouched(y)
<1> USE DEF TypeInv
<1>1. CASE x \in Stores /\ (BeginStore(x) \/ StoreStep(x))
  <2>1. CASE BeginStore(x) BY <2>1, <1>1, Kinds DEF BeginStore, Untouched, TypeOK
  <2>2. CASE UpsertPage(x) BY <2>2, <1>1, Kinds DEF UpsertPage, Untouched, TypeOK
  <2>3. CASE DeleteLink(x)
    BY <2>3, <1>1, Kinds DEF DeleteLink, Write, Untouched, TypeOK
  <2>4. CASE CommitStore(x) BY <2>4, EndFrame DEF CommitStore
  <2> QED BY <1>1, <2>1, <2>2, <2>3, <2>4 DEF StoreStep
<1>2. CASE x \in Rankings /\ (BeginRanking(x) \/ RankingStep(x))
  <2>1. CASE BeginRanking(x)
    BY <2>1, <1>2, Kinds DEF BeginRanking, Untouched, TypeOK
  <2>2. CASE ResolveLink(x)
    BY <2>2, <1>2, Kinds DEF ResolveLink, Write, PassOver, Untouched, TypeOK
  <2>3. CASE ReadPages(x)
    <3>1. CASE Stored = {} BY <2>3, <3>1, EndFrame DEF ReadPages
    <3>2. CASE Stored # {}
      BY <2>3, <3>2, <1>2, Kinds DEF ReadPages, Untouched, TypeOK
    <3> QED BY <3>1, <3>2
  <2>4. CASE ReadEdges(x) BY <2>4, <1>2, Kinds DEF ReadEdges, Untouched, TypeOK
  <2>5. CASE WriteRank(x)
    BY <2>5, <1>2, Kinds DEF WriteRank, Write, Untouched, TypeOK
  <2>6. CASE CommitRanking(x) BY <2>6, EndFrame DEF CommitRanking
  <2> QED BY <1>2, <2>1, <2>2, <2>3, <2>4, <2>5, <2>6 DEF RankingStep
<1>3. CASE x \in Reindexes /\ (BeginReindex(x) \/ ReindexStep(x))
  <2>1. CASE BeginReindex(x)
    BY <2>1, <1>3, Kinds DEF BeginReindex, Untouched, TypeOK
  <2>2. CASE IndexPage(x)
    BY <2>2, <1>3, Kinds DEF IndexPage, Write, Untouched, TypeOK
  <2>3. CASE CommitReindex(x) BY <2>3, EndFrame DEF CommitReindex
  <2> QED BY <1>3, <2>1, <2>2, <2>3 DEF ReindexStep
<1>4. CASE Rollback(x) BY <1>4, EndFrame DEF Rollback
<1> QED BY <1>1, <1>2, <1>3, <1>4 DEF Step

(* and unless it stores a page it takes nothing away from the tables.      *)
Quiet(x) ==
    /\ links' = links /\ resolved \subseteq resolved'
    /\ \A u \in Urls : pages'[u].text = pages[u].text
    /\ \A r \in Rankings \ {x} : Active(r) => replaced'[r] = replaced[r]

LEMMA Effect ==
    ASSUME TypeInv, NEW x \in Txs, Step(x)
    PROVE  \/ x \in Stores /\ CommitStore(x)
           \/ Quiet(x)
<1> USE DEF TypeInv, Quiet
<1>e. ASSUME End(x, {})
      PROVE  \A r \in Rankings \ {x} : Active(r) => replaced'[r] = replaced[r]
  BY <1>e DEF End, TypeOK
<1>1. CASE x \in Stores /\ (BeginStore(x) \/ StoreStep(x))
  BY <1>1 DEF BeginStore, StoreStep, UpsertPage, DeleteLink
<1>2. CASE x \in Rankings /\ (BeginRanking(x) \/ RankingStep(x))
  <2>1. CASE BeginRanking(x) BY <2>1 DEF BeginRanking
  <2>2. CASE ResolveLink(x) BY <2>2 DEF ResolveLink
  <2>3. CASE ReadPages(x) BY <2>3, <1>e DEF ReadPages
  <2>4. CASE ReadEdges(x) BY <2>4 DEF ReadEdges
  <2>5. CASE WriteRank(x) BY <2>5 DEF WriteRank
  <2>6. CASE CommitRanking(x)
    <3>1. \A u \in Urls : pages'[u].text = pages[u].text
      <4>1. \A u \in Urls : [pages[u] EXCEPT !.rank = x].text = pages[u].text
        BY DEF TypeOK, Page
      <4> QED BY <2>6, <4>1 DEF CommitRanking
    <3> QED BY <2>6, <1>e, <3>1 DEF CommitRanking
  <2> QED BY <1>2, <2>1, <2>2, <2>3, <2>4, <2>5, <2>6 DEF RankingStep
<1>3. CASE x \in Reindexes /\ (BeginReindex(x) \/ ReindexStep(x))
  <2>1. CASE BeginReindex(x) BY <2>1 DEF BeginReindex
  <2>2. CASE IndexPage(x) BY <2>2 DEF IndexPage
  <2>3. CASE CommitReindex(x)
    <3>1. \A u \in Urls : pages'[u].text = pages[u].text
      <4>1. \A u \in Urls : [pages[u] EXCEPT !.vector = fresh[x][u]].text = pages[u].text
        BY DEF TypeOK, Page
      <4> QED BY <2>3, <4>1 DEF CommitReindex
    <3> QED BY <2>3, <1>e, <3>1 DEF CommitReindex
  <2> QED BY <1>3, <2>1, <2>2, <2>3 DEF ReindexStep
<1>4. CASE Rollback(x) BY <1>4, <1>e DEF Rollback
<1> QED BY <1>1, <1>2, <1>3, <1>4 DEF Step

(* A store takes the place of the links it has found, which it holds.      *)
LEMMA CommitFacts ==
    ASSUME IndexInv, NEW s \in Stores, CommitStore(s), NEW u, u = doc[s].url
    PROVE  /\ u \in Urls /\ doc[s].text \in Texts
           /\ u \in held[s] /\ links \cap From(u) \subseteq held[s]
           /\ links' = (links \ From(u)) \cup ({u} \X LinksOf[doc[s].text])
           /\ resolved' = resolved \ From(u)
           /\ \A v \in Urls \ {u} : pages'[v] = pages[v]
           /\ pages'[u] = [text |-> doc[s].text, vector |-> doc[s].text,
                           rank |-> pages[u].rank]
           /\ \A r \in Rankings : Active(r) => replaced'[r] = replaced[r] \cup {u}
<1>1. u \in Urls /\ doc[s].text \in Texts
  BY DEF CommitStore, Through, IndexInv, TypeInv, HasDoc
<1>2. u \in held[s] /\ links \cap From(u) \subseteq held[s]
  BY DEF CommitStore, Through, IndexInv, StoreGood, Ahead, Range
<1>3. \A r \in Rankings : Active(r) => replaced'[r] = replaced[r] \cup {u}
  BY Kinds DEF CommitStore, End
<1> QED BY <1>1, <1>2, <1>3
        DEF CommitStore, LinksAfter, StoredPage, IndexInv, TypeInv, TypeOK

(* Pages come and never go.                                                *)
LEMMA StoredGrows ==
    ASSUME IndexInv, NEW x \in Txs, Step(x)
    PROVE  Stored \subseteq Stored'
<1>1. CASE Quiet(x) BY <1>1 DEF Quiet, Stored
<1>2. CASE x \in Stores /\ CommitStore(x)
  <2> DEFINE u == doc[x].url
  <2>1. /\ doc[x].text \in Texts /\ \A v \in Urls \ {u} : pages'[v] = pages[v]
        /\ pages'[u] = [text |-> doc[x].text, vector |-> doc[x].text,
                        rank |-> pages[u].rank]
    BY <1>2, CommitFacts
  <2>2. pages'[u].text = doc[x].text BY <2>1
  <2> QED BY <2>1, <2>2, RowKinds DEF Stored
<1> QED BY <1>1, <1>2, Effect DEF IndexInv

LEMMA StoreKept ==
    ASSUME IndexInv, NEW x \in Txs, Step(x), NEW s \in Stores, s # x
    PROVE  StoreGood(s)'
<1>1. Untouched(s) BY Frame, Kinds DEF IndexInv
<1>2. Ahead(s)' = Ahead(s) BY <1>1 DEF Untouched, Ahead
<1>3. CASE Quiet(x) BY <1>1, <1>2, <1>3 DEF Quiet, Untouched, IndexInv, StoreGood, From
<1>4. CASE x \in Stores /\ CommitStore(x)
  <2>1. SUFFICES ASSUME pc[s] = "unlinking"
                 PROVE  links' \cap From(doc[s].url) \subseteq links
    BY <1>1, <1>2, <2>1 DEF Untouched, IndexInv, StoreGood, From
  <2> DEFINE u == doc[x].url
  <2>2. /\ u \in held[x]
        /\ links' = (links \ From(u)) \cup ({u} \X LinksOf[doc[x].text])
    BY <1>4, CommitFacts
  <2>3. doc[s].url \in held[s] BY <2>1 DEF IndexInv, StoreGood
  <2>4. doc[s].url # u BY <2>2, <2>3, <1>4, Kinds DEF IndexInv, Exclusive
  <2> QED BY <2>2, <2>4 DEF From
<1> QED BY <1>3, <1>4, Effect DEF IndexInv

LEMMA RankKept ==
    ASSUME IndexInv, NEW x \in Txs, Step(x), NEW r \in Rankings, r # x
    PROVE  RankGood(r)'
<1>1. Untouched(r) BY Frame, Kinds DEF IndexInv
<1>2. Ahead(r)' = Ahead(r) BY <1>1 DEF Untouched, Ahead
<1>3. Stored \subseteq Stored' BY StoredGrows
<1>4. CASE Quiet(x)
  <2>1. LinksThere \subseteq LinksThere' BY <1>3, <1>4 DEF Quiet, LinksThere
  <2>2. Active(r) => Owes(r)' = Owes(r)
    BY <1>1, <1>4 DEF Quiet, Untouched, Owes
  <2> QED BY <1>1, <1>2, <1>3, <1>4, <2>1, <2>2
          DEF Quiet, Untouched, IndexInv, RankGood, Active
<1>5. CASE x \in Stores /\ CommitStore(x)
  <2> DEFINE u == doc[x].url
  <2>1. /\ links \cap From(u) \subseteq held[x]
        /\ links \ From(u) \subseteq links' /\ resolved' = resolved \ From(u)
        /\ Active(r) => replaced'[r] = replaced[r] \cup {u}
    BY <1>5, CommitFacts
  <2>2. links \subseteq LinkRows /\ resolved \subseteq LinkRows
        /\ owed[r].links \subseteq LinkRows
    BY DEF IndexInv, TypeInv, TypeOK
  <2>3. \A l \in LinkRows : l[1] # u => l \notin From(u) BY DEF From
  <2>4. \A l \in LinkRows : l \notin From(u) => l[1] # u
    BY DEF From, LinkRows
  <2>5. \A l \in LinksThere : l \notin From(u) => l \in LinksThere'
    BY <1>3, <2>1 DEF LinksThere
  <2>6. held[r] \cap LinkRows \subseteq LinksThere'
    <3>1. held[r] \cap held[x] = {} BY Kinds DEF IndexInv, Exclusive
    <3>2. held[r] \cap LinkRows \subseteq LinksThere BY DEF IndexInv, RankGood
    <3> QED BY <3>1, <3>2, <2>1, <2>5 DEF LinksThere
  <2> HIDE DEF u
  <2>7. Active(r) => Owes(r)' \subseteq Owes(r) /\ \A l \in Owes(r)' : l \notin From(u)
    BY <1>1, <2>1, <2>2, <2>3 DEF Untouched, Owes
  <2>8. pc[r] = "resolving" =>
          \A l \in Ahead(r) : l[1] \notin replaced'[r] => l \in LinksThere'
    <3>1. SUFFICES ASSUME pc[r] = "resolving", NEW l \in Ahead(r), l[1] \notin replaced'[r]
                   PROVE  l \in LinksThere'
      OBVIOUS
    <3>2. l[1] \notin replaced[r] /\ l[1] # u BY <3>1, <2>1 DEF Active
    <3>3. l \in LinksThere /\ l \in LinkRows BY <3>1, <3>2 DEF IndexInv, RankGood
    <3> QED BY <3>2, <3>3, <2>3, <2>5
  <2> QED BY <1>1, <1>2, <1>3, <2>1, <2>6, <2>7, <2>8
          DEF Untouched, IndexInv, RankGood, Active
<1> QED BY <1>4, <1>5, Effect DEF IndexInv

LEMMA FreshKept ==
    ASSUME IndexInv, NEW x \in Txs, Step(x), NEW i \in Reindexes, i # x
    PROVE  FreshGood(i)'
<1>1. Untouched(i) BY Frame, Kinds DEF IndexInv
<1>2. Ahead(i)' = Ahead(i) BY <1>1 DEF Untouched, Ahead
<1>3. CASE Quiet(x)
  BY <1>1, <1>2, <1>3 DEF Quiet, Untouched, IndexInv, FreshGood
<1>4. CASE x \in Stores /\ CommitStore(x)
  <2> DEFINE u == doc[x].url
  <2>1. u \in held[x] /\ \A v \in Urls \ {u} : pages'[v] = pages[v]
    BY <1>4, CommitFacts
  <2>2. u \notin held[i] BY <2>1, <1>4, Kinds DEF IndexInv, Exclusive
  <2>3. \A v \in held[i] \cap Urls : pages'[v] = pages[v] BY <2>1, <2>2
  <2> QED BY <1>1, <1>2, <2>3 DEF Untouched, IndexInv, FreshGood
<1> QED BY <1>3, <1>4, Effect DEF IndexInv

-----------------------------------------------------------------------------
(* What a step of a transaction is to itself.                              *)

(* The rows ahead of a statement that moves on are those behind the next.  *)
LEMMA Moved ==
    ASSUME TypeInv, NEW x \in Txs, todo[x] # <<>>, Write(x) \/ PassOver(x)
    PROVE  /\ Ahead(x) = {Head(todo[x])} \cup Ahead(x)'
           /\ Write(x) => held'[x] = held[x] \cup {Head(todo[x])}
           /\ PassOver(x) => held'[x] = held[x]
<1>1. todo[x] \in Seq(Rows) /\ todo'[x] = Tail(todo[x])
  BY DEF TypeInv, TypeOK, Write, PassOver
<1>2. Ahead(x) = {Head(todo[x])} \cup Ahead(x)' BY <1>1, NextRow DEF Ahead
<1> QED BY <1>2 DEF TypeInv, TypeOK, Write, PassOver

LEMMA NoneAhead == ASSUME NEW x, todo[x] = <<>> PROVE Ahead(x) = {}
BY DEF Ahead, Range

LEMMA Ended ==
    ASSUME TypeInv, NEW x \in Txs, NEW anew, End(x, anew)
    PROVE  pc'[x] = "done" /\ held'[x] = {}
BY DEF End, TypeInv, TypeOK

LEMMA StoreOwn ==
    ASSUME IndexInv, NEW s \in Stores, BeginStore(s) \/ StoreStep(s) \/ Rollback(s)
    PROVE  StoreGood(s)'
<1> USE DEF IndexInv
<1>k. s \in Txs BY Kinds
<1>1. CASE BeginStore(s)
  <2>1. PICK u \in Urls, t \in Texts :
            /\ doc' = [doc EXCEPT ![s] = [url |-> u, text |-> t]]
            /\ todo' = [todo EXCEPT ![s] = <<u>>]
    BY <1>1 DEF BeginStore
  <2>2. doc'[s].url = u /\ todo'[s] = <<u>> /\ pc'[s] = "upserting"
    BY <1>1, <1>k, <2>1 DEF BeginStore, TypeInv, TypeOK
  <2> QED BY <2>2 DEF StoreGood
<1>2. CASE UpsertPage(s)
  <2> DEFINE u == doc[s].url
  <2>1. PICK q \in Orderings(links \cap From(u)) : todo' = [todo EXCEPT ![s] = q]
    BY <1>2 DEF UpsertPage
  <2>2. Range(q) = links \cap From(u)
    BY <2>1, OrderingsType, RowKinds DEF TypeInv, TypeOK
  <2>3. Ahead(s)' = links \cap From(u)
    BY <2>1, <2>2, <1>k DEF Ahead, TypeInv, TypeOK
  <2>4. todo[s] = <<u>> BY <1>2 DEF UpsertPage, Reaches, StoreGood
  <2>5. Head(todo[s]) = u BY <2>4
  <2>6. u \in held'[s] BY <1>2, <1>k, <2>5 DEF UpsertPage, TypeInv, TypeOK
  <2>7. pc'[s] = "unlinking" /\ doc' = doc /\ links' = links
    BY <1>2, <1>k DEF UpsertPage, TypeInv, TypeOK
  <2> QED BY <2>3, <2>6, <2>7 DEF StoreGood, From
<1>3. CASE DeleteLink(s)
  <2>1. /\ pc'[s] = "unlinking" /\ doc' = doc /\ links' = links
        /\ pc[s] = "unlinking" /\ todo[s] # <<>> /\ Write(s)
    BY <1>3 DEF DeleteLink, Reaches
  <2>2. /\ Ahead(s) = {Head(todo[s])} \cup Ahead(s)'
        /\ held'[s] = held[s] \cup {Head(todo[s])}
    BY <2>1, <1>k, Moved
  <2> QED BY <2>1, <2>2 DEF StoreGood, From
<1>4. CASE CommitStore(s) \/ Rollback(s)
  BY <1>4, <1>k, Ended DEF CommitStore, Rollback, StoreGood
<1> QED BY <1>1, <1>2, <1>3, <1>4 DEF StoreStep

LEMMA FreshOwn ==
    ASSUME IndexInv, NEW x \in Reindexes,
           BeginReindex(x) \/ ReindexStep(x) \/ Rollback(x)
    PROVE  FreshGood(x)'
<1> USE DEF IndexInv
<1>k. x \in Txs BY Kinds
<1>1. CASE BeginReindex(x)
  <2>1. PICK q \in Orderings(Stored) : todo' = [todo EXCEPT ![x] = q]
    BY <1>1 DEF BeginReindex
  <2>2. Range(q) = Stored BY <2>1, OrderingsType, RowKinds
  <2>3. Ahead(x)' \subseteq Urls
    BY <1>k, <2>1, <2>2, RowKinds DEF Ahead, TypeInv, TypeOK
  <2>4. fresh'[x] = [u \in Urls |-> pages[u].text] /\ pages' = pages
    BY <1>1 DEF BeginReindex, TypeInv, TypeOK
  <2> QED BY <2>3, <2>4 DEF FreshGood
<1>2. CASE IndexPage(x)
  <2> DEFINE u == Head(todo[x])
  <2>1. /\ pc[x] = "indexing" /\ todo[x] # <<>> /\ Write(x) /\ pages' = pages
        /\ fresh' = [fresh EXCEPT ![x][u] = pages[u].text]
    BY <1>2 DEF IndexPage, Reaches, VectorOf
  <2>2. Ahead(x) = {u} \cup Ahead(x)' /\ held'[x] = held[x] \cup {u}
    BY <2>1, <1>k, Moved
  <2>3. Ahead(x)' \subseteq Urls /\ u \in Urls
    BY <2>1, <2>2 DEF FreshGood
  <2>4. fresh[x] \in [Urls -> MaybeText] BY DEF TypeInv, TypeOK
  <2> HIDE DEF u
  <2>5. fresh'[x] = [fresh[x] EXCEPT ![u] = pages[u].text]
    BY <2>1 DEF TypeInv, TypeOK
  <2>6. \A v \in held'[x] \cap Urls : fresh'[x][v] = pages[v].text
    BY <2>1, <2>2, <2>3, <2>4, <2>5 DEF FreshGood
  <2> QED BY <2>1, <2>3, <2>6 DEF FreshGood
<1>3. CASE CommitReindex(x) \/ Rollback(x)
  BY <1>3, <1>k, Ended DEF CommitReindex, Rollback, FreshGood
<1> QED BY <1>1, <1>2, <1>3 DEF ReindexStep

LEMMA RankOwn ==
    ASSUME IndexInv, NEW r \in Rankings, BeginRanking(r) \/ RankingStep(r) \/ Rollback(r)
    PROVE  RankGood(r)'
<1> USE DEF IndexInv
<1>k. r \in Txs BY Kinds
<1>t. /\ links \subseteq LinkRows /\ resolved \subseteq LinksThere
      /\ owed[r].links \subseteq LinkRows
  BY DEF TypeInv, TypeOK, TablesAgree, LinksThere
<1>f. ASSUME tables' = tables PROVE LinksThere' = LinksThere /\ Stored' = Stored
  BY <1>f DEF LinksThere, Stored
<1>e. ASSUME End(r, {}) PROVE RankGood(r)'
  BY <1>k, <1>e, Ended DEF RankGood
<1>1. CASE BeginRanking(r)
  <2> DEFINE S == {l \in links \ resolved : l[2] \in Stored}
  <2>1. PICK q \in Orderings(S) : todo' = [todo EXCEPT ![r] = q]
    BY <1>1 DEF BeginRanking
  <2>2. S \in SUBSET Rows BY <1>t, RowKinds
  <2>3. Range(q) = S BY <2>1, <2>2, OrderingsType
  <2>4. Ahead(r)' = S BY <1>k, <2>1, <2>3 DEF Ahead, TypeInv, TypeOK
  <2>5. /\ pc'[r] = "resolving" /\ tables' = tables /\ held' = held
        /\ replaced' = replaced
        /\ owed'[r] = [pages |-> Stored, links |-> LinksThere]
    BY <1>1, <1>k DEF BeginRanking, TypeInv, TypeOK, LinksThere
  <2>6. owed'[r].pages = Stored /\ owed'[r].links = LinksThere BY <2>5
  <2>7. S \subseteq LinksThere /\ LinksThere \subseteq resolved \cup S
    BY DEF LinksThere
  <2> HIDE DEF S
  <2>8. Owes(r)' \subseteq LinksThere BY <2>6 DEF Owes
  <2>9. S \subseteq LinkRows BY <1>t, <2>7 DEF LinksThere
  <2> QED BY <1>f, <2>4, <2>5, <2>6, <2>7, <2>8, <2>9 DEF RankGood
<1>2. CASE ResolveLink(r)
  <2> DEFINE l == Head(todo[r])
  <2>1. /\ pc[r] = "resolving" /\ todo[r] # <<>> /\ pc' = pc /\ tables' = tables
        /\ owed' = owed /\ replaced' = replaced
        /\ IF StillToResolve(r, l) THEN Write(r) ELSE PassOver(r)
    BY <1>2 DEF ResolveLink, Reaches
  <2>2. Ahead(r) = {l} \cup Ahead(r)' BY <2>1, <1>k, Moved
  <2>3. /\ l \in LinkRows /\ (l[1] \notin replaced[r] => l \in LinksThere)
        /\ Ahead(r)' \subseteq LinkRows
        /\ \A k \in Ahead(r)' : k[1] \notin replaced[r] => k \in LinksThere
        /\ owed[r].pages \subseteq Stored
        /\ Owes(r) \subseteq resolved \cup held[r] \cup {l} \cup Ahead(r)'
    BY <2>1, <2>2 DEF RankGood
  <2>4. IF StillToResolve(r, l) THEN held'[r] = held[r] \cup {l} ELSE held'[r] = held[r]
    BY <2>1, <1>k, Moved
  <2> HIDE DEF l
  <2>5. Owes(r)' = Owes(r) BY <2>1 DEF Owes
  <2>6. held'[r] \cap LinkRows \subseteq LinksThere
    BY <2>3, <2>4 DEF StillToResolve, RankGood
  <2>7. held'[r] \cap Urls \subseteq Stored
    BY <2>3, <2>4, RowKinds DEF RankGood
  <2>8. Owes(r) \subseteq resolved \cup held'[r] \cup Ahead(r)'
    BY <2>3, <2>4 DEF StillToResolve, Owes
  <2> QED BY <1>f, <2>1, <2>3, <2>5, <2>6, <2>7, <2>8 DEF RankGood
<1>3. CASE ReadPages(r)
  <2>1. CASE Stored = {} BY <1>3, <1>e, <2>1 DEF ReadPages
  <2>2. CASE Stored # {}
    <3>1. PICK q \in Orderings(Stored) : todo' = [todo EXCEPT ![r] = q]
      BY <1>3, <2>2 DEF ReadPages
    <3>2. Range(q) = Stored BY <3>1, OrderingsType, RowKinds
    <3>3. Ahead(r)' = Stored BY <1>k, <3>1, <3>2 DEF Ahead, TypeInv, TypeOK
    <3>4. /\ pc[r] = "resolving" /\ todo[r] = <<>> /\ pc'[r] = "reading"
          /\ tables' = tables /\ held' = held /\ owed' = owed /\ replaced' = replaced
      BY <1>3, <1>k, <2>2 DEF ReadPages, Through, TypeInv, TypeOK
    <3>5. Ahead(r) = {} BY <3>4, NoneAhead
    <3>6. Owes(r)' = Owes(r) BY <3>4 DEF Owes
    <3> QED BY <1>f, <3>3, <3>4, <3>5, <3>6 DEF RankGood
  <2> QED BY <2>1, <2>2
<1>4. CASE ReadEdges(r)
  <2>1. /\ pc[r] = "reading" /\ pc'[r] = "writing" /\ tables' = tables
        /\ todo' = todo /\ held' = held /\ owed' = owed /\ replaced' = replaced
        /\ edges'[r] = {l \in EdgesSeen(r) : l[1] # l[2]}
    BY <1>4, <1>k DEF ReadEdges, TypeInv, TypeOK
  <2>2. Owes(r)' = Owes(r) /\ Ahead(r)' = Ahead(r) BY <2>1 DEF Owes, Ahead
  <2>3. Owes(r) \subseteq EdgesSeen(r)
    BY <1>t, <2>1 DEF EdgesSeen, RankGood, Owes
  <2> QED BY <1>f, <2>1, <2>2, <2>3 DEF RankGood
<1>5. CASE WriteRank(r)
  <2> DEFINE u == Head(todo[r])
  <2>1. /\ pc[r] = "writing" /\ todo[r] # <<>> /\ pc' = pc /\ tables' = tables
        /\ owed' = owed /\ replaced' = replaced /\ edges' = edges /\ Write(r)
    BY <1>5 DEF WriteRank, Reaches
  <2>2. Ahead(r) = {u} \cup Ahead(r)' /\ held'[r] = held[r] \cup {u}
    BY <2>1, <1>k, Moved
  <2>3. u \in Stored /\ u \notin LinkRows BY <2>1, <2>2, RowKinds DEF RankGood
  <2> HIDE DEF u
  <2>4. Owes(r)' = Owes(r) BY <2>1 DEF Owes
  <2> QED BY <1>f, <2>1, <2>2, <2>3, <2>4 DEF RankGood
<1>6. CASE CommitRanking(r) BY <1>6, <1>e DEF CommitRanking
<1>7. CASE Rollback(r) BY <1>7, <1>e DEF Rollback
<1> QED BY <1>1, <1>2, <1>3, <1>4, <1>5, <1>6, <1>7 DEF RankingStep

-----------------------------------------------------------------------------
(* The invariant.                                                          *)

(* A transaction writes no row another one has written.                    *)
TakesFree(x) ==
    \A row \in held'[x] \ held[x] : \A y \in Txs \ {x} : row \notin held[y]

LEMMA Takes ==
    ASSUME TypeInv, NEW x \in Txs, Step(x)
    PROVE  TakesFree(x)
<1> USE DEF TypeInv
<1>e. ASSUME NEW anew, End(x, anew) PROVE TakesFree(x) BY <1>e, Ended DEF TakesFree
<1>w. ASSUME HoldersOf(Head(todo[x]), x) = {},
             held'[x] \subseteq held[x] \cup {Head(todo[x])}
      PROVE  TakesFree(x)
  BY <1>w DEF HoldersOf, TakesFree
<1>m. ASSUME HoldersOf(Head(todo[x]), x) = {}, todo[x] # <<>>, Write(x) \/ PassOver(x)
      PROVE  TakesFree(x)
  <2>1. held'[x] \subseteq held[x] \cup {Head(todo[x])} BY <1>m, Moved
  <2> QED BY <1>m, <1>w, <2>1
<1>s. ASSUME held' = held PROVE TakesFree(x) BY <1>s DEF TakesFree
<1>1. CASE x \in Stores /\ (BeginStore(x) \/ StoreStep(x))
  <2>1. CASE BeginStore(x) BY <2>1, <1>s DEF BeginStore
  <2>2. CASE UpsertPage(x)
    <3>1. held'[x] = held[x] \cup {Head(todo[x])} BY <2>2 DEF UpsertPage, TypeOK
    <3> QED BY <2>2, <3>1, <1>w DEF UpsertPage, Reaches
  <2>3. CASE DeleteLink(x) BY <2>3, <1>m DEF DeleteLink, Reaches
  <2>4. CASE CommitStore(x) BY <2>4, <1>e DEF CommitStore
  <2> QED BY <1>1, <2>1, <2>2, <2>3, <2>4 DEF StoreStep
<1>2. CASE x \in Rankings /\ (BeginRanking(x) \/ RankingStep(x))
  <2>1. CASE BeginRanking(x) BY <2>1, <1>s DEF BeginRanking
  <2>2. CASE ResolveLink(x) BY <2>2, <1>m DEF ResolveLink, Reaches
  <2>3. CASE ReadPages(x) BY <2>3, <1>e, <1>s DEF ReadPages
  <2>4. CASE ReadEdges(x) BY <2>4, <1>s DEF ReadEdges
  <2>5. CASE WriteRank(x) BY <2>5, <1>m DEF WriteRank, Reaches
  <2>6. CASE CommitRanking(x) BY <2>6, <1>e DEF CommitRanking
  <2> QED BY <1>2, <2>1, <2>2, <2>3, <2>4, <2>5, <2>6 DEF RankingStep
<1>3. CASE x \in Reindexes /\ (BeginReindex(x) \/ ReindexStep(x))
  <2>1. CASE BeginReindex(x) BY <2>1, <1>s DEF BeginReindex
  <2>2. CASE IndexPage(x) BY <2>2, <1>m DEF IndexPage, Reaches
  <2>3. CASE CommitReindex(x) BY <2>3, <1>e DEF CommitReindex
  <2> QED BY <1>3, <2>1, <2>2, <2>3 DEF ReindexStep
<1>4. CASE Rollback(x) BY <1>4, <1>e DEF Rollback
<1> QED BY <1>1, <1>2, <1>3, <1>4 DEF Step

LEMMA ExclusiveKept ==
    ASSUME IndexInv, NEW x \in Txs, Step(x)
    PROVE  Exclusive'
<1>1. \A y \in Txs \ {x} : held'[y] = held[y] BY Frame DEF IndexInv, Untouched
<1>2. \A y \in Txs \ {x} : held'[x] \cap held[y] = {}
  BY Takes DEF IndexInv, Exclusive, TakesFree
<1> QED BY <1>1, <1>2 DEF IndexInv, Exclusive

(* The tables change at a commit, and only then.                           *)
LEMMA Commits ==
    ASSUME NEW x \in Txs, Step(x)
    PROVE  \/ UNCHANGED tables
           \/ x \in Stores /\ CommitStore(x)
           \/ x \in Rankings /\ CommitRanking(x)
           \/ x \in Reindexes /\ CommitReindex(x)
<1>1. CASE x \in Stores /\ (BeginStore(x) \/ StoreStep(x))
  BY <1>1 DEF BeginStore, StoreStep, UpsertPage, DeleteLink
<1>2. CASE x \in Rankings /\ (BeginRanking(x) \/ RankingStep(x))
  BY <1>2 DEF BeginRanking, RankingStep, ResolveLink, ReadPages, ReadEdges, WriteRank
<1>3. CASE x \in Reindexes /\ (BeginReindex(x) \/ ReindexStep(x))
  BY <1>3 DEF BeginReindex, ReindexStep, IndexPage
<1> QED BY <1>1, <1>2, <1>3 DEF Step, Rollback

(* The links that the texts of the stored pages call for.                  *)
LinksOfTexts == {l \in LinkRows : l[1] \in Stored /\ l[2] \in LinksOf[pages[l[1]].text]}

LEMMA StoredTexts ==
    ASSUME TypeInv, \A u \in Urls : pages'[u].text = pages[u].text
    PROVE  Stored' = Stored /\ LinksOfTexts' = LinksOfTexts
<1>1. Stored' = Stored BY DEF Stored
<1>2. \A l \in LinkRows : l[1] \in Urls BY DEF LinkRows
<1> QED BY <1>1, <1>2 DEF LinksOfTexts

LEMMA TablesKept ==
    ASSUME IndexInv, NEW x \in Txs, Step(x)
    PROVE  TablesAgree'
<1>0. /\ \A u \in Urls : pages[u].vector = pages[u].text
      /\ links = LinksOfTexts /\ resolved \subseteq LinksThere
  BY DEF IndexInv, TablesAgree, LinksOfTexts, LinksThere
<1>s. SUFFICES /\ \A u \in Urls : pages'[u].vector = pages'[u].text
               /\ links' = LinksOfTexts' /\ resolved' \subseteq LinksThere'
  BY DEF TablesAgree, LinksOfTexts, LinksThere
<1>1. CASE UNCHANGED tables BY <1>0, <1>1 DEF LinksOfTexts, LinksThere, Stored
<1>2. CASE x \in Stores /\ CommitStore(x)
  <2> DEFINE u == doc[x].url
  <2> DEFINE t == doc[x].text
  <2>1. /\ u \in Urls /\ t \in Texts
        /\ links' = (links \ From(u)) \cup ({u} \X LinksOf[t])
        /\ resolved' = resolved \ From(u)
        /\ \A v \in Urls \ {u} : pages'[v] = pages[v]
        /\ pages'[u] = [text |-> t, vector |-> t, rank |-> pages[u].rank]
    BY <1>2, CommitFacts
  <2> HIDE DEF u, t
  <2>2. pages'[u].text = t /\ pages'[u].vector = t BY <2>1
  <2>3. Stored' = Stored \cup {u} BY <2>1, <2>2, RowKinds DEF Stored
  <2>4. \A v \in Urls : pages'[v].vector = pages'[v].text BY <1>0, <2>1, <2>2
  <2>5. LinksOf[t] \subseteq Urls BY <2>1, IndexAssumption
  <2>6. links' = LinksOfTexts'
    <3>1. ASSUME NEW l \in links' PROVE l \in LinksOfTexts'
      <4>1. CASE l \in links \ From(u)
        <5>1. l \in LinksOfTexts /\ l[1] # u
          BY <1>0, <4>1 DEF LinksOfTexts, LinkRows, From
        <5> QED BY <5>1, <2>1, <2>3 DEF LinksOfTexts, LinkRows
      <4>2. CASE l \in {u} \X LinksOf[t]
        BY <4>2, <2>1, <2>2, <2>3, <2>5 DEF LinksOfTexts, LinkRows
      <4> QED BY <3>1, <4>1, <4>2, <2>1
    <3>2. ASSUME NEW l \in LinksOfTexts' PROVE l \in links'
      <4>1. l \in LinkRows /\ l[1] \in Stored' /\ l[2] \in LinksOf[pages'[l[1]].text]
        BY <3>2 DEF LinksOfTexts
      <4>2. CASE l[1] = u
        <5>1. l \in {u} \X LinksOf[t] BY <4>1, <4>2, <2>2 DEF LinkRows
        <5> QED BY <5>1, <2>1
      <4>3. CASE l[1] # u
        <5>1. l[1] \in Stored /\ pages'[l[1]] = pages[l[1]]
          BY <4>1, <4>3, <2>1, <2>3 DEF LinkRows
        <5>2. l \in links /\ l \notin From(u)
          BY <1>0, <4>1, <4>3, <5>1 DEF LinksOfTexts, From
        <5> QED BY <5>2, <2>1
      <4> QED BY <4>2, <4>3
    <3> QED BY <3>1, <3>2
  <2>7. resolved' \subseteq LinksThere' BY <1>0, <2>1, <2>3 DEF LinksThere
  <2> QED BY <2>4, <2>6, <2>7
<1>3. CASE x \in Rankings /\ CommitRanking(x)
  <2>1. /\ pages' = [u \in Urls |-> IF u \in held[x] THEN [pages[u] EXCEPT !.rank = x]
                                                     ELSE pages[u]]
        /\ links' = links /\ resolved' = resolved \cup (held[x] \cap LinkRows)
    BY <1>3 DEF CommitRanking
  <2>2. ASSUME NEW u \in Urls
        PROVE  pages'[u].vector = pages[u].vector /\ pages'[u].text = pages[u].text
    <3>1. pages[u] \in Page BY DEF IndexInv, TypeInv, TypeOK
    <3>2. LET p == [pages[u] EXCEPT !.rank = x]
          IN  p.vector = pages[u].vector /\ p.text = pages[u].text
      BY <3>1 DEF Page
    <3> QED BY <2>1, <3>2
  <2>3. Stored' = Stored /\ LinksOfTexts' = LinksOfTexts
    BY <2>2, StoredTexts DEF IndexInv
  <2>4. held[x] \cap LinkRows \subseteq LinksThere BY <1>3 DEF IndexInv, RankGood
  <2> QED BY <1>0, <2>1, <2>2, <2>3, <2>4 DEF LinksThere
<1>4. CASE x \in Reindexes /\ CommitReindex(x)
  <2>1. /\ pages' = [u \in Urls |-> IF u \in held[x]
                                    THEN [pages[u] EXCEPT !.vector = fresh[x][u]]
                                    ELSE pages[u]]
        /\ links' = links /\ resolved' = resolved
    BY <1>4 DEF CommitReindex
  <2>2. \A u \in held[x] \cap Urls : fresh[x][u] = pages[u].text
    BY <1>4 DEF IndexInv, FreshGood, CommitReindex, Through
  <2>3. ASSUME NEW u \in Urls
        PROVE  pages'[u].vector = pages[u].vector /\ pages'[u].text = pages[u].text
    <3>1. pages[u] \in Page BY DEF IndexInv, TypeInv, TypeOK
    <3>2. LET p == [pages[u] EXCEPT !.vector = fresh[x][u]]
          IN  p.vector = fresh[x][u] /\ p.text = pages[u].text
      BY <3>1 DEF Page
    <3> QED BY <1>0, <2>1, <2>2, <3>2
  <2>4. Stored' = Stored /\ LinksOfTexts' = LinksOfTexts
    BY <2>3, StoredTexts DEF IndexInv
  <2> QED BY <1>0, <2>1, <2>3, <2>4 DEF LinksThere
<1> QED BY <1>1, <1>2, <1>3, <1>4, Commits

LEMMA StepsAre ==
    ASSUME [Next]_vars
    PROVE  UNCHANGED vars \/ \E x \in Txs : Step(x)
BY Zenon, StepCases, Kinds DEF Step

LEMMA InitInv == Init => IndexInv
<1> SUFFICES ASSUME Init PROVE IndexInv OBVIOUS
<1>1. TypeInv BY InitType, Kinds DEF Init, TypeInv, HasDoc
<1>2. Exclusive BY DEF Init, Exclusive
<1>3. TablesAgree
  <2>1. PICK known \in [Urls -> MaybeText] :
            /\ pages = [u \in Urls |-> [text |-> known[u], vector |-> known[u],
                                        rank |-> NoRank]]
            /\ links = {l \in LinkRows : known[l[1]] # NoText
                                           /\ l[2] \in LinksOf[known[l[1]]]}
    BY DEF Init
  <2>2. \A u \in Urls : pages[u].text = known[u] /\ pages[u].vector = known[u]
    BY <2>1
  <2>3. \A u \in Urls : u \in Stored <=> known[u] # NoText BY <2>2 DEF Stored
  <2>4. \A l \in LinkRows : l[1] \in Urls BY DEF LinkRows
  <2>5. links = LinksOfTexts BY <2>1, <2>2, <2>3, <2>4 DEF LinksOfTexts
  <2>6. resolved = {} BY DEF Init
  <2> QED BY <2>2, <2>5, <2>6 DEF TablesAgree, LinksOfTexts
<1>4. \A s \in Stores : StoreGood(s) BY Kinds DEF Init, StoreGood
<1>5. \A r \in Rankings : RankGood(r) BY Kinds DEF Init, RankGood
<1>6. \A x \in Reindexes : FreshGood(x) BY Kinds DEF Init, FreshGood
<1> QED BY <1>1, <1>2, <1>3, <1>4, <1>5, <1>6 DEF IndexInv

LEMMA StillInv == ASSUME IndexInv, UNCHANGED vars PROVE IndexInv'
<1>1. TypeInv' BY DEF vars, IndexInv, TypeInv, TypeOK, HasDoc
<1>2. Exclusive' BY DEF vars, IndexInv, Exclusive
<1>3. TablesAgree' BY DEF vars, IndexInv, TablesAgree, Stored
<1>4. \A s \in Stores : StoreGood(s)'
  BY DEF vars, IndexInv, StoreGood, Ahead, From
<1>5. \A r \in Rankings : RankGood(r)'
  BY DEF vars, IndexInv, RankGood, Ahead, LinksThere, Stored, Owes
<1>6. \A x \in Reindexes : FreshGood(x)' BY DEF vars, IndexInv, FreshGood, Ahead
<1> QED BY <1>1, <1>2, <1>3, <1>4, <1>5, <1>6 DEF IndexInv

(* What a reader of the tables may rely on, whatever the transactions do.  *)
THEOREM IndexInvariant == Spec => []IndexInv
<1>1. IndexInv /\ [Next]_vars => IndexInv'
  <2> SUFFICES ASSUME IndexInv, [Next]_vars PROVE IndexInv' OBVIOUS
  <2>1. CASE UNCHANGED vars BY <2>1, StillInv
  <2>2. ASSUME NEW x \in Txs, Step(x) PROVE IndexInv'
    <3>1. TypeInv'
      BY <2>2, StoreType, RankingType, ReindexType, RollbackType DEF Step, IndexInv
    <3>2. Exclusive' /\ TablesAgree' BY <2>2, ExclusiveKept, TablesKept
    <3>3. \A s \in Stores : StoreGood(s)'
      BY <2>2, StoreKept, StoreOwn, Kinds DEF Step
    <3>4. \A r \in Rankings : RankGood(r)'
      BY <2>2, RankKept, RankOwn, Kinds DEF Step
    <3>5. \A i \in Reindexes : FreshGood(i)'
      BY <2>2, FreshKept, FreshOwn, Kinds DEF Step
    <3> QED BY <3>1, <3>2, <3>3, <3>4, <3>5 DEF IndexInv
  <2> QED BY <2>1, <2>2, StepsAre
<1> QED BY <1>1, InitInv, PTL DEF Spec

(* Vectors, links and resolved links are those of the texts.               *)
THEOREM TablesAlwaysAgree == Spec => []TablesAgree
<1>1. IndexInv => TablesAgree BY DEF IndexInv
<1> QED BY <1>1, IndexInvariant, PTL

(* No ranking leaves out a link it owes.                                   *)
THEOREM EdgesAllSeen == Spec => []NoEdgeLost
<1>1. IndexInv => NoEdgeLost BY DEF IndexInv, NoEdgeLost, RankGood, Owes
<1> QED BY <1>1, IndexInvariant, PTL

-----------------------------------------------------------------------------
(* What a search sees: Index implements Corpus.                            *)

Seen(u) == [text |-> pages[u].text, words |-> pages[u].vector, rank |-> pages[u].rank]

LEMMA ShownIs ==
    /\ Shown = [u \in Urls |-> Seen(u)] /\ Shown' = [u \in Urls |-> Seen(u)']
    /\ Search!There = Stored
BY DEF Shown, Seen, Search!There, Stored

StateOf(r) == CASE pc[r] = "new" -> "new" [] pc[r] = "done" -> "over" [] OTHER -> "begun"

LEMMA RankingIs ==
    /\ RankingState = [r \in Rankings |-> [state |-> StateOf(r), owed |-> owed[r].pages]]
    /\ RankingState' = [r \in Rankings |->
                           [state |-> StateOf(r)', owed |-> (owed[r].pages)']]
BY DEF RankingState, StateOf

(* The rankings other than x are where they were.                          *)
LEMMA OthersStay ==
    ASSUME TypeInv, NEW x \in Txs, Step(x)
    PROVE  \A r \in Rankings \ {x} : RankingState'[r] = RankingState[r]
<1> SUFFICES ASSUME NEW r \in Rankings \ {x} PROVE RankingState'[r] = RankingState[r]
  OBVIOUS
<1>1. pc'[r] = pc[r] /\ owed'[r] = owed[r] BY Frame, Kinds DEF Untouched
<1> QED BY <1>1, RankingIs DEF StateOf

LEMMA RankingEnds ==
    ASSUME TypeInv, NEW r \in Rankings, Step(r), Active(r), NEW anew, End(r, anew)
    PROVE  /\ RankingState[r].state = "begun" /\ RankingState[r].owed = owed[r].pages
           /\ RankingState' = [RankingState EXCEPT ![r] = [state |-> "over", owed |-> {}]]
<1>1. RankingState[r].state = "begun" /\ RankingState[r].owed = owed[r].pages
  BY RankingIs DEF Active, StateOf
<1>2. pc'[r] = "done" /\ owed'[r].pages = {}
  BY Kinds DEF End, TypeInv, TypeOK, NothingOwed
<1>3. RankingState'[r] = [state |-> "over", owed |-> {}]
  BY <1>2, RankingIs DEF StateOf
<1>4. \A q \in Rankings \ {r} : RankingState'[q] = RankingState[q]
  BY OthersStay, Kinds
<1> QED BY <1>1, <1>3, <1>4, RankingIs

(* Nobody sees a step that is no commit and leaves the rankings alone.     *)
LEMMA Unseen ==
    ASSUME TypeInv, NEW x \in Txs, Step(x), pages' = pages,
           x \in Rankings => owed'[x] = owed[x] /\ StateOf(x)' = StateOf(x)
    PROVE  UNCHANGED <<Shown, RankingState>>
<1>1. Shown' = Shown BY ShownIs DEF Seen
<1>2. x \in Rankings => RankingState'[x] = RankingState[x] BY RankingIs
<1>3. RankingState' = RankingState BY <1>2, OthersStay, RankingIs
<1> QED BY <1>1, <1>3

LEMMA StoreShown ==
    ASSUME IndexInv, NEW s \in Stores, CommitStore(s)
    PROVE  Search!Store
<1>1. PICK u \in Urls, t \in Texts :
          /\ \A v \in Urls \ {u} : pages'[v] = pages[v]
          /\ pages'[u] = [text |-> t, vector |-> t, rank |-> pages[u].rank]
  BY CommitFacts
<1>s. s \in Txs /\ s \notin Rankings /\ Step(s) BY Kinds DEF Step, StoreStep
<1>2. Seen(u)' = [text |-> t, words |-> t, rank |-> Seen(u).rank]
  BY <1>1 DEF Seen
<1>3. \A v \in Urls \ {u} : Seen(v)' = Seen(v) BY <1>1 DEF Seen
<1>4. Shown' = [Shown EXCEPT ![u] = [text |-> t, words |-> t, rank |-> Shown[u].rank]]
  BY <1>1, <1>2, <1>3, ShownIs
<1>5. RankingState' = RankingState
  BY <1>s, OthersStay, RankingIs DEF IndexInv
<1> QED BY <1>1, <1>4, <1>5 DEF Search!Store

LEMMA BeginShown ==
    ASSUME IndexInv, NEW r \in Rankings, BeginRanking(r)
    PROVE  Search!Begin(r)
<1>s. r \in Txs /\ Step(r) BY Kinds DEF Step
<1>1. /\ pc[r] = "new" /\ pc'[r] = "resolving" /\ pages' = pages
      /\ owed'[r] = [pages |-> Stored, links |-> {l \in links : l[2] \in Stored}]
  BY <1>s DEF BeginRanking, IndexInv, TypeInv, TypeOK
<1>2. owed'[r].pages = Stored BY <1>1
<1>3. RankingState[r].state = "new" BY <1>1, RankingIs DEF StateOf
<1>4. RankingState'[r] = [state |-> "begun", owed |-> Stored]
  BY <1>1, <1>2, RankingIs DEF StateOf
<1>5. RankingState' = [RankingState EXCEPT ![r] = [state |-> "begun", owed |-> Stored]]
  BY <1>4, <1>s, OthersStay, RankingIs DEF IndexInv
<1>6. Shown' = Shown BY <1>1, ShownIs DEF Seen
<1> QED BY <1>3, <1>5, <1>6, ShownIs DEF Search!Begin

LEMMA PublishShown ==
    ASSUME IndexInv, NEW r \in Rankings, CommitRanking(r)
    PROVE  Search!Publish(r)
<1>s. r \in Txs /\ Step(r) /\ Active(r) BY Kinds DEF Step, RankingStep, CommitRanking, Through, Active
<1> DEFINE S == held[r] \cap Urls
<1>1. /\ pages' = [u \in Urls |-> IF u \in held[r] THEN [pages[u] EXCEPT !.rank = r]
                                                   ELSE pages[u]]
      /\ pc[r] = "writing" /\ todo[r] = <<>> /\ End(r, {})
  BY DEF CommitRanking, Through
<1>2. S \in SUBSET Stored /\ owed[r].pages \subseteq S
  <2>1. Ahead(r) = {} BY <1>1, NoneAhead
  <2>2. owed[r].pages \subseteq Urls BY DEF IndexInv, TypeInv, TypeOK
  <2> QED BY <1>1, <2>1, <2>2 DEF IndexInv, RankGood
<1>3. ASSUME NEW u \in Urls
      PROVE  Seen(u)' = IF u \in S THEN [Seen(u) EXCEPT !.rank = r] ELSE Seen(u)
  <2>1. pages[u] \in Page BY DEF IndexInv, TypeInv, TypeOK
  <2>2. LET p == [pages[u] EXCEPT !.rank = r]
        IN  p.text = pages[u].text /\ p.vector = pages[u].vector /\ p.rank = r
    BY <2>1 DEF Page
  <2>3. [Seen(u) EXCEPT !.rank = r]
           = [text |-> pages[u].text, words |-> pages[u].vector, rank |-> r]
    BY DEF Seen
  <2>4. CASE u \in S BY <1>1, <2>2, <2>3, <2>4 DEF Seen
  <2>5. CASE u \notin S BY <1>1, <2>5 DEF Seen
  <2> QED BY <2>4, <2>5
<1> HIDE DEF S
<1>4. Shown' = [u \in Urls |-> IF u \in S THEN [Shown[u] EXCEPT !.rank = r]
                                          ELSE Shown[u]]
  BY <1>3, ShownIs
<1>5. /\ RankingState[r].state = "begun" /\ RankingState[r].owed = owed[r].pages
      /\ RankingState' = [RankingState EXCEPT ![r] = [state |-> "over", owed |-> {}]]
  BY <1>1, <1>s, RankingEnds DEF IndexInv
<1> QED BY <1>2, <1>4, <1>5, ShownIs DEF Search!Publish

LEMMA GiveUpShown ==
    ASSUME IndexInv, NEW r \in Rankings, Step(r), Active(r), End(r, {}), pages' = pages
    PROVE  Search!GiveUp(r)
<1>1. Shown' = Shown BY ShownIs DEF Seen
<1> QED BY <1>1, RankingEnds DEF IndexInv, Search!GiveUp

LEMMA ReindexUnseen ==
    ASSUME IndexInv, NEW x \in Reindexes, CommitReindex(x)
    PROVE  UNCHANGED <<Shown, RankingState>>
<1>s. x \in Txs /\ x \notin Rankings /\ Step(x) BY Kinds DEF Step, ReindexStep
<1>1. ASSUME NEW u \in Urls PROVE pages'[u] = pages[u]
  <2>1. pages' = [v \in Urls |-> IF v \in held[x]
                                 THEN [pages[v] EXCEPT !.vector = fresh[x][v]]
                                 ELSE pages[v]]
    BY DEF CommitReindex
  <2>2. pages[u] \in Page BY DEF IndexInv, TypeInv, TypeOK
  <2>3. u \in held[x] => fresh[x][u] = pages[u].vector
    BY DEF IndexInv, FreshGood, CommitReindex, Through, TablesAgree
  <2>4. [pages[u] EXCEPT !.vector = pages[u].vector] = pages[u] BY <2>2 DEF Page
  <2> QED BY <2>1, <2>3, <2>4
<1>2. Shown' = Shown BY <1>1, ShownIs DEF Seen
<1>3. RankingState' = RankingState BY <1>s, OthersStay, RankingIs DEF IndexInv
<1> QED BY <1>2, <1>3

LEMMA StepShown ==
    ASSUME IndexInv, NEW x \in Txs, Step(x)
    PROVE  Search!Next \/ UNCHANGED <<Shown, RankingState>>
<1> USE DEF IndexInv
<1>1. CASE x \in Stores /\ (BeginStore(x) \/ StoreStep(x))
  <2>1. CASE CommitStore(x) BY <1>1, <2>1, StoreShown DEF Search!Next
  <2>2. CASE BeginStore(x) \/ UpsertPage(x) \/ DeleteLink(x)
    BY <1>1, <2>2, Unseen, Kinds DEF BeginStore, UpsertPage, DeleteLink
  <2> QED BY <1>1, <2>1, <2>2 DEF StoreStep
<1>2. CASE x \in Rankings /\ (BeginRanking(x) \/ RankingStep(x))
  <2>1. CASE BeginRanking(x) BY <1>2, <2>1, BeginShown DEF Search!Next
  <2>2. CASE CommitRanking(x) BY <1>2, <2>2, PublishShown DEF Search!Next
  <2>3. CASE ReadPages(x)
    <3>1. CASE Stored = {}
      <4>1. Active(x) /\ End(x, {}) /\ pages' = pages
        BY <2>3, <3>1 DEF ReadPages, Through, Active
      <4> QED BY <4>1, <1>2, GiveUpShown DEF Search!Next
    <3>2. CASE Stored # {}
      <4>1. /\ pc[x] = "resolving" /\ pc'[x] = "reading" /\ pages' = pages /\ owed' = owed
        BY <2>3, <3>2 DEF ReadPages, Through, TypeInv, TypeOK
      <4> QED BY <4>1, Unseen DEF StateOf
    <3> QED BY <3>1, <3>2
  <2>4. CASE ReadEdges(x)
    <3>1. pc[x] = "reading" /\ pc'[x] = "writing" /\ pages' = pages /\ owed' = owed
      BY <2>4 DEF ReadEdges, TypeInv, TypeOK
    <3> QED BY <3>1, Unseen DEF StateOf
  <2>5. CASE ResolveLink(x) \/ WriteRank(x)
    <3>1. pc' = pc /\ pages' = pages /\ owed' = owed
      BY <2>5 DEF ResolveLink, WriteRank
    <3> QED BY <3>1, Unseen DEF StateOf
  <2> QED BY <1>2, <2>1, <2>2, <2>3, <2>4, <2>5 DEF RankingStep
<1>3. CASE x \in Reindexes /\ (BeginReindex(x) \/ ReindexStep(x))
  <2>1. CASE CommitReindex(x) BY <1>3, <2>1, ReindexUnseen
  <2>2. CASE BeginReindex(x) \/ IndexPage(x)
    BY <1>3, <2>2, Unseen, Kinds DEF BeginReindex, IndexPage
  <2> QED BY <1>3, <2>1, <2>2 DEF ReindexStep
<1>4. CASE Rollback(x)
  <2>1. Active(x) /\ End(x, {}) /\ pages' = pages BY <1>4 DEF Rollback
  <2>2. CASE x \in Rankings BY <2>1, <2>2, GiveUpShown DEF Search!Next
  <2>3. CASE x \notin Rankings BY <2>1, <2>3, Unseen
  <2> QED BY <2>2, <2>3
<1> QED BY <1>1, <1>2, <1>3, <1>4 DEF Step

LEMMA InitShown == Init => Search!Init
<1> SUFFICES ASSUME Init PROVE Search!Init OBVIOUS
<1>1. PICK known \in [Urls -> MaybeText] :
          pages = [u \in Urls |-> [text |-> known[u], vector |-> known[u],
                                   rank |-> NoRank]]
  BY DEF Init
<1>2. \A u \in Urls : Seen(u) = [text |-> known[u], words |-> known[u], rank |-> NoRank]
  BY <1>1 DEF Seen
<1>3. Shown = [u \in Urls |-> [text |-> known[u], words |-> known[u], rank |-> NoRank]]
  BY <1>2, ShownIs
<1>4. \A r \in Rankings : StateOf(r) = "new" /\ owed[r].pages = {}
  BY Kinds DEF Init, StateOf, NothingOwed
<1>5. RankingState = [r \in Rankings |-> [state |-> "new", owed |-> {}]]
  BY <1>4, RankingIs
<1> QED BY <1>3, <1>5 DEF Search!Init, MaybeText

(* A search sees pages and ranks change as Corpus says and in no other way.*)
THEOREM IndexImplementsCorpus == Spec => ImplementsCorpus
<1>1. IndexInv /\ [Next]_vars => [Search!Next]_<<Shown, RankingState>>
  <2> SUFFICES ASSUME IndexInv, [Next]_vars
               PROVE  Search!Next \/ UNCHANGED <<Shown, RankingState>>
    OBVIOUS
  <2>1. CASE UNCHANGED vars BY <2>1 DEF vars, Shown, RankingState
  <2>2. CASE \E x \in Txs : Step(x) BY <2>2, StepShown
  <2> QED BY <2>1, <2>2, StepsAre
<1> QED BY <1>1, InitShown, IndexInvariant, PTL
        DEF Spec, ImplementsCorpus, Search!Spec

=============================================================================
