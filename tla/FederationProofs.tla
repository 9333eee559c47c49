-------------------------- MODULE FederationProofs --------------------------
(***************************************************************************)
(* Proofs about Federation for any corpora, any number of peers, hits and  *)
(* changes, any page size and any budget.                                  *)
(***************************************************************************)
EXTENDS Federation, TLAPS, FiniteSetTheorems, SequenceTheorems

USE DEF searchVars, peerVars, readerVars

-----------------------------------------------------------------------------
(* Lemmas about the operators.                                             *)

(* An enumeration of a finite set has all its elements, each of them once. *)
LEMMA Enumerates ==
    ASSUME NEW S, IsFiniteSet(S), NEW q \in SetToSeqs(S)
    PROVE  /\ q \in Seq(S) /\ DOMAIN q = 1..Len(q)
           /\ Len(q) = Cardinality(S) /\ Len(q) \in Nat
           /\ \A i, j \in 1..Len(q) : q[i] = q[j] => i = j
           /\ \A x \in S : \E i \in 1..Len(q) : q[i] = x
<1> DEFINE n == Cardinality(S)
<1>1. n \in Nat BY FS_CardinalityType
<1>2. q \in [1..n -> S] /\ \A i, j \in 1..n : i # j => q[i] # q[j] BY DEF SetToSeqs
<1>3. q \in Seq(S) BY <1>1, <1>2, SeqDef
<1>4. Len(q) = n /\ DOMAIN q = 1..n BY <1>1, <1>2, <1>3, LenProperties
<1>5. q \in Injection(1..n, S) BY <1>2 DEF Injection, IsInjective
<1>6. Cardinality(1..n) = n BY <1>1, FS_Interval
<1>7. q \in Surjection(1..n, S) BY <1>5, <1>6, FS_Injection
<1> QED BY <1>1, <1>2, <1>3, <1>4, <1>7 DEF Surjection

(* The first hits of a list, and the hits that follow the first ones.      *)
LEMMA FirstsAre ==
    ASSUME NEW S, NEW q \in Seq(S), NEW n \in Nat
    PROVE  /\ Firsts(q, n) \in Seq(S)
           /\ Len(Firsts(q, n)) = IF Len(q) < n THEN Len(q) ELSE n
           /\ \A i \in 1..Len(q) : i <= n => Firsts(q, n)[i] = q[i]
<1> DEFINE m == IF Len(q) < n THEN Len(q) ELSE n
           r == SubSeq(q, 1, m)
<1>1. Len(q) \in Nat /\ \A i \in 1..Len(q) : q[i] \in S BY LenProperties
<1>2. m \in Nat /\ m <= Len(q) /\ m <= n BY <1>1
<1>3. \A i \in 1..Len(q) : i <= n => i \in 1..m BY <1>1
<1> HIDE DEF m
<1>4. \A i \in 1..m : q[i] \in S BY <1>1, <1>2
<1>5. /\ r \in Seq(S) /\ Len(r) = IF 1 <= m THEN m - 1 + 1 ELSE 0
      /\ \A i \in 1..m - 1 + 1 : r[i] = q[1 + i - 1]
  BY <1>2, <1>4, SubSeqProperties
<1> HIDE DEF r
<1>6. Len(r) = m BY <1>2, <1>5
<1>7. \A i \in 1..m : r[i] = q[i]
  <2> SUFFICES ASSUME NEW i \in 1..m PROVE r[i] = q[i] OBVIOUS
  <2>1. i \in 1..m - 1 + 1 /\ 1 + i - 1 = i BY <1>2
  <2>2. r[i] = q[1 + i - 1] BY <1>5, <2>1
  <2> QED BY <2>1, <2>2
<1> QED BY <1>3, <1>5, <1>6, <1>7 DEF Firsts, r, m

LEMMA RestAre ==
    ASSUME NEW S, NEW q \in Seq(S), NEW o \in Nat
    PROVE  /\ SubSeq(q, o + 1, Len(q)) \in Seq(S)
           /\ Len(SubSeq(q, o + 1, Len(q))) = IF o < Len(q) THEN Len(q) - o ELSE 0
           /\ \A i \in 1..Len(q) - o : SubSeq(q, o + 1, Len(q))[i] = q[o + i]
<1> DEFINE r == SubSeq(q, o + 1, Len(q))
           n == Len(q)
<1>1. n \in Nat /\ \A i \in 1..n : q[i] \in S BY LenProperties
<1>2. \A i \in o + 1..n : q[i] \in S BY <1>1
<1>3. o + 1 \in Int /\ n \in Int BY <1>1
<1>4. /\ r \in Seq(S) /\ Len(r) = IF o + 1 <= n THEN n - (o + 1) + 1 ELSE 0
      /\ \A i \in 1..n - (o + 1) + 1 : r[i] = q[o + 1 + i - 1]
  BY <1>2, <1>3, SubSeqProperties
<1> HIDE DEF r, n
<1>5. Len(r) = IF o < n THEN n - o ELSE 0 BY <1>1, <1>4
<1>6. \A i \in 1..n - o : r[i] = q[o + i]
  <2> SUFFICES ASSUME NEW i \in 1..n - o PROVE r[i] = q[o + i] OBVIOUS
  <2>1. i \in Int /\ i \in 1..n - (o + 1) + 1 BY <1>1
  <2>2. o + 1 + i - 1 = o + i BY <2>1
  <2>3. r[i] = q[o + 1 + i - 1] BY <1>4, <2>1
  <2> QED BY <2>2, <2>3
<1> QED BY <1>4, <1>5, <1>6 DEF r, n

(* Page n of a list has its hits from (n - 1) * Limit + 1 to n * Limit.    *)
LEMMA PageHas ==
    ASSUME NEW S, NEW q \in Seq(S), page \in Nat \ {0}
    PROVE  /\ PageOf(q) \in Seq(S)
           /\ \A k \in 1..Len(q) : (page - 1) * Limit < k /\ k <= page * Limit =>
                 \E i \in DOMAIN PageOf(q) : PageOf(q)[i] = q[k]
<1> DEFINE o == (page - 1) * Limit
           r == SubSeq(q, o + 1, Len(q))
           f == Firsts(r, Limit)
<1>1. Limit \in Nat /\ page - 1 \in Nat BY FederationAssumption
<1>2. o \in Nat /\ page * Limit = o + Limit BY <1>1
<1> HIDE DEF o
<1>3. Len(q) \in Nat BY LenProperties
<1>4. /\ r \in Seq(S) /\ Len(r) = IF o < Len(q) THEN Len(q) - o ELSE 0
      /\ \A i \in 1..Len(q) - o : r[i] = q[o + i]
  BY <1>2, RestAre
<1> HIDE DEF r
<1>5. /\ f \in Seq(S) /\ Len(f) = IF Len(r) < Limit THEN Len(r) ELSE Limit
      /\ \A i \in 1..Len(r) : i <= Limit => f[i] = r[i]
  BY <1>1, <1>4, FirstsAre
<1>6. DOMAIN f = 1..Len(f) BY <1>5, LenProperties
<1> HIDE DEF f
<1>7. ASSUME NEW k \in 1..Len(q), o < k, k <= o + Limit
      PROVE  \E i \in DOMAIN f : f[i] = q[k]
  <2>1. k - o \in 1..Len(q) - o /\ k - o <= Limit /\ o + (k - o) = k
    BY <1>1, <1>2, <1>3, <1>7
  <2>2. k - o \in 1..Len(r) BY <1>2, <1>3, <1>4, <1>7, <2>1
  <2>3. f[k - o] = q[k] BY <1>4, <1>5, <2>1, <2>2
  <2>4. k - o \in DOMAIN f BY <1>1, <1>4, <1>5, <1>6, <2>1, <2>2
  <2> QED BY <2>3, <2>4
<1>8. PageOf(q) = f BY DEF PageOf, f, r, o
<1> QED BY <1>2, <1>5, <1>7, <1>8 DEF o

(* The pager counts the page that is not full.                             *)
LEMMA PagesCover ==
    ASSUME NEW n \in Nat, total \in Nat, n >= TotalPages
    PROVE  total <= n * Limit
<1>1. Limit \in Nat \ {0} BY FederationAssumption
<1> DEFINE a == total + Limit - 1
           d == a \div Limit
<1>2. a \in Nat BY <1>1
<1>3. d \in Nat /\ a < (d + 1) * Limit BY <1>1, <1>2, SMTT(30)
<1>4. d <= n BY DEF TotalPages
<1> HIDE DEF d
<1>5. (d + 1) * Limit <= (n + 1) * Limit BY <1>1, <1>3, <1>4, SMTT(30)
<1>6. (n + 1) * Limit = n * Limit + Limit /\ n * Limit \in Nat BY <1>1
<1> QED BY <1>1, <1>2, <1>3, <1>5, <1>6

-----------------------------------------------------------------------------
(* Type correctness, and what a search has when.                           *)

(* A search is not asked of peers but on its first page, whose hits it     *)
(* still shows until they are merged; a peer is asked once, and no other   *)
(* has a task.                                                             *)
Shape ==
    /\ \A i, j \in DOMAIN asked : asked[i] = asked[j] => i = j
    /\ \A p \in Peers : task[p] # "none" => \E k \in DOMAIN asked : asked[k] = p
    /\ phase \in {"new", "selecting"} => \A p \in Peers : task[p] = "none"
    /\ phase \in {"selecting", "asking", "merging"} => page = 1 /\ results = local

(* What the assumption says of a corpus.                                   *)
LEMMA CorpusIs ==
    ASSUME NEW c \in Corpora
    PROVE  /\ IsFiniteSet(c) /\ c \subseteq Hit
           /\ \A h, g \in c : h.url = g.url => h = g
BY FederationAssumption

(* The local hits are one of the orders in which the database may answer.  *)
LEMMA ByScoreIs ==
    ASSUME TypeOK, NEW q \in ByScore
    PROVE  /\ q \in Seq(Hit) /\ q \in SetToSeqs(index)
           /\ Len(q) = Cardinality(index) /\ Cardinality(index) \in Nat
           /\ \A x \in index : \E i \in 1..Len(q) : q[i] = x
           /\ \A i, j \in 1..Len(q) : q[i] = q[j] => i = j
           /\ \A i \in 1..Len(q) : q[i] \in index
           /\ \A i, j \in 1..Len(q) : i < j => q[i].score >= q[j].score
           /\ PageOf(q) \in Seq(Hit)
<1>1. IsFiniteSet(index) /\ index \subseteq Hit BY CorpusIs DEF TypeOK
<1>2. q \in SetToSeqs(index) BY DEF ByScore
<1>3. /\ q \in Seq(index) /\ DOMAIN q = 1..Len(q)
      /\ Len(q) = Cardinality(index) /\ Len(q) \in Nat
      /\ \A i, j \in 1..Len(q) : q[i] = q[j] => i = j
      /\ \A x \in index : \E i \in 1..Len(q) : q[i] = x
  BY <1>1, <1>2, Enumerates
<1>4. \A i \in 1..Len(q) : q[i] \in index BY <1>3, ElementOfSeq
<1>5. \A i, j \in 1..Len(q) : i < j => q[i].score >= q[j].score
  BY <1>3 DEF ByScore
<1>6. q \in Seq(Hit) BY <1>1, <1>3
<1>7. PageOf(q) \in Seq(Hit) BY <1>6, PageHas DEF TypeOK
<1> QED BY <1>2, <1>3, <1>4, <1>5, <1>6, <1>7

(* The peers asked are the enabled ones, each of them once.                *)
LEMMA AskedAre ==
    ASSUME TypeOK, NEW q \in SetToSeqs(enabled)
    PROVE  /\ q \in Seq(Peers) /\ DOMAIN q = 1..Len(q)
           /\ \A i, j \in DOMAIN q : q[i] = q[j] => i = j
           /\ \A p \in enabled : \E k \in DOMAIN q : q[k] = p
<1>1. enabled \subseteq Peers /\ IsFiniteSet(enabled)
  BY FederationAssumption, FS_Subset DEF TypeOK
<1>2. /\ q \in Seq(enabled) /\ DOMAIN q = 1..Len(q)
      /\ \A i, j \in 1..Len(q) : q[i] = q[j] => i = j
      /\ \A p \in enabled : \E k \in 1..Len(q) : q[k] = p
  BY <1>1, Enumerates
<1> QED BY <1>1, <1>2

(* The places in the peers' answers are finitely many.                     *)
LEMMA PoolIs ==
    ASSUME TypeOK
    PROVE  /\ IsFiniteSet(Pool)
           /\ \A x : x \in Pool <=>
                 /\ x = <<x[1], x[2]>> /\ x[1] \in DOMAIN asked
                 /\ task[asked[x[1]]] = "hits"
                 /\ x[2] \in DOMAIN PeerHits[asked[x[1]]]
           /\ \A x \in Pool : x[1] \in Nat /\ x[2] \in Nat /\ HitAt(x) \in Hit
<1>1. asked \in Seq(Peers) /\ DOMAIN asked = 1..Len(asked) /\ Len(asked) \in Nat
  BY DEF TypeOK
<1>2. \A k \in DOMAIN asked : asked[k] \in Peers BY <1>1
<1>3. ASSUME NEW p \in Peers
      PROVE  /\ DOMAIN PeerHits[p] = 1..Len(PeerHits[p]) /\ Len(PeerHits[p]) \in Nat
             /\ \A i \in DOMAIN PeerHits[p] : PeerHits[p][i] \in Hit
  <2>1. PeerHits[p] \in Seq(Hit) BY <1>3, FederationAssumption
  <2> QED BY <2>1
<1> DEFINE K == {k \in DOMAIN asked : task[asked[k]] = "hits"}
           A == {{k} \X DOMAIN PeerHits[asked[k]] : k \in K}
<1>4. \A x : x \in Pool <=>
                 /\ x = <<x[1], x[2]>> /\ x[1] \in DOMAIN asked
                 /\ task[asked[x[1]]] = "hits"
                 /\ x[2] \in DOMAIN PeerHits[asked[x[1]]]
  <2> SUFFICES ASSUME NEW x
               PROVE  x \in Pool <=>
                 /\ x = <<x[1], x[2]>> /\ x[1] \in DOMAIN asked
                 /\ task[asked[x[1]]] = "hits"
                 /\ x[2] \in DOMAIN PeerHits[asked[x[1]]]
    OBVIOUS
  <2>1. x \in Pool <=> \E k \in K : x \in {k} \X DOMAIN PeerHits[asked[k]]
    BY DEF Pool
  <2> QED BY <2>1
<1>5. IsFiniteSet(Pool)
  <2>1. IsFiniteSet(K)
    <3>1. IsFiniteSet(DOMAIN asked) BY <1>1, FS_Interval
    <3> QED BY <3>1, FS_Subset
  <2>2. IsFiniteSet(A)
    <3> DEFINE f == [k \in K |-> {k} \X DOMAIN PeerHits[asked[k]]]
    <3>1. f \in Surjection(K, A) BY DEF Surjection
    <3> QED BY <2>1, <3>1, FS_Surjection
  <2>3. ASSUME NEW T \in A PROVE IsFiniteSet(T)
    <3>1. PICK k \in K : T = {k} \X DOMAIN PeerHits[asked[k]] OBVIOUS
    <3>2. IsFiniteSet(DOMAIN PeerHits[asked[k]])
      <4>1. asked[k] \in Peers BY <1>2
      <4> QED BY <4>1, <1>3, FS_Interval
    <3>3. IsFiniteSet({k}) BY FS_Singleton
    <3> QED BY <3>1, <3>2, <3>3, FS_Product
  <2> HIDE DEF A
  <2>4. IsFiniteSet(UNION A) BY <2>2, <2>3, FS_UNION
  <2> QED BY <2>4 DEF A, Pool
<1>6. \A x \in Pool : x[1] \in Nat /\ x[2] \in Nat /\ HitAt(x) \in Hit
  BY <1>1, <1>2, <1>3, <1>4 DEF HitAt
<1> QED BY <1>4, <1>5, <1>6

(* The hits that Merge appends: every fresh one, and no other.             *)
LEMMA FreshAre ==
    ASSUME TypeOK, NEW q \in Fresh
    PROVE  /\ q \in Seq(Remote) /\ DOMAIN q = 1..Len(q) /\ Len(q) \in Nat
           /\ \A i \in DOMAIN q :
                 /\ q[i] \in Remote /\ HitAt(q[i]) \in Hit
                 /\ HitAt(q[i]).url \notin Urls(results)
           /\ \A x \in Remote :
                 HitAt(x).url \notin Urls(results) => \E i \in DOMAIN q : q[i] = x
           /\ [i \in DOMAIN q |-> HitAt(q[i])] \in Seq(Hit)
<1> DEFINE S == {x \in Remote : HitAt(x).url \notin Urls(results)}
<1>1. IsFiniteSet(Pool) /\ \A x \in Pool : HitAt(x) \in Hit BY PoolIs
<1>2. S \subseteq Remote /\ Remote \subseteq Pool BY DEF Remote
<1>3. IsFiniteSet(S) BY <1>1, <1>2, FS_Subset
<1>4. q \in SetToSeqs(S) BY DEF Fresh
<1>5. \A x \in S : x \in Remote /\ HitAt(x).url \notin Urls(results) OBVIOUS
<1>6. \A x \in Remote : HitAt(x).url \notin Urls(results) => x \in S OBVIOUS
<1> HIDE DEF S
<1>7. /\ q \in Seq(S) /\ DOMAIN q = 1..Len(q) /\ Len(q) \in Nat
      /\ \A x \in S : \E i \in 1..Len(q) : q[i] = x
  BY <1>3, <1>4, Enumerates
<1>8. \A i \in DOMAIN q : q[i] \in S BY <1>7, ElementOfSeq
<1>9. \A i \in DOMAIN q : HitAt(q[i]) \in Hit BY <1>1, <1>2, <1>8
<1>10. [i \in DOMAIN q |-> HitAt(q[i])] \in Seq(Hit)
  <2>1. [i \in 1..Len(q) |-> HitAt(q[i])] \in [1..Len(q) -> Hit] BY <1>7, <1>9
  <2> QED BY <1>7, <2>1, SeqDef
<1>11. q \in Seq(Remote) BY <1>2, <1>7
<1> QED BY <1>2, <1>5, <1>6, <1>7, <1>8, <1>9, <1>10, <1>11

LEMMA InitType == Init => TypeOK /\ Shape
<1> SUFFICES ASSUME Init PROVE TypeOK /\ Shape OBVIOUS
<1>1. /\ Limit \in Nat \ {0} /\ Budget \in Nat /\ MaxChanges \in Nat
  BY FederationAssumption
<1>2. TypeOK BY <1>1 DEF Init, TypeOK
<1>3. Shape BY DEF Init, Shape
<1> QED BY <1>2, <1>3

LEMMA NextType == TypeOK /\ Shape /\ [Next]_vars => TypeOK' /\ Shape'
<1> SUFFICES ASSUME TypeOK, Shape, [Next]_vars PROVE TypeOK' /\ Shape' OBVIOUS
<1>1. /\ Limit \in Nat \ {0} /\ Budget \in Nat /\ MaxChanges \in Nat
  BY FederationAssumption
<1>2. CASE Search
  <2>1. PICK q \in ByScore : local' = PageOf(q) BY <1>2 DEF Search
  <2>2. local' \in Seq(Hit) /\ Cardinality(index) \in Nat BY <2>1, ByScoreIs
  <2>3. total' \in Nat BY <1>2, <2>2 DEF Search
  <2>4. Urls(local') \subseteq STRING
    <3>1. \A i \in DOMAIN local' : local'[i] \in Hit BY <2>2
    <3>2. \A h \in Hit : h.url \in STRING BY DEF Hit
    <3> QED BY <3>1, <3>2 DEF Urls
  <2>5. TypeOK' BY <1>2, <2>2, <2>3, <2>4 DEF Search, TypeOK
  <2>6. Shape' BY <1>2 DEF Search, Shape
  <2> QED BY <2>5, <2>6
<1>3. CASE AskPeers
  <2>1. /\ asked' \in Seq(Peers)
        /\ \A i, j \in DOMAIN asked' : asked'[i] = asked'[j] => i = j
        /\ \A p \in enabled : \E k \in DOMAIN asked' : asked'[k] = p
    BY <1>3, AskedAre DEF AskPeers
  <2>2. TypeOK' BY <1>3, <2>1 DEF AskPeers, TypeOK
  <2>3. Shape' BY <1>3, <2>1 DEF AskPeers, Shape
  <2> QED BY <2>2, <2>3
<1>4. CASE AllIn BY <1>4 DEF AllIn, TypeOK, Shape
<1>5. CASE Expire
  <2>1. TypeOK' BY <1>5 DEF Expire, TypeOK
  <2>2. Shape' BY <1>5 DEF Expire, Shape, Running, TypeOK
  <2> QED BY <2>1, <2>2
<1>6. CASE Merge
  <2>1. PICK q \in Fresh : results' = results \o [i \in DOMAIN q |-> HitAt(q[i])]
    BY <1>6 DEF Merge, Merged
  <2>2. [i \in DOMAIN q |-> HitAt(q[i])] \in Seq(Hit) BY FreshAre
  <2>3. results' \in Seq(Hit) BY <2>1, <2>2, ConcatProperties DEF TypeOK
  <2>4. TypeOK' BY <1>6, <2>3 DEF Merge, Merging, TypeOK
  <2>5. Shape' BY <1>6, <2>3 DEF Merge, Merging, Shape
  <2> QED BY <2>4, <2>5
<1>15. CASE MergeFails BY <1>15 DEF MergeFails, Merging, TypeOK, Shape
<1>7. CASE Tick
  <2>1. left' \in 0..Budget BY <1>1, <1>7 DEF Tick, TypeOK
  <2> QED BY <1>7, <2>1 DEF Tick, TypeOK, Shape
<1>8. ASSUME NEW n \in Nat \ {0}, TurnTo(n) PROVE TypeOK' /\ Shape'
  <2>1. left' \in 0..Budget BY <1>1, <1>8 DEF TurnTo
  <2>2. asked' \in Seq(Peers) /\ DOMAIN asked' = {} BY <1>8 DEF TurnTo
  <2>3. TypeOK' BY <1>8, <2>1, <2>2 DEF TurnTo, TypeOK
  <2>4. Shape' BY <1>8, <2>2 DEF TurnTo, Shape
  <2> QED BY <2>3, <2>4
<1>9. CASE NextPage BY <1>8, <1>9 DEF NextPage, TypeOK
<1>10. CASE PrevPage
  <2>1. page - 1 \in Nat \ {0} BY <1>10 DEF PrevPage, TypeOK
  <2> QED BY <1>8, <1>10, <2>1 DEF PrevPage
<1>11. CASE ChangeIndex
  <2>1. changes' \in 0..MaxChanges BY <1>1, <1>11 DEF ChangeIndex, TypeOK
  <2>2. index' \in Corpora BY <1>11 DEF ChangeIndex
  <2>3. TypeOK' BY <1>11, <2>1, <2>2 DEF ChangeIndex, TypeOK
  <2>4. Shape' BY <1>11 DEF ChangeIndex, Shape
  <2> QED BY <2>3, <2>4
<1>12. ASSUME NEW p \in Peers, PeerEnds(p) PROVE TypeOK' /\ Shape'
  <2>1. TypeOK' BY <1>12 DEF PeerEnds, TypeOK
  <2>2. Shape' BY <1>12 DEF PeerEnds, Shape, TypeOK, Running
  <2> QED BY <2>1, <2>2
<1>13. ASSUME NEW p \in Peers, TogglePeer(p) PROVE TypeOK' /\ Shape'
  BY <1>13 DEF TogglePeer, TypeOK, Shape
<1>14. CASE UNCHANGED vars BY <1>14 DEF vars, TypeOK, Shape
<1> QED
  BY <1>2, <1>3, <1>4, <1>5, <1>6, <1>7, <1>9, <1>10, <1>11, <1>12, <1>13, <1>14, <1>15
  DEF Next, SearchStep, Over

(* Every variable keeps its type; a peer is asked once in a search, no     *)
(* other has a task, and the local hits wait for the peers unchanged.      *)
THEOREM FederationTypes == Spec => [](TypeOK /\ Shape)
<1>1. Init => TypeOK /\ Shape BY InitType
<1>2. TypeOK /\ Shape /\ [Next]_vars => (TypeOK /\ Shape)' BY NextType
<1> QED BY <1>1, <1>2, PTL DEF Spec

-----------------------------------------------------------------------------
(* What the peers answered.                                                *)

LEMMA KeepsAnswers ==
    ASSUME TypeOK, Next, phase = "asking",
           NEW p \in Peers, task[p] \in {"hits", "error"}
    PROVE  task'[p] = task[p]
<1>1. CASE Search BY <1>1 DEF Search
<1>2. CASE AskPeers BY <1>2 DEF AskPeers
<1>3. CASE AllIn BY <1>3 DEF AllIn
<1>4. CASE Expire BY <1>4 DEF Expire, Running, TypeOK
<1>5. CASE Merge \/ MergeFails BY <1>5 DEF Merge, MergeFails, Merging
<1>6. CASE Tick BY <1>6 DEF Tick
<1>7. CASE NextPage \/ PrevPage BY <1>7 DEF NextPage, PrevPage, TurnTo
<1>8. CASE ChangeIndex BY <1>8 DEF ChangeIndex
<1>9. CASE Over BY <1>9 DEF Over
<1>10. ASSUME NEW r \in Peers, PeerEnds(r) PROVE task'[p] = task[p]
  BY <1>10 DEF PeerEnds, Running, TypeOK
<1>11. ASSUME NEW r \in Peers, TogglePeer(r) PROVE task'[p] = task[p]
  BY <1>11 DEF TogglePeer
<1> QED
  BY <1>1, <1>2, <1>3, <1>4, <1>5, <1>6, <1>7, <1>8, <1>9, <1>10, <1>11
  DEF Next, SearchStep

(* What a peer has answered within the budget is not lost when the budget  *)
(* is spent (federated_hits), whatever the other peers do.                 *)
THEOREM AnswersAreKept == Spec => AnswersKept
<1>1. TypeOK /\ [Next]_vars =>
        [phase = "asking" =>
            \A p \in Peers : task[p] \in {"hits", "error"} => task'[p] = task[p]]_vars
  <2> SUFFICES ASSUME TypeOK, Next, phase = "asking",
                      NEW p \in Peers, task[p] \in {"hits", "error"}
               PROVE  task'[p] = task[p]
    OBVIOUS
  <2> QED BY KeepsAnswers
<1> QED BY <1>1, FederationTypes, PTL DEF Spec, AnswersKept

-----------------------------------------------------------------------------
(* What a reader who turns the pages has seen.                             *)

(* The hits that come before h in every order of the database.             *)
Ahead(h) == {g \in index : g.score > h.score}

Tied(h) == \E g \in index : g.url # h.url /\ g.score = h.score

(* Pages that are only added push the hits of the first page back, so that *)
(* a hit not yet seen, unless it ties, stays behind the reader's page; and *)
(* the answer counted it, so that the pager goes on.                       *)
SkipInv ==
    steady =>
        /\ first \subseteq index
        /\ \A h \in first :
              \/ h.url \in seen
              \/ Tied(h)
              \/ /\ phase = "new" => Cardinality(Ahead(h)) >= (page - 1) * Limit
                 /\ phase # "new" =>
                       /\ Cardinality(Ahead(h)) >= page * Limit
                       /\ total = 0 \/ total > page * Limit

(* A hit that does not tie has one place, whatever order is taken.         *)
LEMMA PlaceOf ==
    ASSUME TypeOK, NEW q \in ByScore, NEW k \in 1..Len(q), ~Tied(q[k])
    PROVE  Cardinality(Ahead(q[k])) = k - 1
<1>1. /\ \A x \in index : \E i \in 1..Len(q) : q[i] = x
      /\ \A i, j \in 1..Len(q) : q[i] = q[j] => i = j
      /\ \A i \in 1..Len(q) : q[i] \in index
      /\ \A i, j \in 1..Len(q) : i < j => q[i].score >= q[j].score
      /\ Len(q) \in Nat
  BY ByScoreIs
<1>2. index \subseteq Hit /\ \A h, g \in index : h.url = g.url => h = g
  BY CorpusIs DEF TypeOK
<1>3. \A h \in index : h.score \in Nat BY <1>2 DEF Hit
<1> DEFINE f == [i \in 1..k - 1 |-> q[i]]
<1>4. ASSUME NEW i \in 1..k - 1 PROVE q[i] \in Ahead(q[k])
  <2>1. i \in 1..Len(q) /\ i < k BY <1>1
  <2>2. q[i] \in index /\ q[k] \in index /\ q[i].score >= q[k].score BY <1>1, <2>1
  <2>3. q[i].score # q[k].score
    <3> SUFFICES ASSUME q[i].score = q[k].score PROVE FALSE OBVIOUS
    <3>1. q[i].url = q[k].url BY <2>2 DEF Tied
    <3>2. q[i] = q[k] BY <1>2, <2>2, <3>1
    <3> QED BY <1>1, <2>1, <3>2
  <2>4. q[i].score > q[k].score BY <1>3, <2>2, <2>3
  <2> QED BY <2>2, <2>4 DEF Ahead
<1>5. ASSUME NEW g \in Ahead(q[k]) PROVE \E i \in 1..k - 1 : q[i] = g
  <2>1. g \in index /\ g.score > q[k].score BY DEF Ahead
  <2>2. PICK i \in 1..Len(q) : q[i] = g BY <1>1, <2>1
  <2>3. q[k] \in index BY <1>1
  <2>4. i # k BY <1>3, <2>1, <2>2
  <2>5. ~(k < i) BY <1>1, <1>3, <2>1, <2>2, <2>3
  <2>6. i \in 1..k - 1 BY <1>1, <2>4, <2>5
  <2> QED BY <2>2, <2>6
<1>6. \A i, j \in 1..k - 1 : q[i] = q[j] => i = j BY <1>1
<1>7. f \in Bijection(1..k - 1, Ahead(q[k]))
  BY <1>4, <1>5, <1>6 DEF Bijection, Injection, IsInjective, Surjection
<1>8. IsFiniteSet(1..k - 1) /\ Cardinality(1..k - 1) = k - 1
  <2>1. k \in Nat \ {0} BY <1>1
  <2> DEFINE m == k - 1
  <2>2. m \in Nat BY <2>1
  <2> HIDE DEF m
  <2>3. /\ IsFiniteSet(1..m)
        /\ Cardinality(1..m) = IF 1 > m THEN 0 ELSE m - 1 + 1
    <3>1. 1 \in Int /\ m \in Int BY <2>2
    <3> QED BY <3>1, FS_Interval
  <2>4. Cardinality(1..m) = m BY <2>2, <2>3
  <2> QED BY <2>3, <2>4 DEF m
<1>9. ExistsBijection(1..k - 1, Ahead(q[k])) BY <1>7 DEF ExistsBijection
<1> QED BY <1>8, <1>9, FS_Bijection

(* A hit that is not yet behind the reader is on the page, ties, or comes  *)
(* after the page.                                                         *)
LEMMA SearchSkipsNone ==
    ASSUME TypeOK, SkipInv, Search, steady
    PROVE  SkipInv'
<1>1. PICK q \in ByScore : local' = PageOf(q) BY DEF Search
<1>2. /\ q \in Seq(Hit) /\ Len(q) = Cardinality(index) /\ Len(q) \in Nat
      /\ \A x \in index : \E i \in 1..Len(q) : q[i] = x
  BY ByScoreIs
<1>3. /\ Limit \in Nat /\ page \in Nat \ {0}
      /\ page * Limit \in Nat /\ (page - 1) * Limit \in Nat
  BY FederationAssumption DEF TypeOK
<1>4. first' \subseteq index' /\ index' = index BY DEF Search, SkipInv
<1>5. phase' # "new" /\ seen' = seen \cup Urls(local') /\ page' = page
  BY DEF Search
<1>6. ASSUME NEW h \in first', h.url \notin seen', ~Tied(h)
      PROVE  /\ Cardinality(Ahead(h)) >= page * Limit
             /\ total' = 0 \/ total' > page * Limit
  <2>1. PICK k \in 1..Len(q) : q[k] = h BY <1>2, <1>4
  <2>2. Cardinality(Ahead(h)) = k - 1 BY <1>6, <2>1, PlaceOf
  <2>3. k > (page - 1) * Limit
    <3>1. CASE h \in first
      <4>1. Cardinality(Ahead(h)) >= (page - 1) * Limit
        BY <1>5, <1>6, <3>1 DEF SkipInv, Search
      <4> QED BY <1>2, <1>3, <2>2, <4>1
    <3>2. CASE page = 1
      <4>1. (page - 1) * Limit = 0 BY <1>3, <3>2
      <4> QED BY <1>2, <4>1
    <3> QED BY <3>1, <3>2, <1>6 DEF Search
  <2>4. k > page * Limit
    <3> SUFFICES ASSUME k <= page * Limit PROVE FALSE BY <1>2, <1>3
    <3>1. PICK i \in DOMAIN local' : local'[i] = h
      BY <1>1, <1>2, <1>3, <2>1, <2>3, PageHas
    <3>2. h.url \in Urls(local') BY <3>1 DEF Urls
    <3> QED BY <1>5, <1>6, <3>2
  <2>5. Cardinality(Ahead(h)) >= page * Limit BY <1>2, <1>3, <2>2, <2>4
  <2>6. Cardinality(index) > page * Limit BY <1>2, <1>3, <2>4
  <2> QED BY <2>5, <2>6 DEF Search
<1>7. \A h : Ahead(h)' = Ahead(h) /\ (Tied(h)' <=> Tied(h))
  BY <1>4 DEF Ahead, Tied
<1> QED BY <1>4, <1>5, <1>6, <1>7 DEF SkipInv

(* Pages that are added push it further back.                              *)
LEMMA ChangeSkipsNone ==
    ASSUME TypeOK, SkipInv, ChangeIndex
    PROVE  SkipInv'
<1> SUFFICES ASSUME steady' PROVE SkipInv' BY DEF SkipInv
<1>1. /\ steady /\ index \subseteq index' /\ index' \in Corpora
      /\ phase' = phase /\ page' = page /\ total' = total
      /\ first' = first /\ seen' = seen
  BY DEF ChangeIndex
<1>2. /\ Limit \in Nat /\ page \in Nat \ {0}
      /\ page * Limit \in Nat /\ (page - 1) * Limit \in Nat
  BY FederationAssumption DEF TypeOK
<1>3. ASSUME NEW h
      PROVE  /\ Tied(h) => Tied(h)'
             /\ Cardinality(Ahead(h)) <= Cardinality(Ahead(h)')
             /\ Cardinality(Ahead(h)) \in Nat /\ Cardinality(Ahead(h)') \in Nat
  <2>1. Tied(h) => Tied(h)' BY <1>1 DEF Tied
  <2>2. Ahead(h) \subseteq Ahead(h)' BY <1>1 DEF Ahead
  <2>3. IsFiniteSet(Ahead(h)')
    <3>1. Ahead(h)' \subseteq index' BY DEF Ahead
    <3> QED BY <1>1, <3>1, CorpusIs, FS_Subset
  <2>4. /\ IsFiniteSet(Ahead(h))
        /\ Cardinality(Ahead(h)) <= Cardinality(Ahead(h)')
    BY <2>2, <2>3, FS_Subset
  <2> QED BY <2>1, <2>3, <2>4, FS_CardinalityType
<1>4. first' \subseteq index' BY <1>1 DEF SkipInv
<1>5. ASSUME NEW h \in first', h.url \notin seen', ~Tied(h)'
      PROVE  /\ phase' = "new" => Cardinality(Ahead(h)') >= (page' - 1) * Limit
             /\ phase' # "new" =>
                   /\ Cardinality(Ahead(h)') >= page' * Limit
                   /\ total' = 0 \/ total' > page' * Limit
  BY <1>1, <1>2, <1>3, <1>5 DEF SkipInv
<1> QED BY <1>1, <1>4, <1>5 DEF SkipInv

LEMMA TurnSkipsNone ==
    ASSUME TypeOK, SkipInv, NEW n \in Nat \ {0}, n <= page + 1, TurnTo(n)
    PROVE  SkipInv'
<1> SUFFICES ASSUME steady' PROVE SkipInv' BY DEF SkipInv
<1>1. /\ steady /\ index' = index /\ phase = "answered" /\ phase' = "new"
      /\ page' = n /\ first' = first /\ seen' = seen
  BY DEF TurnTo
<1>2. Limit \in Nat /\ page \in Nat BY FederationAssumption DEF TypeOK
<1>3. (n - 1) * Limit <= page * Limit BY <1>2, SMTT(30)
<1>4. (n - 1) * Limit \in Nat /\ page * Limit \in Nat BY <1>2
<1>5. \A h : /\ Ahead(h)' = Ahead(h) /\ (Tied(h)' <=> Tied(h))
             /\ Cardinality(Ahead(h)) \in Nat
  <2>1. \A h : IsFiniteSet(Ahead(h)) BY CorpusIs, FS_Subset DEF Ahead, TypeOK
  <2> QED BY <1>1, <2>1, FS_CardinalityType DEF Ahead, Tied
<1>6. ASSUME NEW h \in first, h.url \notin seen, ~Tied(h)
      PROVE  Cardinality(Ahead(h)) >= (n - 1) * Limit
  <2>1. Cardinality(Ahead(h)) >= page * Limit BY <1>1, <1>6 DEF SkipInv
  <2> QED BY <1>3, <1>4, <1>5, <2>1
<1> QED BY <1>1, <1>5, <1>6 DEF SkipInv

LEMMA InitSkip == Init => SkipInv
BY DEF Init, SkipInv

LEMMA NextSkip == TypeOK /\ SkipInv /\ [Next]_vars => SkipInv'
<1> SUFFICES ASSUME TypeOK, SkipInv, [Next]_vars PROVE SkipInv' OBVIOUS
<1>1. CASE Search BY <1>1, SearchSkipsNone DEF Search, SkipInv
<1>2. CASE ChangeIndex BY <1>2, ChangeSkipsNone
<1>3. CASE NextPage BY <1>3, TurnSkipsNone DEF NextPage, TypeOK
<1>4. CASE PrevPage
  <2>1. page - 1 \in Nat \ {0} /\ page - 1 <= page + 1
    BY <1>4 DEF PrevPage, TypeOK
  <2> QED BY <1>4, <2>1, TurnSkipsNone DEF PrevPage
<1>5. ASSUME /\ UNCHANGED <<index, page, total, first, seen, steady>>
             /\ (phase # "new" /\ phase' # "new") \/ UNCHANGED phase
      PROVE  SkipInv'
  BY <1>5 DEF SkipInv, Ahead, Tied
<1>6. CASE AskPeers BY <1>5, <1>6 DEF AskPeers
<1>7. CASE AllIn BY <1>5, <1>7 DEF AllIn
<1>8. CASE Expire BY <1>5, <1>8 DEF Expire
<1>9. CASE Merge \/ MergeFails
  <2>1. phase' # "new" BY <1>9 DEF Merge, MergeFails
  <2> QED BY <1>5, <1>9, <2>1 DEF Merge, MergeFails, Merging
<1>10. CASE Tick BY <1>5, <1>10 DEF Tick
<1>11. ASSUME NEW p \in Peers, PeerEnds(p) PROVE SkipInv' BY <1>5, <1>11 DEF PeerEnds
<1>12. ASSUME NEW p \in Peers, TogglePeer(p) PROVE SkipInv'
  BY <1>5, <1>12 DEF TogglePeer
<1>13. CASE UNCHANGED vars BY <1>5, <1>13 DEF vars
<1> QED
  BY <1>1, <1>2, <1>3, <1>4, <1>6, <1>7, <1>8, <1>9, <1>10, <1>11, <1>12, <1>13
  DEF Next, SearchStep, Over

(* On the last page nothing is left behind: a hit would have been counted. *)
LEMMA SkipsNone == TypeOK /\ SkipInv => NothingSkipped
<1> SUFFICES ASSUME TypeOK, SkipInv, phase = "answered", steady, HasPager, ~MorePages,
                    NEW h \in first, h.url \notin seen, ~Tied(h)
             PROVE  FALSE
  BY DEF NothingSkipped, Tied
<1>1. total = 0 \/ total > page * Limit BY DEF SkipInv
<1>2. /\ page \in Nat /\ total \in Nat /\ Limit \in Nat \ {0}
      /\ page * Limit \in Nat /\ TotalPages > 1
  BY FederationAssumption DEF TypeOK, HasPager
<1>3. TotalPages \in Nat
  BY <1>2, SMTT(30) DEF TotalPages
<1>4. total # 0
  <2> SUFFICES ASSUME total = 0 PROVE FALSE OBVIOUS
  <2>1. (Limit - 1) \div Limit = 0 BY <1>2, SMTT(30)
  <2> QED BY <1>2, <2>1 DEF TotalPages
<1>5. page >= TotalPages BY <1>2, <1>3 DEF MorePages
<1>6. total <= page * Limit BY <1>2, <1>5, PagesCover
<1> QED BY <1>1, <1>2, <1>4, <1>6

(* Following the pager to the last page, a reader has seen every hit that  *)
(* the index had at first, unless hits tie, while pages are only added:    *)
(* search.py's LIMIT and OFFSET and the page count of its answer agree.    *)
THEOREM NoneSkipped == Spec => []NothingSkipped
<1>1. Init => SkipInv BY InitSkip
<1>2. TypeOK /\ SkipInv /\ [Next]_vars => SkipInv' BY NextSkip
<1>3. TypeOK /\ SkipInv => NothingSkipped BY SkipsNone
<1> QED BY <1>1, <1>2, <1>3, FederationTypes, PTL DEF Spec

-----------------------------------------------------------------------------
(* The best hits.                                                          *)

(* A hit that the limit leaves out has Limit delivered ones before it.     *)
LEMMA LeftOut ==
    ASSUME TypeOK, Shape, NEW k \in DOMAIN asked,
           NEW i \in DOMAIN PeerHits[asked[k]], task[asked[k]] = "hits",
           <<k, i>> \notin Remote
    PROVE  Cardinality(Above(asked[k], i)) >= Limit
<1> DEFINE p == asked[k]
           x == <<k, i>>
           Firmer == {y \in Pool : Before(y, x)}
           D == UNION {{r} \X DOMAIN PeerHits[r] : r \in {r \in Peers : task[r] = "hits"}}
           Whose(y) == <<asked[y[1]], y[2]>>
           f == [y \in Pool |-> Whose(y)]
           g == [y \in Firmer |-> Whose(y)]
<1>1. asked \in Seq(Peers) /\ DOMAIN asked \subseteq Nat BY DEF TypeOK
<1>2. \A j \in DOMAIN asked : asked[j] \in Peers BY <1>1
<1>3. /\ IsFiniteSet(Pool)
      /\ \A y : y \in Pool <=>
                 /\ y = <<y[1], y[2]>> /\ y[1] \in DOMAIN asked
                 /\ task[asked[y[1]]] = "hits"
                 /\ y[2] \in DOMAIN PeerHits[asked[y[1]]]
      /\ \A y \in Pool : y[1] \in Nat /\ y[2] \in Nat /\ HitAt(y) \in Hit
  BY PoolIs
<1>4. \A h \in Hit : h.score \in Nat BY DEF Hit
<1>5. x \in Pool /\ x[1] = k /\ x[2] = i BY <1>3
<1>6. \A d : d \in D <=>
                /\ d = <<d[1], d[2]>> /\ d[1] \in Peers /\ task[d[1]] = "hits"
                /\ d[2] \in DOMAIN PeerHits[d[1]]
  OBVIOUS
<1>7. f \in Surjection(Pool, D)
  <2>1. ASSUME NEW y \in Pool PROVE Whose(y) \in D BY <1>2, <1>3, <1>6
  <2>2. ASSUME NEW d \in D PROVE \E y \in Pool : Whose(y) = d
    <3>1. PICK j \in DOMAIN asked : asked[j] = d[1] BY <1>6 DEF Shape
    <3>2. <<j, d[2]>> \in Pool BY <1>3, <1>6, <3>1
    <3>3. Whose(<<j, d[2]>>) = d BY <1>6, <3>1
    <3> QED BY <3>2, <3>3
  <2> HIDE DEF D
  <2> QED BY <2>1, <2>2 DEF Surjection
<1>8. IsFiniteSet(D) BY <1>3, <1>7, FS_Surjection
<1>9. Above(p, i) \subseteq D BY DEF Above
<1>10. IsFiniteSet(Above(p, i)) BY <1>8, <1>9, FS_Subset
<1>11. ASSUME NEW y \in Firmer PROVE Whose(y) \in Above(p, i)
  <2>1. y \in Pool /\ Before(y, x) OBVIOUS
  <2>2. Whose(y) \in D BY <1>7, <2>1 DEF Surjection
  <2>3. HitAt(y).score >= HitAt(x).score BY <1>3, <1>4, <1>5, <2>1 DEF Before
  <2>4. Whose(y) # <<p, i>>
    <3> SUFFICES ASSUME Whose(y) = <<p, i>> PROVE FALSE OBVIOUS
    <3>1. asked[y[1]] = asked[k] /\ y[2] = i OBVIOUS
    <3>2. y[1] = k BY <1>3, <2>1, <3>1 DEF Shape
    <3>3. y[1] = x[1] /\ y[2] = x[2] /\ y[1] \in Nat /\ y[2] \in Nat
      BY <1>3, <1>5, <2>1, <3>1, <3>2
    <3>4. ~CameBefore(y, x) BY <3>3 DEF CameBefore
    <3>5. HitAt(y) = HitAt(x) BY <3>3 DEF HitAt
    <3>6. HitAt(x).score \in Nat BY <1>3, <1>4, <1>5
    <3> QED BY <2>1, <3>4, <3>5, <3>6 DEF Before
  <2>5. PeerHits[Whose(y)[1]][Whose(y)[2]] = HitAt(y) BY DEF HitAt
  <2>6. PeerHits[p][i] = HitAt(x) BY <1>5 DEF HitAt
  <2> HIDE DEF Whose, x, p
  <2> QED BY <2>2, <2>3, <2>4, <2>5, <2>6 DEF Above, D
<1>12. \A y, z \in Firmer : Whose(y) = Whose(z) => y = z
  <2> SUFFICES ASSUME NEW y \in Pool, NEW z \in Pool, Whose(y) = Whose(z)
               PROVE  y = z
    OBVIOUS
  <2>1. asked[y[1]] = asked[z[1]] /\ y[2] = z[2] OBVIOUS
  <2>2. y[1] = z[1] BY <1>3, <2>1 DEF Shape
  <2> QED BY <1>3, <2>1, <2>2
<1>13. g \in Injection(Firmer, Above(p, i))
  <2> HIDE DEF Whose, Firmer, p
  <2> QED BY <1>11, <1>12 DEF Injection, IsInjective
<1>14. Cardinality(Firmer) <= Cardinality(Above(p, i)) /\ IsFiniteSet(Firmer)
  <2> HIDE DEF g, Firmer, p
  <2> QED BY <1>10, <1>13, FS_Injection
<1>15. Cardinality(Firmer) \in Nat /\ Cardinality(Above(p, i)) \in Nat
  BY <1>10, <1>14, FS_CardinalityType
<1>16. ~(Cardinality(Firmer) < Limit) BY <1>5 DEF Remote
<1> HIDE DEF Firmer
<1> QED BY <1>14, <1>15, <1>16, FederationAssumption

(* Merge keeps the local hits in front, and each delivered hit is shown or *)
(* left out by the limit.                                                  *)
LEMMA MergeShowsBest ==
    ASSUME TypeOK, Shape, Merge
    PROVE  BestHits'
<1>1. PICK q \in Fresh : results' = results \o [i \in DOMAIN q |-> HitAt(q[i])]
  BY DEF Merge, Merged
<1> DEFINE r == [i \in DOMAIN q |-> HitAt(q[i])]
<1>2. results' = results \o r BY <1>1
<1>3. /\ DOMAIN q = 1..Len(q) /\ Len(q) \in Nat
      /\ \A i \in DOMAIN q : HitAt(q[i]).url \notin Urls(results)
      /\ \A x \in Remote :
            HitAt(x).url \notin Urls(results) => \E i \in DOMAIN q : q[i] = x
      /\ r \in Seq(Hit)
  BY FreshAre
<1>4. results \in Seq(Hit) /\ local = results /\ page = 1
  BY DEF TypeOK, Shape, Merge, Merging
<1>5. /\ local' = local /\ page' = page /\ task' = task
      /\ phase = "merging"
  BY DEF Merge, Merging
<1>6. Len(r) = Len(q) /\ Len(results) \in Nat /\ DOMAIN r = DOMAIN q
  BY <1>3, <1>4, LenProperties
<1>7. /\ \A i \in DOMAIN q : r[i] = HitAt(q[i])
  OBVIOUS
<1> HIDE DEF r
<1>8. /\ results' \in Seq(Hit) /\ Len(results') = Len(results) + Len(q)
      /\ \A i \in 1..Len(results) + Len(q) :
            results'[i] = IF i <= Len(results) THEN results[i] ELSE r[i - Len(results)]
  BY <1>2, <1>3, <1>4, <1>6, ConcatProperties
<1>9. DOMAIN results' = 1..Len(results) + Len(q) /\ DOMAIN results = 1..Len(results)
  BY <1>4, <1>8, LenProperties
<1>10. \A i \in DOMAIN results : results'[i] = results[i] /\ i \in DOMAIN results'
  BY <1>3, <1>6, <1>8, <1>9
<1>11. ASSUME NEW i \in DOMAIN q
       PROVE  /\ Len(results) + i \in DOMAIN results'
              /\ results'[Len(results) + i] = HitAt(q[i])
  <2>1. Len(results) + i \in 1..Len(results) + Len(q) BY <1>3, <1>6
  <2>2. ~(Len(results) + i <= Len(results)) /\ Len(results) + i - Len(results) = i
    BY <1>3, <1>6
  <2>3. results'[Len(results) + i] = r[Len(results) + i - Len(results)]
    BY <1>8, <2>1, <2>2
  <2> QED BY <1>7, <1>9, <2>1, <2>2, <2>3
<1>12. \A i \in DOMAIN results' : i > Len(results) => \E j \in DOMAIN q : i = Len(results) + j
  <2> SUFFICES ASSUME NEW i \in DOMAIN results', i > Len(results)
               PROVE  \E j \in DOMAIN q : i = Len(results) + j
    OBVIOUS
  <2>1. i - Len(results) \in DOMAIN q /\ i = Len(results) + (i - Len(results))
    BY <1>3, <1>6, <1>9
  <2> QED BY <2>1
<1>13. LocalFirst'
  <2>1. IsPrefix(local', results')
    BY <1>4, <1>5, <1>8, <1>9, <1>10 DEF IsPrefix
  <2>2. ~(page' > 1) BY <1>4, <1>5
  <2>3. \A i \in DOMAIN results' :
           i > Len(local') => results'[i].url \notin Urls(local')
    BY <1>3, <1>4, <1>5, <1>11, <1>12
  <2> QED BY <2>1, <2>2, <2>3 DEF LocalFirst
<1>14. Urls(results) \subseteq Urls(results') BY <1>10 DEF Urls
<1>15. ASSUME NEW p \in Peers, NEW i \in DOMAIN PeerHits[p], task[p] = "hits"
       PROVE  \/ PeerHits[p][i].url \in Urls(results')
              \/ Cardinality(Above(p, i)) >= Limit
  <2>1. PICK k \in DOMAIN asked : asked[k] = p BY <1>15 DEF Shape
  <2>2. CASE <<k, i>> \notin Remote BY <1>15, <2>1, <2>2, LeftOut
  <2>3. CASE <<k, i>> \in Remote
    <3>1. HitAt(<<k, i>>) = PeerHits[p][i] BY <2>1 DEF HitAt
    <3>2. CASE PeerHits[p][i].url \in Urls(results) BY <1>14, <3>2
    <3>3. CASE PeerHits[p][i].url \notin Urls(results)
      <4>1. PICK j \in DOMAIN q : q[j] = <<k, i>> BY <1>3, <2>3, <3>1, <3>3
      <4> QED BY <1>11, <3>1, <4>1 DEF Urls
    <3> QED BY <3>2, <3>3
  <2> QED BY <2>2, <2>3
<1>16. \A p, i : Above(p, i)' = Above(p, i) BY <1>5 DEF Above
<1> QED BY <1>5, <1>13, <1>15, <1>16 DEF BestHits

LEMMA NextBest == TypeOK /\ Shape /\ BestHits /\ [Next]_vars => BestHits'
<1> SUFFICES ASSUME TypeOK, Shape, BestHits, [Next]_vars, phase' = "answered"
             PROVE  BestHits'
  BY DEF BestHits
<1>1. CASE Search
  <2>1. local' \in Seq(Hit) /\ Len(local') \in Nat /\ DOMAIN local' = 1..Len(local')
    <3>1. local' \in Seq(Hit) BY <1>1, ByScoreIs DEF Search
    <3> QED BY <3>1, LenProperties
  <2>2. results' = local' /\ \A p \in Peers : task'[p] # "hits"
    BY <1>1 DEF Search, Shape
  <2>3. LocalFirst' BY <2>1, <2>2 DEF LocalFirst, IsPrefix
  <2> QED BY <2>2, <2>3 DEF BestHits
<1>2. CASE Merge BY <1>2, MergeShowsBest
<1>3. CASE ChangeIndex
  BY <1>3 DEF ChangeIndex, BestHits, LocalFirst, Above
<1>4. CASE UNCHANGED vars BY <1>4 DEF vars, BestHits, LocalFirst, Above
<1>5. CASE AskPeers BY <1>5 DEF AskPeers
<1>6. CASE AllIn BY <1>6 DEF AllIn
<1>7. CASE Expire BY <1>7 DEF Expire
<1>8. CASE Tick BY <1>8 DEF Tick
<1>9. CASE NextPage \/ PrevPage BY <1>9 DEF NextPage, PrevPage, TurnTo
<1>10. CASE MergeFails BY <1>10 DEF MergeFails
<1>11. ASSUME NEW p \in Peers, PeerEnds(p) \/ TogglePeer(p) PROVE FALSE
  BY <1>11 DEF PeerEnds, TogglePeer
<1> QED
  BY <1>1, <1>2, <1>3, <1>4, <1>5, <1>6, <1>7, <1>8, <1>9, <1>10, <1>11
  DEF Next, SearchStep, Over

(* Whatever answers arrive, in whatever order: the local hits come first   *)
(* in the list that the endpoints build, no hit of a peer repeats one, and *)
(* a delivered hit is shown unless Limit delivered ones score no less.     *)
THEOREM BestAreShown == Spec => []BestHits
<1>1. Init => BestHits BY DEF Init, BestHits
<1>2. TypeOK /\ Shape /\ BestHits /\ [Next]_vars => BestHits' BY NextBest
<1> QED BY <1>1, <1>2, FederationTypes, PTL DEF Spec

=============================================================================
