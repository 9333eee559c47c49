--------------------------- MODULE ScopingProofs ----------------------------
(***************************************************************************)
(* Proofs about Scoping for any pages, anchors, seeds and list of public   *)
(* suffixes.                                                               *)
(***************************************************************************)
EXTENDS Scoping, TLAPS, SequenceTheorems, WellFoundedInduction, NaturalsInduction

-----------------------------------------------------------------------------
(* Lemmas about sequences.                                                 *)

LEMMA SuffixIs ==
    ASSUME NEW S, NEW s \in Seq(S), NEW t \in Seq(S)
    PROVE  IsSuffix(s, t) <=>
              /\ Len(s) <= Len(t)
              /\ \A i \in 1..Len(s) : s[i] = t[Len(t) - Len(s) + i]
<1> DEFINE m == Len(s)
           n == Len(t)
           r == Reverse(s)
           w == Reverse(t)
<1>1. m \in Nat /\ n \in Nat BY LenProperties
<1>2. (\A i \in 1..m : s[i] \in S) /\ \A i \in 1..n : t[i] \in S BY ElementOfSeq
<1>3. r = [i \in 1..m |-> s[m - i + 1]] /\ w = [i \in 1..n |-> t[n - i + 1]]
  BY DEF Reverse
<1> HIDE DEF m, n, r, w
<1>4. \A i \in 1..m : m - i + 1 \in 1..m BY <1>1
<1>5. \A i \in 1..n : n - i + 1 \in 1..n BY <1>1
<1>6. r \in [1..m -> S] /\ w \in [1..n -> S]
  BY <1>2, <1>3, <1>4, <1>5 DEF m, n
<1>7. r \in Seq(S) /\ w \in Seq(S) /\ Len(r) = m /\ Len(w) = n
  BY <1>1, <1>6, SeqDef, LenProperties
<1>8. IsPrefix(r, w) <=> m <= n /\ \A i \in 1..m : r[i] = w[i]
  <2>1. CASE ~(m <= n) BY <1>7, <2>1 DEF IsPrefix
  <2>2. CASE m <= n
    <3>1. \A i \in 1..m : r[i] \in S /\ w[i] \in S BY <1>1, <1>6, <2>2
    <3> DEFINE a == SubSeq(r, 1, m)
               b == SubSeq(w, 1, m)
    <3>2. a = [i \in 1..m |-> r[i]]
      BY <1>1, <1>7, <3>1 DEF a
    <3>3. b = [i \in 1..m |-> w[i]]
      BY <1>1, <1>7, <3>1 DEF b
    <3>4. IsPrefix(r, w) <=> a = b BY <1>7, <2>2 DEF IsPrefix
    <3> HIDE DEF a, b
    <3>5. a = b <=> \A i \in 1..m : r[i] = w[i] BY <3>2, <3>3
    <3> QED BY <2>2, <3>4, <3>5
  <2> QED BY <2>1, <2>2
<1>9. ASSUME m <= n
      PROVE  (\A i \in 1..m : r[i] = w[i]) <=> \A i \in 1..m : s[i] = t[n - m + i]
  <2>1. ASSUME \A i \in 1..m : r[i] = w[i], NEW i \in 1..m
        PROVE  s[i] = t[n - m + i]
    <3> DEFINE j == m - i + 1
    <3>1. j \in 1..m /\ j \in 1..n /\ m - j + 1 = i /\ n - j + 1 = n - m + i
      BY <1>1, <1>9
    <3> HIDE DEF j
    <3>2. r[j] = s[m - j + 1] /\ w[j] = t[n - j + 1] BY <1>3, <3>1
    <3> QED BY <2>1, <3>1, <3>2
  <2>2. ASSUME \A i \in 1..m : s[i] = t[n - m + i], NEW i \in 1..m
        PROVE  r[i] = w[i]
    <3> DEFINE j == m - i + 1
    <3>1. j \in 1..m /\ i \in 1..n /\ n - i + 1 = n - m + j BY <1>1, <1>9
    <3> HIDE DEF j
    <3>2. r[i] = s[j] /\ w[i] = t[n - m + j] BY <1>3, <3>1 DEF j
    <3> QED BY <2>2, <3>1, <3>2
  <2> QED BY <2>1, <2>2
<1>10. IsSuffix(s, t) <=> IsPrefix(r, w) BY DEF IsSuffix, r, w
<1> QED BY <1>8, <1>9, <1>10 DEF m, n

LEMMA PrefixIs ==
    ASSUME NEW S, NEW s \in Seq(S), NEW t \in Seq(S)
    PROVE  IsPrefix(s, t) <=> Len(s) <= Len(t) /\ \A i \in 1..Len(s) : s[i] = t[i]
<1> DEFINE m == Len(s)
           n == Len(t)
<1>1. m \in Nat /\ n \in Nat BY LenProperties
<1>2. (\A i \in 1..m : s[i] \in S) /\ \A i \in 1..n : t[i] \in S BY ElementOfSeq
<1> HIDE DEF m, n
<1>3. CASE ~(m <= n) BY <1>3 DEF IsPrefix, m, n
<1>4. CASE m <= n
  <2> DEFINE a == SubSeq(s, 1, m)
             b == SubSeq(t, 1, m)
  <2>1. \A i \in 1..m : t[i] \in S BY <1>1, <1>2, <1>4
  <2>2. a = [i \in 1..m |-> s[i]] BY <1>1, <1>2 DEF a
  <2>3. b = [i \in 1..m |-> t[i]] BY <1>1, <2>1 DEF b
  <2>4. IsPrefix(s, t) <=> a = b BY <1>4 DEF IsPrefix, m, n
  <2> HIDE DEF a, b
  <2>5. a = b <=> \A i \in 1..m : s[i] = t[i] BY <2>2, <2>3
  <2> QED BY <1>4, <2>4, <2>5 DEF m, n
<1> QED BY <1>3, <1>4

LEMMA LeastIs ==
    ASSUME NEW S \in SUBSET Nat, S # {}
    PROVE  \E m \in S : \A n \in S : m <= n
<1>1. OpToRel(<, Nat) = {ss \in Nat \X Nat : ss[1] < ss[2]} BY DEF OpToRel
<1>2. PICK m \in S : \A n \in S : <<n, m>> \notin OpToRel(<, Nat)
  BY NatLessThanWellFounded, WFMin
<1>3. ASSUME NEW n \in S PROVE m <= n
  <2>1. n \in Nat /\ m \in Nat OBVIOUS
  <2>2. <<n, m>> \notin {ss \in Nat \X Nat : ss[1] < ss[2]} BY <1>1, <1>2, Zenon
  <2> QED BY <2>1, <2>2
<1> QED BY <1>3

(* A nonempty set of sequences of bounded length has a longest one.        *)
LEMMA LongestIs ==
    ASSUME NEW A, NEW n \in Nat, NEW S, S # {},
           \A s \in S : s \in Seq(A) /\ Len(s) <= n
    PROVE  Longest(S) \in S /\ \A s \in S : Len(s) <= Len(Longest(S))
<1> DEFINE D == {n - Len(s) : s \in S}
<1>1. \A s \in S : Len(s) \in Nat /\ n - Len(s) \in Nat BY LenProperties
<1>2. D \subseteq Nat /\ D # {} BY <1>1
<1>3. PICK d \in D : \A e \in D : d <= e
  <2> HIDE DEF D
  <2> QED BY <1>2, LeastIs
<1>4. PICK s \in S : d = n - Len(s) OBVIOUS
<1>5. \A o \in S : Len(o) <= Len(s)
  <2> SUFFICES ASSUME NEW o \in S PROVE Len(o) <= Len(s) OBVIOUS
  <2>1. d <= n - Len(o) BY <1>3
  <2> QED BY <1>1, <1>4, <2>1
<1> QED BY <1>5 DEF Longest

LEMMA FirstOfIs ==
    ASSUME NEW S \in SUBSET Nat, S # {}
    PROVE  FirstOf(S) \in S
BY LeastIs DEF FirstOf

-----------------------------------------------------------------------------
(* Lemmas about URLs.                                                      *)

LEMMA PathIs ==
    ASSUME NEW p
    PROVE  p \in Path <=> p \in Seq(Segments) /\ (p # <<>> => p[1] \in Slashed)
<1>1. p # <<>> /\ p \in Seq(Segments) => Head(p) = p[1] BY HeadTailProperties
<1> QED BY <1>1 DEF Path

(* What an anchor refers to is a URL.                                      *)
LEMMA JoinIs ==
    ASSUME NEW base \in Pages, NEW ref \in Hrefs
    PROVE  Join(base, ref) \in Url
<1>1. base \in Url /\ ref \in Url /\ base.path # <<>> BY ScopingAssumption
<1>2. /\ base.path \in Seq(Segments) /\ base.path[1] \in Slashed
      /\ ref.path \in Seq(Segments) /\ (ref.path # <<>> => ref.path[1] \in Slashed)
  BY <1>1, PathIs DEF Url
<1> DEFINE f == Front(base.path)
           j == f \o ref.path
<1>3. /\ f \in Seq(Segments) /\ (f # <<>> => f[1] \in Slashed)
      /\ Len(f) \in Nat
  <2> DEFINE b == base.path
             n == Len(b)
  <2>1. n \in Nat \ {0} /\ \A i \in 1..n : b[i] \in Segments
    BY <1>1, <1>2, ElementOfSeq, EmptySeq
  <2> HIDE DEF b, n
  <2>2. \A i \in 1..n - 1 : b[i] \in Segments BY <2>1
  <2>3. n - 1 \in Nat /\ n - 1 - 1 + 1 = n - 1 BY <2>1
  <2>4. f = [i \in 1..n - 1 |-> b[i]] BY <2>2, <2>3 DEF f, Front, b, n
  <2>5. f \in [1..n - 1 -> Segments] BY <2>2, <2>4
  <2>6. f \in Seq(Segments) /\ Len(f) = n - 1 BY <2>3, <2>5, SeqDef, LenProperties
  <2>7. f # <<>> => 1 \in 1..n - 1 BY <2>3, <2>6, EmptySeq
  <2> QED BY <1>2, <2>3, <2>4, <2>6, <2>7 DEF b
<1>4. j \in Path
  <2> HIDE DEF f
  <2>1. j \in Seq(Segments) BY <1>2, <1>3, ConcatProperties
  <2>2. CASE f = <<>>
    <3>1. j = ref.path BY <1>2, <2>2, ConcatEmptySeq
    <3> QED BY <1>1, <3>1 DEF Url
  <2>3. CASE f # <<>>
    <3>1. Len(f) >= 1 BY <1>3, <2>3, EmptySeq
    <3>2. j[1] = f[1] BY <1>2, <1>3, <3>1, ConcatProperties
    <3> QED BY <1>3, <2>1, <2>3, <3>2, PathIs
  <2> QED BY <2>2, <2>3
<1> HIDE DEF f, j
<1>5. CASE ref.scheme # "" BY <1>1, <1>5 DEF Join
<1>6. CASE ref.scheme = "" /\ ref.host # NoHost
  <2>1. Join(base, ref) = [ref EXCEPT !.scheme = base.scheme] BY <1>6 DEF Join
  <2> QED BY <1>1, <2>1 DEF Url
<1>7. CASE ref.scheme = "" /\ ref.host = NoHost
  <2> DEFINE q == IF ref.path = <<>> /\ ref.query = NoQuery THEN base.query ELSE ref.query
             p == IF ref.path = <<>> THEN base.path
                  ELSE IF ref.rooted THEN ref.path ELSE j
  <2>1. Join(base, ref) = [base EXCEPT !.frag = ref.frag, !.query = q, !.path = p]
    BY <1>7 DEF Join, j, f
  <2>2. q \in Queries \cup {NoQuery} BY <1>1 DEF Url
  <2>3. p \in Path
    <3>1. ref.path \in Path /\ base.path \in Path BY <1>1 DEF Url
    <3>2. CASE ref.path = <<>> BY <3>1, <3>2
    <3>3. CASE ref.path # <<>> /\ ref.rooted BY <3>1, <3>3
    <3>4. CASE ref.path # <<>> /\ ~ref.rooted BY <1>4, <3>4
    <3> QED BY <3>2, <3>3, <3>4
  <2> HIDE DEF q, p
  <2> QED BY <1>1, <2>1, <2>2, <2>3 DEF Url
<1> QED BY <1>5, <1>6, <1>7

LEMMA CanonicalPathIs ==
    ASSUME NEW p \in Path
    PROVE  CanonicalPath(p) \in Path /\ CanonicalPath(p) # <<>>
<1>1. <<"/">> \in Seq(Segments) /\ <<"/">> # <<>> BY TokenAssumption
<1>2. <<"/">>[1] = "/" OBVIOUS
<1>3. <<"/">> \in Path BY <1>1, <1>2, PathIs, TokenAssumption
<1> QED BY <1>1, <1>3 DEF CanonicalPath

(* The canonical form of a URL is one, and is its own canonical form.      *)
LEMMA CanonicalIs ==
    ASSUME NEW u \in Url
    PROVE  /\ Canonical(u) \in Url
           /\ Canonical(u).scheme = u.scheme /\ Canonical(u).host = u.host
           /\ Canonical(u).query = u.query
           /\ Canonical(u).port = CanonicalPort(u)
           /\ Canonical(u).path = CanonicalPath(u.path)
           /\ Canonical(u).path # <<>>
           /\ Canonical(Canonical(u)) = Canonical(u)
<1>1. CanonicalPath(u.path) \in Path /\ CanonicalPath(u.path) # <<>>
  BY CanonicalPathIs DEF Url
<1>2. CanonicalPort(u) \in Ports \cup {NoPort} BY DEF CanonicalPort, Url
<1> DEFINE c == Canonical(u)
<1>3. c = [u EXCEPT !.caps = FALSE, !.frag = FALSE, !.rooted = TRUE,
                    !.port = CanonicalPort(u), !.path = CanonicalPath(u.path)]
  BY DEF Canonical
<1>4. /\ c \in Url /\ c.scheme = u.scheme /\ c.host = u.host /\ c.query = u.query
      /\ c.port = CanonicalPort(u) /\ c.path = CanonicalPath(u.path)
      /\ c.caps = FALSE /\ c.frag = FALSE /\ c.rooted = TRUE
  BY <1>1, <1>2, <1>3 DEF Url
<1> HIDE DEF c
<1>5. CanonicalPort(c) = c.port
  BY <1>4 DEF CanonicalPort, DefaultPort, NoPort
<1>6. CanonicalPath(c.path) = c.path BY <1>1, <1>4 DEF CanonicalPath
<1>7. Canonical(c) = [c EXCEPT !.caps = FALSE, !.frag = FALSE, !.rooted = TRUE,
                               !.port = c.port, !.path = c.path]
  BY <1>5, <1>6 DEF Canonical
<1>8. Canonical(c) = c BY <1>4, <1>7 DEF Url
<1> QED BY <1>1, <1>4, <1>8 DEF c

(* Two URLs are of one resource if and only if their canonical forms agree.*)
LEMMA SameIs ==
    ASSUME NEW u \in Url, NEW v \in Url
    PROVE  Same(u, v) <=> Canonical(u) = Canonical(v)
<1>1. EffectivePort(u) = EffectivePort(v) /\ u.scheme = v.scheme
         <=> CanonicalPort(u) = CanonicalPort(v) /\ u.scheme = v.scheme
  BY DEF EffectivePort, CanonicalPort, DefaultPort, NoPort
<1>2. u.path = v.path \/ {u.path, v.path} = {<<>>, <<"/">>}
         <=> CanonicalPath(u.path) = CanonicalPath(v.path)
  <2>1. {u.path, v.path} = {<<>>, <<"/">>}
           <=> \/ u.path = <<>> /\ v.path = <<"/">>
               \/ u.path = <<"/">> /\ v.path = <<>>
    OBVIOUS
  <2> QED BY <2>1 DEF CanonicalPath
<1> DEFINE c == Canonical(u)
           d == Canonical(v)
<1>3. c = d <=> /\ u.scheme = v.scheme /\ u.host = v.host /\ u.query = v.query
                /\ CanonicalPort(u) = CanonicalPort(v)
                /\ CanonicalPath(u.path) = CanonicalPath(v.path)
  <2>1. c.scheme = u.scheme /\ c.host = u.host /\ c.query = u.query
        /\ c.port = CanonicalPort(u) /\ c.path = CanonicalPath(u.path)
    BY CanonicalIs
  <2>2. d.scheme = v.scheme /\ d.host = v.host /\ d.query = v.query
        /\ d.port = CanonicalPort(v) /\ d.path = CanonicalPath(v.path)
    BY CanonicalIs
  <2>3. ASSUME /\ u.scheme = v.scheme /\ u.host = v.host /\ u.query = v.query
               /\ CanonicalPort(u) = CanonicalPort(v)
               /\ CanonicalPath(u.path) = CanonicalPath(v.path)
        PROVE  c = d
    BY <2>3 DEF Canonical, Url
  <2> QED BY <2>1, <2>2, <2>3
<1> QED BY <1>1, <1>2, <1>3 DEF Same, SameOrigin

LEMMA NormalizeIs ==
    ASSUME NEW u \in Url
    PROVE  /\ Normalize(u) # NoUrl => Normalize(u) = Canonical(u)
           /\ Normalize(u) # NoUrl <=>
                 u.scheme \in Web /\ ~NoNetloc(u) /\ ~IsAsset(u.path)
           /\ Normalize(u) # NoUrl =>
                 (Normalize(Canonical(u)) # NoUrl <=> ~NoNetloc(Canonical(u)))
<1>1. Canonical(u) \in Url /\ Canonical(u) # NoUrl
  BY CanonicalIs, ScopingAssumption
<1>2. ~IsAsset(u.path) => ~IsAsset(CanonicalPath(u.path))
  <2>1. Last(<<"/">>) = "/" BY DEF Last
  <2> QED BY <2>1 DEF IsAsset, CanonicalPath
<1>3. Canonical(u).scheme = u.scheme /\ Canonical(u).path = CanonicalPath(u.path)
  BY CanonicalIs
<1>4. Normalize(u) # NoUrl <=> u.scheme \in Web /\ ~NoNetloc(u) /\ ~IsAsset(u.path)
  BY <1>1 DEF Normalize
<1>5. Normalize(u) # NoUrl => Normalize(u) = Canonical(u) BY DEF Normalize
<1>6. Canonical(Canonical(u)) # NoUrl BY <1>1, CanonicalIs
<1> QED BY <1>2, <1>3, <1>4, <1>5, <1>6 DEF Normalize

-----------------------------------------------------------------------------
(* Lemmas about domains.                                                   *)

(* Of a host that has a public suffix, registrable_domain keeps the        *)
(* longest one and the label before it.                                    *)
LEMMA RegistrableIs ==
    ASSUME NEW h \in Seq(Labels)
    PROVE  LET r == Registrable(h)
           IN  /\ ~HasSuffix(h) => r = h
               /\ HasSuffix(h) =>
                     /\ r \in Seq(Labels) /\ Len(r) \in 2..Len(h)
                     /\ r = SubSeq(h, Len(h) - Len(r) + 1, Len(h))
                     /\ r \notin SuffixList /\ Tail(r) \in SuffixList
                     /\ IsSuffix(Tail(r), r) /\ IsSuffix(r, h)
                     /\ \A s \in SuffixList : IsSuffix(s, h) => Len(s) <= Len(r) - 1
<1> DEFINE found == {s \in SuffixList : IsSuffix(s, h)}
           n == Len(h)
           l == Longest(found)
           m == Len(l)
           r == SubSeq(h, n - m, n)
<1>1. n \in Nat /\ \A i \in 1..n : h[i] \in Labels BY ElementOfSeq, LenProperties
<1>2. \A s \in found : s \in Seq(Labels) /\ Len(s) <= n
  <2> SUFFICES ASSUME NEW s \in found PROVE s \in Seq(Labels) /\ Len(s) <= n
    OBVIOUS
  <2>1. s \in Seq(Labels) BY ScopingAssumption
  <2> QED BY <2>1, SuffixIs
<1>3. HasSuffix(h) <=> ~(found = {} \/ h \in found)
  <2>1. h \in SuffixList => IsSuffix(h, h)
    <3>1. \A i \in 1..n : h[i] = h[n - n + i] BY <1>1
    <3> QED BY <1>1, <3>1, SuffixIs
  <2> QED BY <2>1 DEF HasSuffix
<1>4. ~HasSuffix(h) => Registrable(h) = h BY <1>3 DEF Registrable
<1>5. ASSUME HasSuffix(h)
      PROVE  /\ Registrable(h) = r
             /\ r \in Seq(Labels) /\ Len(r) \in 2..n
             /\ r = SubSeq(h, n - Len(r) + 1, n)
             /\ r \notin SuffixList /\ Tail(r) \in SuffixList
             /\ IsSuffix(Tail(r), r) /\ IsSuffix(r, h)
             /\ \A s \in SuffixList : IsSuffix(s, h) => Len(s) <= Len(r) - 1
  <2>1. Registrable(h) = r BY <1>3, <1>5 DEF Registrable
  <2>2. l \in found /\ \A s \in found : Len(s) <= m
    <3> HIDE DEF found
    <3> QED BY <1>1, <1>2, <1>3, <1>5, LongestIs
  <2>3. l \in Seq(Labels) /\ l \in SuffixList /\ IsSuffix(l, h) /\ l # h
    BY <1>2, <1>3, <1>5, <2>2
  <2>4. m \in Nat /\ m # 0
    BY <2>3, LenProperties, EmptySeq, ScopingAssumption DEF NoHost
  <2> HIDE DEF l, m, found
  <2>5. m <= n /\ \A i \in 1..m : l[i] = h[n - m + i] BY <2>3, SuffixIs DEF m
  <2>6. m < n
    <3> SUFFICES ASSUME m = n PROVE FALSE BY <1>1, <2>4, <2>5
    <3>1. \A i \in 1..n : l[i] = h[i] BY <1>1, <2>5
    <3>2. Len(l) = Len(h) /\ \A i \in 1..Len(l) : l[i] = h[i] BY <3>1 DEF m
    <3> QED BY <2>3, <3>2, SeqEqual
  <2>7. /\ n - m \in 1..n /\ n - (n - m) + 1 = m + 1 BY <1>1, <2>4, <2>6
  <2>8. /\ r \in Seq(Labels) /\ Len(r) = m + 1
        /\ \A i \in 1..m + 1 : r[i] = h[n - m + i - 1]
    <3>1. n - m \in Int /\ n \in Int /\ n - m <= n BY <1>1, <2>4, <2>6
    <3>2. \A i \in n - m..n : h[i] \in Labels BY <1>1, <2>7
    <3> DEFINE k == n - m
    <3>3. /\ r \in Seq(Labels) /\ Len(r) = IF k <= n THEN n - k + 1 ELSE 0
          /\ \A i \in 1..n - k + 1 : r[i] = h[k + i - 1]
      <4> HIDE DEF k, n
      <4> QED BY <3>1, <3>2, SubSeqProperties DEF k
    <3> QED BY <2>7, <3>1, <3>3
  <2> HIDE DEF r
  <2>9. Len(r) \in 2..n /\ n - Len(r) + 1 = n - m BY <1>1, <2>4, <2>6, <2>8
  <2>10. r = SubSeq(h, n - Len(r) + 1, n) BY <2>9 DEF r
  <2>11. IsSuffix(r, h)
    <3>1. \A i \in 1..Len(r) : n - m + i - 1 = n - Len(r) + i
      BY <1>1, <2>4, <2>8
    <3>2. \A i \in 1..Len(r) : r[i] = h[n - Len(r) + i] BY <2>8, <3>1
    <3> QED BY <2>8, <2>9, <3>2, SuffixIs
  <2>12. Tail(r) = l
    <3>1. r # <<>> BY <2>8, <2>9, EmptySeq
    <3>2. /\ Tail(r) \in Seq(Labels) /\ Len(Tail(r)) = m
          /\ \A i \in 1..m : Tail(r)[i] = r[i + 1]
      BY <2>4, <2>8, <3>1, HeadTailProperties
    <3>3. \A i \in 1..m : Tail(r)[i] = l[i]
      <4> SUFFICES ASSUME NEW i \in 1..m PROVE Tail(r)[i] = l[i] OBVIOUS
      <4>1. i + 1 \in 1..m + 1 /\ n - m + (i + 1) - 1 = n - m + i BY <1>1, <2>4
      <4>2. r[i + 1] = h[n - m + (i + 1) - 1] BY <2>8, <4>1
      <4> QED BY <2>5, <3>2, <4>1, <4>2
    <3>4. \A i \in 1..Len(l) : Tail(r)[i] = l[i] BY <3>3 DEF m
    <3> QED BY <2>3, <3>2, <3>4, SeqEqual DEF m
  <2>13. IsSuffix(Tail(r), r)
    <3>1. \A i \in 1..m : Tail(r)[i] = r[i + 1]
      BY <2>4, <2>8, <2>9, HeadTailProperties, EmptySeq
    <3>2. \A i \in 1..m : Len(r) - m + i = i + 1 BY <2>4, <2>8
    <3>3. \A i \in 1..m : l[i] = r[Len(r) - m + i] BY <2>12, <3>1, <3>2
    <3>4. m <= Len(r) BY <2>4, <2>8
    <3>5. Len(l) <= Len(r) /\ \A i \in 1..Len(l) : l[i] = r[Len(r) - Len(l) + i]
      BY <3>3, <3>4 DEF m
    <3> QED BY <2>3, <2>8, <2>12, <3>5, SuffixIs
  <2>14. \A s \in SuffixList : IsSuffix(s, h) => Len(s) <= m BY <2>2 DEF found
  <2>15. r \notin SuffixList
    <3> SUFFICES ASSUME r \in SuffixList PROVE FALSE OBVIOUS
    <3> QED BY <2>4, <2>8, <2>11, <2>14
  <2>16. Len(r) - 1 = m BY <2>4, <2>8
  <2> QED
    BY <2>1, <2>3, <2>8, <2>9, <2>10, <2>11, <2>12, <2>13, <2>14, <2>15, <2>16
<1> HIDE DEF r
<1> QED BY <1>4, <1>5

LEMMA RegistrableType ==
    ASSUME NEW h \in Seq(Labels)
    PROVE  /\ Registrable(h) \in Seq(Labels)
           /\ h # NoHost => Registrable(h) # NoHost
<1>1. CASE ~HasSuffix(h) BY <1>1, RegistrableIs
<1>2. CASE HasSuffix(h)
  <2>1. Registrable(h) \in Seq(Labels) /\ Len(Registrable(h)) \in 2..Len(h)
    BY <1>2, RegistrableIs
  <2> QED BY <2>1, EmptySeq DEF NoHost
<1> QED BY <1>1, <1>2

(* The registrable domain of a registrable domain is itself.               *)
LEMMA RegistrableTwice ==
    ASSUME NEW h \in Seq(Labels)
    PROVE  Registrable(Registrable(h)) = Registrable(h)
<1>1. CASE ~HasSuffix(h) BY <1>1, RegistrableIs
<1>2. CASE HasSuffix(h)
  <2> DEFINE r == Registrable(h)
             q == Registrable(r)
  <2>1. /\ r \in Seq(Labels) /\ Len(r) \in 2..Len(h) /\ r \notin SuffixList
        /\ Tail(r) \in SuffixList /\ IsSuffix(Tail(r), r)
    BY <1>2, RegistrableIs
  <2>2. HasSuffix(r) BY <2>1 DEF HasSuffix
  <2> HIDE DEF r
  <2>3. /\ q \in Seq(Labels) /\ Len(q) \in 2..Len(r)
        /\ q = SubSeq(r, Len(r) - Len(q) + 1, Len(r))
        /\ \A s \in SuffixList : IsSuffix(s, r) => Len(s) <= Len(q) - 1
    BY <2>1, <2>2, RegistrableIs
  <2> HIDE DEF q
  <2>4. Len(Tail(r)) = Len(r) - 1 /\ Len(r) \in Nat
    <3>1. r # <<>> BY <2>1, EmptySeq
    <3> QED BY <2>1, <3>1, HeadTailProperties
  <2>5. Len(q) = Len(r) /\ Len(r) - Len(q) + 1 = 1
    <3>1. Len(Tail(r)) <= Len(q) - 1 BY <2>1, <2>3
    <3>2. Len(q) \in Nat BY <2>3, LenProperties
    <3> QED BY <2>3, <2>4, <3>1, <3>2
  <2>6. q = SubSeq(r, 1, Len(r)) BY <2>3, <2>5
  <2>7. SubSeq(r, 1, Len(r)) = r BY <2>1, SubSeqFull
  <2> QED BY <2>6, <2>7 DEF q, r
<1> QED BY <1>1, <1>2

(* Hosts with one registrable domain are of one site.                      *)
LEMMA OneSite ==
    ASSUME NEW h \in Seq(Labels), NEW g \in Seq(Labels),
           Registrable(h) = Registrable(g)
    PROVE  SameSite(h, g)
<1>1. CASE HasSuffix(h)
  <2> DEFINE r == Registrable(h)
             n == Len(r)
             site == SubSeq(h, Len(h) - n + 1, Len(h))
  <2>1. /\ r \in Seq(Labels) /\ n \in 2..Len(h) /\ r = site
        /\ r \notin SuffixList /\ Tail(r) \in SuffixList
        /\ IsSuffix(Tail(r), r)
    BY <1>1, RegistrableIs
  <2>2. IsSuffix(r, g)
    <3>1. CASE HasSuffix(g) BY <3>1, RegistrableIs
    <3>2. CASE ~HasSuffix(g)
      <4>1. r = g BY <3>2, RegistrableIs
      <4> QED BY <2>1, <3>2, <4>1 DEF HasSuffix
    <3> QED BY <3>1, <3>2
  <2> HIDE DEF r, n
  <2> QED BY <2>1, <2>2 DEF SameSite
<1>2. CASE ~HasSuffix(h)
  <2>1. Registrable(h) = h BY <1>2, RegistrableIs
  <2>2. CASE ~HasSuffix(g)
    <3>1. g = h BY <2>1, <2>2, RegistrableIs
    <3> QED BY <3>1 DEF SameSite
  <2>3. CASE HasSuffix(g)
    <3>1. h \notin SuffixList /\ Tail(h) \in SuffixList /\ IsSuffix(Tail(h), h)
      BY <2>1, <2>3, RegistrableIs
    <3> QED BY <1>2, <3>1 DEF HasSuffix
  <2> QED BY <2>2, <2>3
<1> QED BY <1>1, <1>2

-----------------------------------------------------------------------------
(* Lemmas about the texts of URLs.                                         *)

Token == Labels \cup Ports \cup Segments \cup Queries
Authority(u) == u.host \o Tokens(u.port)

LEMMA OneToken ==
    ASSUME NEW S, NEW s \in S
    PROVE  <<s>> \in Seq(S) /\ Len(<<s>>) = 1 /\ <<s>>[1] = s
OBVIOUS

LEMMA TokensAre ==
    ASSUME NEW S, NEW s, s # "" => s \in S
    PROVE  /\ Tokens(s) \in Seq(S)
           /\ s = "" => Len(Tokens(s)) = 0
           /\ s # "" => Len(Tokens(s)) = 1 /\ Tokens(s)[1] = s
<1>1. CASE s = ""
  <2>1. Tokens(s) = <<>> BY <1>1 DEF Tokens
  <2>2. <<>> \in Seq(S) /\ Len(<<>>) = 0 BY EmptySeq
  <2> QED BY <1>1, <2>1, <2>2, Zenon
<1>2. CASE s # ""
  <2>1. Tokens(s) = <<s>> BY <1>2 DEF Tokens
  <2>2. s \in S BY <1>2
  <2>3. <<s>> \in Seq(S) /\ Len(<<s>>) = 1 /\ <<s>>[1] = s BY <2>2, OneToken
  <2> QED BY <1>2, <2>1, <2>3, Zenon
<1> QED BY <1>1, <1>2

LEMMA AuthorityIs ==
    ASSUME NEW u \in Url
    PROVE  LET a == Authority(u)
           IN  /\ a \in Seq(Labels \cup Ports) /\ Len(a) \in Nat /\ Len(u.host) \in Nat
               /\ u.port = NoPort => Len(a) = Len(u.host)
               /\ u.port # NoPort => Len(a) = Len(u.host) + 1
               /\ \A i \in 1..Len(u.host) : a[i] = u.host[i] /\ a[i] \in Labels
               /\ u.port # NoPort => a[Len(u.host) + 1] = u.port /\ u.port \in Ports
<1> DEFINE S == Labels \cup Ports
           t == Tokens(u.port)
           h == u.host
<1>1. h \in Seq(Labels) /\ u.port \in Ports \cup {NoPort} BY DEF Url
<1>2. h \in Seq(S) BY <1>1, SeqMonotonic
<1>3. /\ t \in Seq(S) /\ (u.port = NoPort => Len(t) = 0)
      /\ u.port # NoPort => Len(t) = 1 /\ t[1] = u.port
  <2>1. u.port # "" => u.port \in S BY <1>1 DEF NoPort
  <2> QED BY <2>1, TokensAre DEF NoPort
<1>5. Len(h) \in Nat /\ Len(t) \in Nat BY <1>2, <1>3, LenProperties
<1>6. \A i \in 1..Len(h) : h[i] \in Labels BY <1>1, ElementOfSeq
<1> HIDE DEF t, h
<1>7. /\ h \o t \in Seq(S) /\ Len(h \o t) = Len(h) + Len(t)
      /\ \A i \in 1..Len(h) + Len(t) :
            (h \o t)[i] = IF i <= Len(h) THEN h[i] ELSE t[i - Len(h)]
  BY <1>2, <1>3, ConcatProperties
<1>8. \A i \in 1..Len(h) : (h \o t)[i] = h[i] BY <1>5, <1>7
<1>9. u.port # NoPort => (h \o t)[Len(h) + 1] = u.port
  <2> SUFFICES ASSUME u.port # NoPort PROVE (h \o t)[Len(h) + 1] = u.port OBVIOUS
  <2>1. Len(h) + 1 \in 1..Len(h) + Len(t) /\ ~(Len(h) + 1 <= Len(h))
        /\ Len(h) + 1 - Len(h) = 1
    BY <1>3, <1>5
  <2> QED BY <1>3, <1>7, <2>1
<1>10. h \o t = Authority(u) BY DEF Authority, h, t
<1>11. /\ u.port = NoPort => Len(h \o t) = Len(h)
       /\ u.port # NoPort => Len(h \o t) = Len(h) + 1
  BY <1>3, <1>5, <1>7
<1>12. \A i \in 1..Len(h) : (h \o t)[i] \in Labels BY <1>6, <1>8
<1>13. Len(h \o t) \in Nat BY <1>5, <1>7
<1> HIDE DEF S
<1> QED BY <1>1, <1>5, <1>7, <1>8, <1>9, <1>10, <1>11, <1>12, <1>13 DEF h, S

(* What follows the scheme: the host and the port, the path, the query.    *)
LEMMA RestIs ==
    ASSUME NEW u \in Url
    PROVE  LET a == Authority(u)
               n == Len(a)
               m == Len(u.path)
               r == Rest(u)
           IN  /\ r \in Seq(Token) /\ m \in Nat
               /\ u.query = NoQuery => Len(r) = n + m
               /\ u.query # NoQuery => Len(r) = n + m + 1
               /\ \A i \in 1..n : r[i] = a[i] /\ r[i] \in Labels \cup Ports
               /\ \A i \in 1..m : r[n + i] = u.path[i] /\ r[n + i] \in Segments
               /\ u.query # NoQuery => r[n + m + 1] = u.query /\ u.query \in Queries
<1> DEFINE a == Authority(u)
           p == u.path
           q == Tokens(u.query)
           n == Len(a)
           m == Len(p)
           b == a \o p
           r == b \o q
<1>1. /\ p \in Seq(Segments) /\ u.query \in Queries \cup {NoQuery}
      /\ a \in Seq(Labels \cup Ports) /\ n \in Nat
  BY AuthorityIs, PathIs DEF Url
<1>2. a \in Seq(Token) /\ p \in Seq(Token) BY <1>1, SeqMonotonic DEF Token
<1>3. /\ q \in Seq(Token) /\ (u.query = NoQuery => Len(q) = 0)
      /\ u.query # NoQuery => Len(q) = 1 /\ q[1] = u.query
  <2>1. u.query # "" => u.query \in Token BY <1>1 DEF NoQuery, Token
  <2> QED BY <2>1, TokensAre DEF NoQuery
<1>5. /\ \A i \in 1..n : a[i] \in Labels \cup Ports
      /\ \A i \in 1..m : p[i] \in Segments
      /\ m \in Nat /\ Len(q) \in Nat
  BY <1>1, <1>3, ElementOfSeq, LenProperties
<1> HIDE DEF a, p, q
<1>6. /\ b \in Seq(Token) /\ Len(b) = n + m
      /\ \A i \in 1..n + m : b[i] = IF i <= n THEN a[i] ELSE p[i - n]
  BY <1>2, ConcatProperties
<1> HIDE DEF b, n, m
<1>7. /\ r \in Seq(Token) /\ Len(r) = n + m + Len(q)
      /\ \A i \in 1..n + m + Len(q) :
            r[i] = IF i <= n + m THEN b[i] ELSE q[i - (n + m)]
  <2>1. /\ r \in Seq(Token) /\ Len(r) = Len(b) + Len(q)
        /\ \A i \in 1..Len(b) + Len(q) :
              r[i] = IF i <= Len(b) THEN b[i] ELSE q[i - Len(b)]
    BY <1>3, <1>6, ConcatProperties
  <2> HIDE DEF r
  <2> QED BY <1>6, <2>1
<1> HIDE DEF r
<1>8. \A i \in 1..n : r[i] = a[i] BY <1>1, <1>5, <1>6, <1>7
<1>9. \A i \in 1..m : r[n + i] = p[i]
  <2> SUFFICES ASSUME NEW i \in 1..m PROVE r[n + i] = p[i] OBVIOUS
  <2> DEFINE j == n + i
  <2>1. /\ j \in 1..n + m /\ ~(j <= n) /\ j - n = i
        /\ j \in 1..n + m + Len(q) /\ j <= n + m
    BY <1>1, <1>5
  <2> HIDE DEF j
  <2>2. r[j] = b[j] BY <1>7, <2>1
  <2>3. b[j] = p[j - n] BY <1>6, <2>1
  <2> QED BY <2>1, <2>2, <2>3 DEF j
<1>10. u.query # NoQuery => r[n + m + 1] = u.query
  <2> SUFFICES ASSUME u.query # NoQuery PROVE r[n + m + 1] = u.query OBVIOUS
  <2>1. Len(q) = 1 /\ q[1] = u.query BY <1>3
  <2> DEFINE o == n + m
             j == o + 1
  <2>2. o \in Nat BY <1>1, <1>5
  <2>3. r[j] = IF j <= o THEN b[j] ELSE q[j - o]
    <3>1. j \in 1..n + m + Len(q) BY <2>1, <2>2
    <3> HIDE DEF j
    <3> QED BY <1>7, <3>1
  <2> HIDE DEF o
  <2>4. ~(j <= o) /\ j - o = 1 BY <2>2
  <2> QED BY <2>1, <2>3, <2>4 DEF o
<1>11. \A i \in 1..m : r[n + i] \in Segments BY <1>5, <1>9
<1>12. \A i \in 1..n : r[i] \in Labels \cup Ports BY <1>5, <1>8
<1>13. /\ u.query = NoQuery => Len(r) = n + m
       /\ u.query # NoQuery => Len(r) = n + m + 1
  BY <1>1, <1>3, <1>5, <1>7
<1>14. Rest(u) = r
  <2>1. u.host \o Tokens(u.port) = a BY DEF a, Authority
  <2> QED BY <2>1 DEF Rest, r, b, p, q
<1> QED
  BY <1>1, <1>5, <1>7, <1>8, <1>9, <1>10, <1>11, <1>12, <1>13, <1>14 DEF n, m, a, p

LEMMA TextIs ==
    ASSUME NEW u \in Url
    PROVE  /\ Text(u) \in Seq(STRING \cup Token) /\ Len(Text(u)) = Len(Rest(u)) + 1
           /\ Text(u)[1] = u.scheme
           /\ \A i \in 1..Len(Rest(u)) : Text(u)[i + 1] = Rest(u)[i]
<1> DEFINE s == <<u.scheme>>
           r == Rest(u)
<1>1. r \in Seq(Token) BY RestIs
<1>2. s \in Seq(STRING \cup Token) /\ Len(s) = 1 /\ s[1] = u.scheme BY DEF Url
<1>3. r \in Seq(STRING \cup Token) /\ Len(r) \in Nat
  BY <1>1, SeqMonotonic, LenProperties
<1> HIDE DEF s, r
<1>4. /\ s \o r \in Seq(STRING \cup Token) /\ Len(s \o r) = Len(s) + Len(r)
      /\ \A i \in 1..Len(s) + Len(r) :
            (s \o r)[i] = IF i <= Len(s) THEN s[i] ELSE r[i - Len(s)]
  BY <1>2, <1>3, ConcatProperties
<1>5. \A i \in 1..Len(r) : (s \o r)[i + 1] = r[i]
  <2> SUFFICES ASSUME NEW i \in 1..Len(r) PROVE (s \o r)[i + 1] = r[i] OBVIOUS
  <2>1. i + 1 \in 1..1 + Len(r) /\ ~(i + 1 <= 1) /\ i + 1 - 1 = i BY <1>3
  <2> QED BY <1>2, <1>4, <2>1
<1>6. (s \o r)[1] = u.scheme /\ Len(s \o r) = Len(r) + 1 BY <1>2, <1>3, <1>4
<1>7. Text(u) = s \o r BY DEF Text, s, r
<1> QED BY <1>4, <1>5, <1>6, <1>7 DEF r

(* As a host ends where the port or the path begins, a URL whose text      *)
(* starts with that of another has its scheme, host and port, and a path   *)
(* that goes on where the other one ends.                                  *)
LEMMA PrefixMeets ==
    ASSUME NEW c \in Url, NEW u \in Url, c.path # <<>>, u.path # <<>>,
           StartsWith(u, c)
    PROVE  /\ c.scheme = u.scheme /\ c.host = u.host /\ c.port = u.port
           /\ IsPrefix(c.path, u.path)
<1> DEFINE ac == Authority(c)
           au == Authority(u)
           n == Len(ac)
           k == Len(au)
           m == Len(c.path)
           l == Len(u.path)
           rc == Rest(c)
           ru == Rest(u)
<1>1. /\ c.path \in Seq(Segments) /\ u.path \in Seq(Segments)
      /\ c.path[1] \in Slashed /\ u.path[1] \in Slashed
  BY PathIs DEF Url
<1>2. m \in Nat /\ l \in Nat /\ m >= 1 /\ l >= 1
  BY <1>1, EmptySeq, LenProperties
<1>3. n \in Nat /\ k \in Nat BY AuthorityIs
<1>4. /\ c.query = NoQuery => Len(rc) = n + m
      /\ c.query # NoQuery => Len(rc) = n + m + 1
      /\ \A i \in 1..n : rc[i] = ac[i] /\ rc[i] \in Labels \cup Ports
      /\ \A i \in 1..m : rc[n + i] = c.path[i] /\ rc[n + i] \in Segments
  BY RestIs
<1>5. /\ u.query = NoQuery => Len(ru) = k + l
      /\ u.query # NoQuery => Len(ru) = k + l + 1
      /\ \A i \in 1..k : ru[i] = au[i] /\ ru[i] \in Labels \cup Ports
      /\ \A i \in 1..l : ru[k + i] = u.path[i] /\ ru[k + i] \in Segments
      /\ u.query # NoQuery => ru[k + l + 1] = u.query /\ u.query \in Queries
  BY RestIs
<1>6. /\ Len(rc) \in Nat /\ Len(ru) \in Nat
  <2> HIDE DEF rc, ru, n, k, m, l
  <2> QED BY <1>2, <1>3, <1>4, <1>5
<1>7. /\ c.scheme = u.scheme /\ Len(rc) <= Len(ru)
      /\ \A i \in 1..Len(rc) : rc[i] = ru[i]
  <2> HIDE DEF rc, ru
  <2>1. IsPrefix(Text(c), Text(u)) BY DEF StartsWith
  <2>2. /\ Len(Text(c)) <= Len(Text(u))
        /\ \A i \in 1..Len(Text(c)) : Text(c)[i] = Text(u)[i]
    BY <2>1, TextIs, PrefixIs
  <2>3. /\ Len(Text(c)) = Len(rc) + 1 /\ Len(Text(u)) = Len(ru) + 1
        /\ Text(c)[1] = c.scheme /\ Text(u)[1] = u.scheme
        /\ \A i \in 1..Len(rc) : Text(c)[i + 1] = rc[i]
        /\ \A i \in 1..Len(ru) : Text(u)[i + 1] = ru[i]
    BY TextIs DEF rc, ru
  <2>4. Len(rc) <= Len(ru) BY <1>6, <2>2, <2>3
  <2>5. c.scheme = u.scheme
    <3>1. 1 \in 1..Len(Text(c)) BY <1>6, <2>3
    <3> QED BY <2>2, <2>3, <3>1
  <2>6. ASSUME NEW i \in 1..Len(rc) PROVE rc[i] = ru[i]
    <3>1. i + 1 \in 1..Len(Text(c)) /\ i \in 1..Len(ru) BY <1>6, <2>3, <2>4
    <3> QED BY <2>2, <2>3, <3>1
  <2> QED BY <2>4, <2>5, <2>6
<1> HIDE DEF rc, ru, n, k, m, l, ac, au
<1>8. n = k
  <2>1. ASSUME n < k PROVE FALSE
    <3>1. n + 1 \in 1..k /\ n + 1 \in 1..Len(rc) /\ 1 \in 1..m
      BY <1>2, <1>3, <1>4, <1>6, <2>1
    <3>2. rc[n + 1] \in Slashed /\ ru[n + 1] \in Labels \cup Ports
      BY <1>1, <1>4, <1>5, <3>1
    <3> QED BY <1>7, <3>1, <3>2, TokenAssumption
  <2>2. ASSUME k < n PROVE FALSE
    <3>1. k + 1 \in 1..n /\ k + 1 \in 1..Len(rc) /\ 1 \in 1..l
      BY <1>2, <1>3, <1>4, <1>6, <2>2
    <3>2. ru[k + 1] \in Slashed /\ rc[k + 1] \in Labels \cup Ports
      BY <1>1, <1>4, <1>5, <3>1
    <3> QED BY <1>7, <3>1, <3>2, TokenAssumption
  <2> QED BY <1>3, <2>1, <2>2
<1>9. \A i \in 1..n : ac[i] = au[i]
  <2>1. \A i \in 1..n : i \in 1..Len(rc) BY <1>2, <1>3, <1>4, <1>6
  <2> QED BY <1>4, <1>5, <1>7, <1>8, <2>1
<1>10. c.host = u.host /\ c.port = u.port
  <2> DEFINE x == Len(c.host)
             y == Len(u.host)
  <2>1. /\ c.port = NoPort => n = x
        /\ c.port # NoPort => n = x + 1
        /\ x \in Nat
        /\ \A i \in 1..x : ac[i] = c.host[i] /\ ac[i] \in Labels
        /\ c.port # NoPort => ac[x + 1] = c.port /\ c.port \in Ports
    BY AuthorityIs DEF n, ac
  <2>2. /\ u.port = NoPort => k = y
        /\ u.port # NoPort => k = y + 1
        /\ y \in Nat
        /\ \A i \in 1..y : au[i] = u.host[i] /\ au[i] \in Labels
        /\ u.port # NoPort => au[y + 1] = u.port /\ u.port \in Ports
    BY AuthorityIs DEF k, au
  <2>3. c.host \in Seq(Labels) /\ u.host \in Seq(Labels) BY DEF Url
  <2> HIDE DEF x, y
  <2>4. c.port = NoPort <=> u.port = NoPort
    <3>1. ASSUME c.port = NoPort, u.port # NoPort PROVE FALSE
      <4>1. x = y + 1 /\ x \in 1..x /\ x \in 1..n BY <1>8, <2>1, <2>2, <3>1
      <4>2. ac[x] \in Labels /\ au[x] \in Ports BY <2>1, <2>2, <3>1, <4>1
      <4> QED BY <1>9, <4>1, <4>2, TokenAssumption
    <3>2. ASSUME c.port # NoPort, u.port = NoPort PROVE FALSE
      <4>1. y = x + 1 /\ y \in 1..y /\ y \in 1..n BY <1>8, <2>1, <2>2, <3>2
      <4>2. au[y] \in Labels /\ ac[y] \in Ports BY <2>1, <2>2, <3>2, <4>1
      <4> QED BY <1>9, <4>1, <4>2, TokenAssumption
    <3> QED BY <3>1, <3>2
  <2>5. x = y BY <1>8, <2>1, <2>2, <2>4
  <2>6. c.port = u.port
    <3>1. CASE c.port # NoPort
      <4>1. x + 1 \in 1..n BY <2>1, <3>1
      <4> QED BY <1>9, <2>1, <2>2, <2>4, <2>5, <3>1, <4>1
    <3> QED BY <2>4, <3>1
  <2>7. \A i \in 1..x : c.host[i] = u.host[i]
    <3>1. \A i \in 1..x : i \in 1..n BY <2>1
    <3> QED BY <1>9, <2>1, <2>2, <2>5, <3>1
  <2>8. c.host = u.host BY <2>3, <2>5, <2>7, SeqEqual DEF x, y
  <2> QED BY <2>6, <2>8
<1>11. m <= l
  <2> SUFFICES ASSUME l < m PROVE FALSE BY <1>2
  <2>1. l + 1 \in 1..m /\ k + l + 1 \in 1..Len(rc) /\ k + (l + 1) = k + l + 1
    BY <1>2, <1>3, <1>4, <1>6, <1>8
  <2>2. rc[k + (l + 1)] \in Segments BY <1>4, <1>8, <2>1
  <2>3. u.query # NoQuery BY <1>2, <1>3, <1>5, <1>6, <1>7, <2>1
  <2>4. ru[k + l + 1] \in Queries BY <1>5, <2>3
  <2> QED BY <1>7, <2>1, <2>2, <2>4, TokenAssumption
<1>12. \A i \in 1..m : c.path[i] = u.path[i]
  <2> SUFFICES ASSUME NEW i \in 1..m PROVE c.path[i] = u.path[i] OBVIOUS
  <2>1. n + i \in 1..Len(rc) /\ i \in 1..l BY <1>2, <1>3, <1>4, <1>6, <1>11
  <2> QED BY <1>4, <1>5, <1>7, <1>8, <2>1
<1>13. IsPrefix(c.path, u.path) BY <1>1, <1>11, <1>12, PrefixIs DEF m, l
<1> QED BY <1>7, <1>10, <1>13

(* What follows the scheme is a domain only if it is a host and no more.   *)
LEMMA RestIsHost ==
    ASSUME NEW u \in Url, Rest(u) \in Seq(Labels)
    PROVE  Rest(u) = u.host
<1> DEFINE a == Authority(u)
           n == Len(a)
           m == Len(u.path)
           r == Rest(u)
           h == u.host
<1>1. /\ u.query = NoQuery => Len(r) = n + m
      /\ u.query # NoQuery => Len(r) = n + m + 1
      /\ m \in Nat
      /\ \A i \in 1..n : r[i] = a[i]
      /\ \A i \in 1..m : r[n + i] = u.path[i]
      /\ u.query # NoQuery => r[n + m + 1] = u.query /\ u.query \in Queries
  BY RestIs
<1>2. /\ n \in Nat /\ Len(h) \in Nat
      /\ u.port = NoPort => n = Len(h)
      /\ u.port # NoPort => n = Len(h) + 1
      /\ \A i \in 1..Len(h) : a[i] = h[i]
      /\ u.port # NoPort => a[Len(h) + 1] = u.port /\ u.port \in Ports
  BY AuthorityIs
<1>3. h \in Seq(Labels) /\ (u.path # <<>> => u.path[1] \in Slashed)
      /\ u.path \in Seq(Segments)
  BY PathIs DEF Url
<1>4. \A i \in 1..Len(r) : r[i] \in Labels BY ElementOfSeq
<1>5. u.path # <<>> => m # 0 BY <1>3, EmptySeq
<1> HIDE DEF a, n, m, r, h
<1>6. m = 0
  <2> SUFFICES ASSUME m # 0 PROVE FALSE OBVIOUS
  <2>1. 1 \in 1..m /\ n + 1 \in 1..Len(r) BY <1>1, <1>2
  <2>2. u.path # <<>> BY <1>1, EmptySeq DEF m
  <2>3. r[n + 1] \in Slashed BY <1>1, <1>3, <2>1, <2>2
  <2> QED BY <1>4, <2>1, <2>3, TokenAssumption
<1>7. u.query = NoQuery
  <2> SUFFICES ASSUME u.query # NoQuery PROVE FALSE OBVIOUS
  <2>1. n + m + 1 \in 1..Len(r) BY <1>1, <1>2
  <2> QED BY <1>1, <1>4, <2>1, TokenAssumption
<1>8. u.port = NoPort
  <2> SUFFICES ASSUME u.port # NoPort PROVE FALSE OBVIOUS
  <2>1. Len(h) + 1 \in 1..n /\ Len(h) + 1 \in 1..Len(r) BY <1>1, <1>2
  <2>2. r[Len(h) + 1] \in Ports BY <1>1, <1>2, <2>1
  <2> QED BY <1>4, <2>1, <2>2, TokenAssumption
<1>9. Len(r) = Len(h) /\ \A i \in 1..Len(r) : r[i] = h[i]
  BY <1>1, <1>2, <1>6, <1>7, <1>8
<1>10. r \in Seq(Labels) BY DEF r
<1>11. r = h BY <1>3, <1>9, <1>10, SeqEqual
<1> QED BY <1>11 DEF r, h

LEMMA RestOfHost ==
    ASSUME NEW h \in Seq(Labels), NEW u, u.host = h, u.port = NoPort,
           u.path = <<>>, u.query = NoQuery
    PROVE  Rest(u) = h
<1>1. Tokens(NoPort) = <<>> /\ Tokens(NoQuery) = <<>> BY DEF Tokens, NoPort, NoQuery
<1>2. h \o <<>> = h BY ConcatEmptySeq
<1> QED BY <1>1, <1>2 DEF Rest

-----------------------------------------------------------------------------
(* What has been found, offered and proposed so far.                       *)

TypeInv ==
    /\ page \in Pages /\ seeds \in SeedLists
    /\ anchors \in Seq(Hrefs) /\ parsed \subseteq Hrefs
    /\ links \in Seq(Url) /\ tried \in Nat /\ tried <= Len(links)

(* The links are the canonical forms of what the parsed anchors refer to,  *)
(* each of them once.                                                      *)
LinkInv ==
    /\ \A i, j \in 1..Len(links) : links[i] = links[j] => i = j
    /\ \A i \in 1..Len(links) : \E ref \in parsed : Normalize(Join(page, ref)) = links[i]
    /\ \A ref \in parsed :
          Normalize(Join(page, ref)) # NoUrl =>
             \E i \in 1..Len(links) : links[i] = Normalize(Join(page, ref))

(* A link is offered to a seed that accepts it, and is if there is one.    *)
OfferInv ==
    /\ \A o \in offered : \E i \in 1..Len(links) : \E k \in Matching(links[i]) :
          o = [url |-> links[i], seed |-> seeds[k]]
    /\ \A i \in 1..tried : Matching(links[i]) # {} => \E o \in offered : o.url = links[i]
    /\ \A d \in proposed : \E i \in 1..Len(links) :
          Matching(links[i]) = {} /\ d = Registrable(links[i].host) /\ d # <<>>

IInv == TypeInv /\ LinkInv /\ OfferInv

LEMMA SeedIs ==
    ASSUME TypeInv, NEW k \in DOMAIN seeds
    PROVE  /\ seeds[k] \in Seed /\ seeds[k].url \in Url /\ seeds[k].url.host \in Seq(Labels)
           /\ seeds[k].mode \in {"domain", "prefix", "exact"} /\ seeds[k].bare \in BOOLEAN
           /\ SeedUrl(seeds[k]) # NoUrl => SeedUrl(seeds[k]) = Canonical(seeds[k].url)
<1>1. seeds \in Seq(Seed) BY ScopingAssumption DEF TypeInv
<1>2. seeds[k] \in Seed BY <1>1, LenProperties, ElementOfSeq
<1>3. seeds[k].url \in Url BY <1>2 DEF Seed
<1> QED BY <1>2, <1>3, NormalizeIs DEF Seed, Url, SeedUrl

(* The links are canonical, and so is what match_scope makes of them.      *)
LEMMA LinkIs ==
    ASSUME IInv, NEW i \in 1..Len(links)
    PROVE  /\ links[i] \in Url /\ Canonical(links[i]) = links[i]
           /\ links[i].path # <<>> /\ links[i].host \in Seq(Labels)
           /\ Normalize(links[i]) # NoUrl => Normalize(links[i]) = links[i]
           /\ links[i].host # NoHost => Normalize(links[i]) # NoUrl
<1>1. links[i] \in Url BY ElementOfSeq DEF IInv, TypeInv
<1>2. PICK ref \in parsed : Normalize(Join(page, ref)) = links[i]
  BY DEF IInv, LinkInv
<1>3. Join(page, ref) \in Url BY JoinIs DEF IInv, TypeInv
<1> DEFINE u == Join(page, ref)
<1> HIDE DEF u
<1>4. u \in Url /\ Normalize(u) = links[i] /\ Normalize(u) # NoUrl
  BY <1>1, <1>2, <1>3, ScopingAssumption DEF u
<1>5. links[i] = Canonical(u) BY <1>4, NormalizeIs
<1>6. Canonical(links[i]) = links[i] /\ links[i].path # <<>>
  BY <1>4, <1>5, CanonicalIs
<1>7. Normalize(links[i]) # NoUrl => Normalize(links[i]) = links[i]
  BY <1>1, <1>6, NormalizeIs
<1>8. links[i].host # NoHost => Normalize(links[i]) # NoUrl
  BY <1>4, <1>5, NormalizeIs DEF NoNetloc
<1> QED BY <1>1, <1>6, <1>7, <1>8 DEF Url

LEMMA MatchingIs ==
    ASSUME IInv, NEW i \in 1..Len(links)
    PROVE  /\ Matching(links[i]) \subseteq DOMAIN seeds
           /\ \A k \in Matching(links[i]) : Matches(Rule(seeds[k]), links[i])
           /\ Normalize(links[i]) # NoUrl => \A k \in DOMAIN seeds :
                 Matches(Rule(seeds[k]), links[i]) => k \in Matching(links[i])
BY LinkIs DEF Matching

LEMMA InitInv == Init => IInv
<1> SUFFICES ASSUME Init PROVE IInv OBVIOUS
<1>1. PICK n \in 0..MaxAnchors : anchors \in [1..n -> Hrefs] BY DEF Init
<1>2. n \in Nat BY ScopingAssumption
<1>3. anchors \in Seq(Hrefs) BY <1>1, <1>2, SeqDef
<1>4. links = <<>> /\ links \in Seq(Url) /\ Len(links) = 0 BY EmptySeq DEF Init
<1>5. TypeInv BY <1>3, <1>4 DEF Init, TypeInv
<1>6. LinkInv BY <1>4 DEF Init, LinkInv
<1>7. OfferInv BY <1>4 DEF Init, OfferInv
<1> QED BY <1>5, <1>6, <1>7 DEF IInv

LEMMA ParseKeeps ==
    ASSUME IInv, ParseAnchor
    PROVE  IInv'
<1> DEFINE ref == Head(anchors)
           u == Normalize(Join(page, ref))
           n == Len(links)
<1>1. /\ page \in Pages /\ anchors \in Seq(Hrefs) /\ anchors # <<>>
      /\ parsed \subseteq Hrefs /\ links \in Seq(Url) /\ n \in Nat
      /\ tried \in Nat /\ tried <= n
  BY LenProperties DEF IInv, TypeInv, ParseAnchor
<1>2. /\ anchors' = Tail(anchors) /\ parsed' = parsed \cup {ref}
      /\ links' = (IF IsNew(u) THEN Append(links, u) ELSE links)
      /\ UNCHANGED <<page, seeds, tried, offered, proposed>>
  BY DEF ParseAnchor
<1>3. ref \in Hrefs /\ Tail(anchors) \in Seq(Hrefs) BY <1>1, HeadTailProperties
<1>4. Join(page, ref) \in Url BY <1>1, <1>3, JoinIs
<1>5. u # NoUrl => u \in Url
  <2> DEFINE j == Join(page, ref)
  <2>1. j \in Url BY <1>4
  <2> HIDE DEF j
  <2>2. Normalize(j) # NoUrl => Normalize(j) \in Url BY <2>1, NormalizeIs, CanonicalIs
  <2> QED BY <2>2 DEF j
<1>6. IsNew(u) <=> u # NoUrl /\ \A i \in 1..n : links[i] # u
  <2>1. DOMAIN links = 1..n BY <1>1, LenProperties
  <2> HIDE DEF u, n
  <2> QED BY <2>1 DEF IsNew, ToSet
<1> HIDE DEF u, n
<1>7. /\ links' \in Seq(Url) /\ Len(links') \in Nat
      /\ \A i \in 1..n : i \in 1..Len(links') /\ links'[i] = links[i]
      /\ n <= Len(links')
      /\ \A i, j \in 1..Len(links') : links'[i] = links'[j] => i = j
      /\ \A i \in 1..Len(links') :
            i \in 1..n \/ (u # NoUrl /\ links'[i] = u)
      /\ u # NoUrl => \E i \in 1..Len(links') : links'[i] = u
  <2>1. \A i, j \in 1..n : links[i] = links[j] => i = j
    BY DEF IInv, LinkInv, n
  <2>2. CASE IsNew(u)
    <3>1. links' = Append(links, u) /\ u \in Url BY <1>2, <1>5, <1>6, <2>2
    <3>2. /\ links' \in Seq(Url) /\ Len(links') = n + 1
          /\ links'[n + 1] = u /\ \A i \in 1..n : links'[i] = links[i]
      BY <1>1, <3>1, AppendProperties DEF n
    <3>3. \A i \in 1..n + 1 : i \in 1..n \/ i = n + 1 BY <1>1
    <3>4. n + 1 \in 1..n + 1 /\ \A i \in 1..n : i \in 1..n + 1 BY <1>1
    <3>5. ASSUME NEW i \in 1..n + 1, NEW j \in 1..n + 1, links'[i] = links'[j]
          PROVE  i = j
      BY <1>6, <2>1, <2>2, <3>2, <3>3, <3>5
    <3> QED BY <1>1, <1>6, <2>2, <3>2, <3>3, <3>4, <3>5
  <2>3. CASE ~IsNew(u)
    <3>1. links' = links /\ (u = NoUrl \/ \E i \in 1..n : links[i] = u)
      BY <1>2, <1>6, <2>3
    <3> QED BY <1>1, <2>1, <3>1 DEF n
  <2> QED BY <2>2, <2>3
<1>8. TypeInv'
  <2>1. tried <= Len(links') BY <1>1, <1>7
  <2>2. page' \in Pages /\ seeds' \in SeedLists BY <1>2 DEF IInv, TypeInv
  <2>3. anchors' \in Seq(Hrefs) /\ parsed' \subseteq Hrefs BY <1>1, <1>2, <1>3
  <2>4. tried' \in Nat /\ tried' <= Len(links') BY <1>1, <1>2, <2>1
  <2> QED BY <1>7, <2>2, <2>3, <2>4 DEF TypeInv
<1>9. LinkInv'
  <2>1. ASSUME NEW i \in 1..Len(links')
        PROVE  \E r \in parsed' : Normalize(Join(page', r)) = links'[i]
    <3>1. CASE i \in 1..n
      <4>1. PICK r \in parsed : Normalize(Join(page, r)) = links[i]
        BY <3>1 DEF IInv, LinkInv, n
      <4> QED BY <1>2, <1>7, <3>1, <4>1
    <3>2. CASE u # NoUrl /\ links'[i] = u BY <1>2, <3>2 DEF u
    <3> QED BY <1>7, <3>1, <3>2
  <2>2. ASSUME NEW r \in parsed', Normalize(Join(page', r)) # NoUrl
        PROVE  \E i \in 1..Len(links') : links'[i] = Normalize(Join(page', r))
    <3>1. CASE r \in parsed
      <4>1. PICK i \in 1..n : links[i] = Normalize(Join(page, r))
        BY <1>2, <2>2, <3>1 DEF IInv, LinkInv, n
      <4> QED BY <1>2, <1>7, <4>1
    <3>2. CASE r = ref
      <4>1. Normalize(Join(page', r)) = u BY <1>2, <3>2 DEF u
      <4> QED BY <1>7, <2>2, <4>1
    <3> QED BY <1>2, <3>1, <3>2
  <2> QED BY <1>7, <2>1, <2>2 DEF LinkInv
<1>10. OfferInv'
  <2>1. \A l : Matching(l)' = Matching(l) BY <1>2 DEF Matching
  <2>2. \A i \in 1..tried : i \in 1..n BY <1>1
  <2>3. /\ offered' = offered /\ tried' = tried /\ proposed' = proposed
        /\ seeds' = seeds
    BY <1>2
  <2>4. \A o \in offered : \E i \in 1..Len(links') : \E k \in Matching(links'[i]) :
           o = [url |-> links'[i], seed |-> seeds[k]]
    BY <1>7 DEF IInv, OfferInv, n
  <2>5. \A i \in 1..tried :
           Matching(links'[i]) # {} => \E o \in offered : o.url = links'[i]
    BY <1>7, <2>2 DEF IInv, OfferInv
  <2>6. \A d \in proposed : \E i \in 1..Len(links') :
           Matching(links'[i]) = {} /\ d = Registrable(links'[i].host) /\ d # <<>>
    BY <1>7 DEF IInv, OfferInv, n
  <2> QED BY <2>1, <2>3, <2>4, <2>5, <2>6 DEF OfferInv
<1> QED BY <1>8, <1>9, <1>10 DEF IInv

(* The expansion and a click leave the links alone.                        *)
LEMMA LinksKept ==
    ASSUME IInv, UNCHANGED <<page, seeds, anchors, parsed, links>>,
           tried' \in Nat, tried' <= Len(links)
    PROVE  TypeInv' /\ LinkInv' /\ \A l : Matching(l)' = Matching(l)
BY DEF IInv, TypeInv, LinkInv, Matching

LEMMA OfferKept ==
    ASSUME UNCHANGED <<seeds, links>>, \A l : Matching(l)' = Matching(l),
           \A o \in offered' : \E i \in 1..Len(links) : \E k \in Matching(links[i]) :
              o = [url |-> links[i], seed |-> seeds[k]],
           \A i \in 1..tried' :
              Matching(links[i]) # {} => \E o \in offered' : o.url = links[i],
           \A d \in proposed' : \E i \in 1..Len(links) :
              Matching(links[i]) = {} /\ d = Registrable(links[i].host) /\ d # <<>>
    PROVE  OfferInv'
<1>1. links' = links /\ seeds' = seeds OBVIOUS
<1>2. \A i : Matching(links[i])' = Matching(links[i]) BY <1>1
<1>3. (\A o \in offered : \E i \in 1..Len(links) : \E k \in Matching(links[i]) :
          o = [url |-> links[i], seed |-> seeds[k]])'
  BY <1>1, <1>2
<1>4. (\A i \in 1..tried :
          Matching(links[i]) # {} => \E o \in offered : o.url = links[i])'
  BY <1>1, <1>2
<1>5. (\A d \in proposed : \E i \in 1..Len(links) :
          Matching(links[i]) = {} /\ d = Registrable(links[i].host) /\ d # <<>>)'
  BY <1>1, <1>2
<1> QED BY <1>3, <1>4, <1>5 DEF OfferInv

LEMMA NextInv == IInv /\ [Next]_vars => IInv'
<1> SUFFICES ASSUME IInv, [Next]_vars PROVE IInv' OBVIOUS
<1>1. tried \in Nat /\ Len(links) \in Nat /\ tried <= Len(links)
  BY LenProperties DEF IInv, TypeInv
<1>2. CASE ParseAnchor BY <1>2, ParseKeeps
<1>3. CASE OfferLink
  <2> DEFINE l == links[tried + 1]
             k == FirstOf(Matching(l))
             o == [url |-> l, seed |-> seeds[k]]
  <2>1. /\ tried < Len(links) /\ Matching(l) # {}
        /\ offered' = offered \cup {o} /\ tried' = tried + 1
        /\ UNCHANGED <<page, seeds, anchors, parsed, links, proposed>>
    BY <1>3 DEF OfferLink, Expanding
  <2>2. tried + 1 \in 1..Len(links) /\ tried' \in Nat /\ tried' <= Len(links)
    BY <1>1, <2>1
  <2>3. TypeInv' /\ LinkInv' /\ \A m : Matching(m)' = Matching(m)
    BY <2>1, <2>2, LinksKept
  <2>4. k \in Matching(l)
    <3>1. DOMAIN seeds \subseteq Nat
      BY ScopingAssumption, LenProperties DEF IInv, TypeInv
    <3>2. Matching(l) \subseteq Nat BY <2>2, <3>1, MatchingIs
    <3> QED BY <2>1, <3>2, FirstOfIs
  <2>5. o.url = l OBVIOUS
  <2>6. \A i \in 1..tried + 1 : i \in 1..tried \/ i = tried + 1 BY <1>1
  <2> HIDE DEF k, o
  <2>7. \A e \in offered' : \E i \in 1..Len(links) : \E m \in Matching(links[i]) :
           e = [url |-> links[i], seed |-> seeds[m]]
    BY <2>1, <2>2, <2>4 DEF IInv, OfferInv, o
  <2>8. \A i \in 1..tried + 1 :
           Matching(links[i]) # {} => \E e \in offered' : e.url = links[i]
    BY <2>1, <2>5, <2>6 DEF IInv, OfferInv
  <2>9. \A d \in proposed : \E i \in 1..Len(links) :
           Matching(links[i]) = {} /\ d = Registrable(links[i].host) /\ d # <<>>
    BY DEF IInv, OfferInv
  <2>10. OfferInv' BY <2>1, <2>3, <2>7, <2>8, <2>9, OfferKept
  <2> QED BY <2>3, <2>10 DEF IInv
<1>4. CASE LeaveLink
  <2>1. /\ tried < Len(links) /\ Matching(links[tried + 1]) = {}
        /\ tried' = tried + 1
        /\ UNCHANGED <<page, seeds, anchors, parsed, links, offered, proposed>>
    BY <1>4 DEF LeaveLink, Expanding
  <2>2. tried' \in Nat /\ tried' <= Len(links) BY <1>1, <2>1
  <2>3. TypeInv' /\ LinkInv' /\ \A m : Matching(m)' = Matching(m)
    BY <2>1, <2>2, LinksKept
  <2>4. \A i \in 1..tried + 1 : i \in 1..tried \/ i = tried + 1 BY <1>1
  <2>5. \A i \in 1..tried + 1 :
           Matching(links[i]) # {} => \E e \in offered : e.url = links[i]
    BY <2>1, <2>4 DEF IInv, OfferInv
  <2>6. /\ \A o \in offered : \E i \in 1..Len(links) : \E k \in Matching(links[i]) :
              o = [url |-> links[i], seed |-> seeds[k]]
        /\ \A d \in proposed : \E i \in 1..Len(links) :
              Matching(links[i]) = {} /\ d = Registrable(links[i].host) /\ d # <<>>
    BY DEF IInv, OfferInv
  <2>7. OfferInv' BY <2>1, <2>3, <2>5, <2>6, OfferKept
  <2> QED BY <2>3, <2>7 DEF IInv
<1>5. CASE Click
  <2>1. /\ proposed' = {Registrable(u.host) : u \in {l \in ToSet(links) : Matching(l) = {}}}
                          \ ({DomainOf(seeds[i]) : i \in DOMAIN seeds} \cup {<<>>})
        /\ UNCHANGED <<page, seeds, anchors, parsed, links, tried, offered>>
    BY <1>5 DEF Click
  <2>2. TypeInv' /\ LinkInv' /\ \A m : Matching(m)' = Matching(m)
    BY <1>1, <2>1, LinksKept
  <2>3. ASSUME NEW d \in proposed'
        PROVE  \E i \in 1..Len(links) :
                  Matching(links[i]) = {} /\ d = Registrable(links[i].host) /\ d # <<>>
    <3>1. PICK l \in ToSet(links) : Matching(l) = {} /\ d = Registrable(l.host) /\ d # <<>>
      BY <2>1
    <3>2. DOMAIN links = 1..Len(links) BY LenProperties DEF IInv, TypeInv
    <3> QED BY <3>1, <3>2 DEF ToSet
  <2>4. /\ \A o \in offered : \E i \in 1..Len(links) : \E k \in Matching(links[i]) :
              o = [url |-> links[i], seed |-> seeds[k]]
        /\ \A i \in 1..tried :
              Matching(links[i]) # {} => \E o \in offered : o.url = links[i]
    BY DEF IInv, OfferInv
  <2>5. OfferInv' BY <2>1, <2>2, <2>3, <2>4, OfferKept
  <2> QED BY <2>2, <2>5 DEF IInv
<1>6. CASE UNCHANGED vars
  <2>1. TypeInv' /\ LinkInv' /\ \A m : Matching(m)' = Matching(m)
    BY <1>1, <1>6, LinksKept DEF vars
  <2>2. /\ \A o \in offered : \E i \in 1..Len(links) : \E k \in Matching(links[i]) :
              o = [url |-> links[i], seed |-> seeds[k]]
        /\ \A i \in 1..tried :
              Matching(links[i]) # {} => \E o \in offered : o.url = links[i]
        /\ \A d \in proposed : \E i \in 1..Len(links) :
              Matching(links[i]) = {} /\ d = Registrable(links[i].host) /\ d # <<>>
    BY DEF IInv, OfferInv
  <2>3. OfferInv' BY <1>6, <2>1, <2>2, OfferKept DEF vars
  <2> QED BY <2>1, <2>3 DEF IInv
<1> QED BY <1>2, <1>3, <1>4, <1>5, <1>6 DEF Next

(* The links a page has, which of them are offered and what is proposed,   *)
(* for every page.                                                         *)
THEOREM ScopingInvariant == Spec => []IInv
<1>1. Init => IInv BY InitInv
<1>2. IInv /\ [Next]_vars => IInv' BY NextInv
<1> QED BY <1>1, <1>2, PTL DEF Spec

-----------------------------------------------------------------------------
(* The properties.                                                         *)

LEMMA FindsOnce == IInv => OneLinkPerResource
<1> SUFFICES ASSUME IInv PROVE OneLinkPerResource OBVIOUS
<1>1. DOMAIN links = 1..Len(links) BY LenProperties DEF IInv, TypeInv
<1>2. \A u \in Targets : u \in Url
  BY JoinIs DEF IInv, TypeInv, Targets
<1>3. ASSUME NEW i \in DOMAIN links, NEW j \in DOMAIN links, Same(links[i], links[j])
      PROVE  i = j
  <2>1. /\ links[i] \in Url /\ Canonical(links[i]) = links[i]
        /\ links[j] \in Url /\ Canonical(links[j]) = links[j]
    BY <1>1, LinkIs
  <2>2. links[i] = links[j] BY <1>3, <2>1, SameIs
  <2> QED BY <1>1, <2>2 DEF IInv, LinkInv
<1>4. ASSUME NEW i \in DOMAIN links, NEW u \in Url, Normalize(u) = links[i]
      PROVE  Same(links[i], u)
  <2>1. links[i] \in Url BY <1>1, LinkIs
  <2>2. links[i] = Canonical(u) BY <1>4, <2>1, NormalizeIs, ScopingAssumption
  <2>3. Canonical(links[i]) = Canonical(u) BY <2>2, CanonicalIs
  <2> QED BY <2>1, <2>3, SameIs
<1>5. ASSUME NEW u \in Targets, Crawlable(u)
      PROVE  \E i \in DOMAIN links : Same(links[i], u)
  <2>1. PICK ref \in parsed : u = Join(page, ref) BY DEF Targets
  <2>2. Normalize(u) # NoUrl
    BY <1>2, <1>5, NormalizeIs DEF Crawlable, NoNetloc
  <2>3. PICK i \in DOMAIN links : links[i] = Normalize(u)
    BY <1>1, <2>1, <2>2 DEF IInv, LinkInv
  <2> QED BY <1>2, <1>4, <2>3
<1>6. ASSUME NEW i \in DOMAIN links PROVE \E u \in Targets : Same(links[i], u)
  <2>1. PICK ref \in parsed : Normalize(Join(page, ref)) = links[i]
    BY <1>1 DEF IInv, LinkInv
  <2>2. Join(page, ref) \in Targets BY DEF Targets
  <2> QED BY <1>2, <1>4, <2>1, <2>2
<1> QED BY <1>3, <1>5, <1>6 DEF OneLinkPerResource

LEMMA MeetsSeeds == IInv => SeedsMeetLinks
<1> SUFFICES ASSUME IInv, NEW k \in DOMAIN seeds, PlantedUrl(seeds[k]) # NoUrl
             PROVE  /\ \A i \in DOMAIN links :
                          Same(links[i], PlantedUrl(seeds[k]))
                             => Text(links[i]) = Text(PlantedUrl(seeds[k]))
                    /\ seeds[k].mode # "domain"
                          => Matches(Rule(seeds[k]), PlantedUrl(seeds[k]))
  BY DEF SeedsMeetLinks
<1> DEFINE s == PlantedUrl(seeds[k])
<1>1. DOMAIN links = 1..Len(links) BY LenProperties DEF IInv, TypeInv
<1>2. /\ s = SeedUrl(seeds[k]) /\ s = Canonical(seeds[k].url) /\ seeds[k].url \in Url
      /\ seeds[k].mode \in {"domain", "prefix", "exact"}
  BY SeedIs DEF IInv, PlantedUrl, SeedUrl
<1>3. s \in Url /\ Canonical(s) = s BY <1>2, CanonicalIs
<1>4. s # NoUrl OBVIOUS
<1> HIDE DEF s
<1>5. ASSUME NEW i \in DOMAIN links, Same(links[i], s) PROVE Text(links[i]) = Text(s)
  <2>1. links[i] \in Url /\ Canonical(links[i]) = links[i] BY <1>1, LinkIs
  <2>2. links[i] = s BY <1>3, <1>5, <2>1, SameIs
  <2> QED BY <2>2
<1>6. IsPrefix(Text(s), Text(s))
  <2>1. Text(s) \in Seq(STRING \cup Token) BY <1>3, TextIs
  <2>2. Len(Text(s)) \in Nat BY <2>1, LenProperties
  <2>3. Len(Text(s)) <= Len(Text(s)) BY <2>2
  <2> QED BY <2>1, <2>3, PrefixIs
<1>7. ASSUME seeds[k].mode # "domain" PROVE Matches(Rule(seeds[k]), s)
  BY <1>2, <1>4, <1>6, <1>7 DEF Matches, Rule, StartsWith
<1> QED BY <1>5, <1>7 DEF s

(* What a domain seed accepts is of its site.                              *)
LEMMA DomainMeets ==
    ASSUME NEW seed \in Seed, NEW h \in Seq(Labels), Registrable(h) = DomainOf(seed)
    PROVE  SameSite(h, seed.url.host)
<1>1. seed.url \in Url /\ seed.url.host \in Seq(Labels) BY DEF Seed, Url
<1>2. CASE seed.bare /\ ~HasSuffix(seed.url.host)
  <2>1. Rest(seed.url) = Registrable(h) BY <1>2 DEF DomainOf
  <2>2. Rest(seed.url) = seed.url.host BY <1>1, <2>1, RegistrableType, RestIsHost
  <2>3. Registrable(seed.url.host) = seed.url.host BY <1>1, <1>2, RegistrableIs
  <2> QED BY <1>1, <2>1, <2>2, <2>3, OneSite
<1>3. CASE ~(seed.bare /\ ~HasSuffix(seed.url.host))
  <2>1. DomainOf(seed) = Registrable(seed.url.host) BY <1>3 DEF DomainOf
  <2> QED BY <1>1, <2>1, OneSite
<1> QED BY <1>2, <1>3

LEMMA OffersWithin == IInv => WithinScope
<1> SUFFICES ASSUME IInv, NEW o \in offered
             PROVE  CASE o.seed.mode = "domain" -> SameSite(o.url.host, o.seed.url.host)
                      [] o.seed.mode = "prefix" ->
                            /\ SameOrigin(o.url, o.seed.url)
                            /\ IsPrefix(SeedUrl(o.seed).path, o.url.path)
                      [] o.seed.mode = "exact" -> Same(o.url, o.seed.url)
  BY DEF WithinScope
<1>0. PICK i \in 1..Len(links) : \E k \in Matching(links[i]) :
         o = [url |-> links[i], seed |-> seeds[k]]
  BY DEF IInv, OfferInv
<1>1. PICK k \in Matching(links[i]) : o = [url |-> links[i], seed |-> seeds[k]]
  BY <1>0
<1> DEFINE u == links[i]
           s == seeds[k]
<1>2. o.url = u /\ o.seed = s BY <1>1
<1>3. u \in Url /\ Canonical(u) = u /\ u.path # <<>> /\ u.host \in Seq(Labels)
  BY LinkIs
<1>4. k \in DOMAIN seeds /\ Matches(Rule(s), u) BY MatchingIs
<1>5. /\ s \in Seed /\ s.url \in Url /\ s.mode \in {"domain", "prefix", "exact"}
      /\ SeedUrl(s) # NoUrl => SeedUrl(s) = Canonical(s.url)
  BY <1>4, SeedIs DEF IInv
<1> HIDE DEF u, s
<1>6. CASE s.mode = "domain"
  <2>1. Registrable(u.host) = DomainOf(s) BY <1>4, <1>6 DEF Matches, Rule
  <2>2. SameSite(u.host, s.url.host) BY <1>3, <1>5, <2>1, DomainMeets
  <2> QED BY <1>2, <1>6, <2>2
<1>7. CASE s.mode = "prefix"
  <2> DEFINE c == Canonical(s.url)
  <2>1. SeedUrl(s) # NoUrl /\ StartsWith(u, SeedUrl(s))
    BY <1>4, <1>7 DEF Matches, Rule
  <2>2. SeedUrl(s) = c /\ c \in Url /\ c.path # <<>> BY <1>5, <2>1, CanonicalIs
  <2>3. /\ c.scheme = s.url.scheme /\ c.host = s.url.host
        /\ c.port = CanonicalPort(s.url)
    BY <1>5, CanonicalIs
  <2> HIDE DEF c
  <2>4. /\ c.scheme = u.scheme /\ c.host = u.host /\ c.port = u.port
        /\ IsPrefix(c.path, u.path)
    BY <1>3, <2>1, <2>2, PrefixMeets
  <2>5. EffectivePort(u) = EffectivePort(s.url)
    BY <2>3, <2>4 DEF EffectivePort, CanonicalPort, DefaultPort, NoPort
  <2>6. SameOrigin(u, s.url) /\ IsPrefix(SeedUrl(s).path, u.path)
    BY <2>2, <2>3, <2>4, <2>5 DEF SameOrigin
  <2> QED BY <1>2, <1>7, <2>6
<1>8. CASE s.mode = "exact"
  <2>1. SeedUrl(s) # NoUrl /\ u = SeedUrl(s) BY <1>4, <1>8 DEF Matches, Rule
  <2>2. Canonical(u) = Canonical(s.url) BY <1>3, <1>5, <2>1
  <2>3. Same(u, s.url) BY <1>3, <1>5, <2>2, SameIs
  <2> QED BY <1>2, <1>8, <2>3
<1> QED BY <1>5, <1>6, <1>7, <1>8

LEMMA AcceptsOwn == IInv => AcceptsItself
<1> SUFFICES ASSUME IInv, NEW k \in DOMAIN seeds,
                    SeedUrl(seeds[k]) # NoUrl, Reachable(seeds[k]),
                    NEW i \in DOMAIN links, Same(links[i], seeds[k].url), i <= tried
             PROVE  \E o \in offered : o.url = links[i]
  BY DEF AcceptsItself
<1> DEFINE u == links[i]
           s == seeds[k]
<1>1. DOMAIN links = 1..Len(links) /\ tried \in Nat
  BY LenProperties DEF IInv, TypeInv
<1>2. u \in Url /\ Canonical(u) = u /\ u.host \in Seq(Labels)
  BY <1>1, LinkIs
<1>3. /\ s.url \in Url /\ s.mode \in {"domain", "prefix", "exact"}
      /\ SeedUrl(s) = Canonical(s.url)
  BY SeedIs DEF IInv
<1>4. u = SeedUrl(s) BY <1>2, <1>3, SameIs
<1>5. u.host = s.url.host /\ u.host # NoHost
  BY <1>3, <1>4, CanonicalIs DEF Reachable
<1>6. Normalize(u) # NoUrl BY <1>1, <1>5, LinkIs
<1>7. Matches(Rule(s), u)
  <2> HIDE DEF u, s
  <2>1. CASE s.mode = "domain"
    <3>1. DomainOf(s) = Registrable(u.host)
      <4>1. CASE s.bare /\ ~HasSuffix(s.url.host)
        <5>1. Rest(s.url) = s.url.host BY <2>1, <4>1 DEF Reachable, s
        <5> QED BY <1>2, <1>5, <4>1, <5>1, RegistrableIs DEF DomainOf
      <4>2. CASE ~(s.bare /\ ~HasSuffix(s.url.host)) BY <1>5, <4>2 DEF DomainOf
      <4> QED BY <4>1, <4>2
    <3>2. DomainOf(s) # <<>> BY <1>2, <1>5, <3>1, RegistrableType DEF NoHost
    <3> QED BY <2>1, <3>1, <3>2 DEF Matches, Rule
  <2>2. CASE s.mode = "prefix"
    <3>1. IsPrefix(Text(u), Text(u))
      <4>1. Text(u) \in Seq(STRING \cup Token) BY <1>2, TextIs
      <4> DEFINE n == Len(Text(u))
      <4>2. n \in Nat /\ n <= n BY <4>1, LenProperties
      <4> HIDE DEF n
      <4>3. Len(Text(u)) <= Len(Text(u)) BY <4>2 DEF n
      <4> QED BY <4>1, <4>3, PrefixIs
    <3>2. SeedUrl(s) # NoUrl BY DEF s
    <3> QED BY <1>4, <2>2, <3>1, <3>2 DEF Matches, Rule, StartsWith
  <2>3. CASE s.mode = "exact"
    <3>1. SeedUrl(s) # NoUrl BY DEF s
    <3> QED BY <1>4, <2>3, <3>1 DEF Matches, Rule
  <2> QED BY <1>3, <2>1, <2>2, <2>3
<1>8. Matching(u) # {} BY <1>1, <1>6, <1>7, MatchingIs
<1>9. i \in 1..tried BY <1>1
<1> QED BY <1>8, <1>9 DEF IInv, OfferInv

LEMMA ApprovedCovers == IInv => ApprovalCovers
<1> SUFFICES ASSUME IInv, NEW d \in proposed
             PROVE  /\ LeftFor(d) # {}
                    /\ \A i \in LeftFor(d) : Matches(Rule(ApprovedSeed(d)), links[i])
  BY DEF ApprovalCovers
<1>1. PICK i \in 1..Len(links) :
         Matching(links[i]) = {} /\ d = Registrable(links[i].host) /\ d # <<>>
  BY DEF IInv, OfferInv
<1>2. DOMAIN links = 1..Len(links) BY LenProperties DEF IInv, TypeInv
<1>3. LeftFor(d) # {} BY <1>1, <1>2 DEF LeftFor
<1>4. links[i].host \in Seq(Labels) BY LinkIs
<1>5. d \in Seq(Labels) /\ Registrable(d) = d
  BY <1>1, <1>4, RegistrableType, RegistrableTwice
<1> DEFINE s == ApprovedSeed(d)
<1>6. /\ s.mode = "domain" /\ s.bare = TRUE /\ s.url.host = d
      /\ s.url.port = NoPort /\ s.url.path = <<>> /\ s.url.query = NoQuery
  BY DEF ApprovedSeed
<1> HIDE DEF s
<1>7. Rest(s.url) = d BY <1>5, <1>6, RestOfHost
<1>8. DomainOf(s) = d BY <1>5, <1>6, <1>7 DEF DomainOf
<1>9. \A j \in LeftFor(d) : Matches(Rule(s), links[j])
  BY <1>1, <1>6, <1>8 DEF LeftFor, Matches, Rule
<1> QED BY <1>3, <1>9 DEF s

(* However the anchors of a page are written, normalize_url gives one link *)
(* for every resource they refer to and the crawler can ask for.           *)
THEOREM LinksAreResources == Spec => []OneLinkPerResource
BY ScopingInvariant, FindsOnce, PTL

(* A link to the page of a seed is the seed's URL as enqueue_seeds plants  *)
(* it, letter by letter, and the rule that rule_from_seed makes of a       *)
(* prefix or exact seed accepts what is planted.                           *)
THEOREM LinksMeetSeeds == Spec => []SeedsMeetLinks
BY ScopingInvariant, MeetsSeeds, PTL

(* match_scope hands no link to a seed it has nothing to do with: string   *)
(* comparison of canonical URLs stays within the site, the host and port   *)
(* or the resource.                                                        *)
THEOREM OfferedWithinScope == Spec => []WithinScope
BY ScopingInvariant, OffersWithin, PTL

(* Links back to a seed's own page are in scope.                           *)
THEOREM SeedsAcceptThemselves == Spec => []AcceptsItself
BY ScopingInvariant, AcceptsOwn, PTL

(* Approving a domain that record_click proposed makes a seed that accepts *)
(* every link it was proposed for.                                         *)
THEOREM ApprovedDomainsCover == Spec => []ApprovalCovers
BY ScopingInvariant, ApprovedCovers, PTL

=============================================================================
