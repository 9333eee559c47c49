------------------------------ MODULE Scoping -------------------------------
(***************************************************************************)
(* From the text of a page to the frontier: parse_html collects the links  *)
(* of a page (crawler/parser.py), each in canonical form (normalize_url,   *)
(* urls.py); match_scope (crawler/scope.py) looks for a seed that accepts  *)
(* each of them; a click on the page proposes the domains of the others    *)
(* (seeding/discover.py).  One page is worked through link by link.        *)
(*                                                                         *)
(* A URL is a record of its parts.  A host is a sequence of labels, a path *)
(* a sequence of segments that keep their slash, such as "/docs", or that  *)
(* go on where the one before ends; strings are compared as the sequences  *)
(* of these tokens.                                                        *)
(***************************************************************************)
EXTENDS Naturals, Sequences, FiniteSets, SequencesExt

CONSTANTS
    Labels, Ports, Segments, Queries,   \* what the parts of a URL consist of
    Slashed,        \* the segments that begin with a slash
    Pages,          \* canonical URLs of pages
    Hrefs,          \* what an anchor may refer to
    MaxAnchors,     \* how many anchors a page has at most
    SeedLists,      \* enabled seeds, in SELECT order
    SuffixList,     \* public suffixes (the list tldextract is shipped with)
    NoUrl

NoHost == <<>>
NoPort == ""
NoQuery == ""

(* A port begins with a colon, a query with a question mark and a path     *)
(* with a slash; hosts have none of them and no path has a question mark.  *)
ASSUME TokenAssumption ==
    /\ Slashed \subseteq Segments /\ "/" \in Slashed
    /\ Slashed \cap (Labels \cup Ports) = {} /\ Labels \cap Ports = {}
    /\ Queries \cap (Labels \cup Segments) = {}
    /\ NoPort \notin Ports /\ NoQuery \notin Queries

Path == {p \in Seq(Segments) : p # <<>> => Head(p) \in Slashed}

(* caps: whether the host has capitals; rooted: whether a path begins with *)
(* a slash in a reference; frag: whether there is a fragment.              *)
Url == [scheme : STRING, host : Seq(Labels), caps : BOOLEAN,
        port : Ports \cup {NoPort}, rooted : BOOLEAN, path : Path,
        query : Queries \cup {NoQuery}, frag : BOOLEAN]

(* bare: whether the value has no scheme.                                  *)
Seed == [mode : {"domain", "prefix", "exact"}, bare : BOOLEAN, url : Url]

ASSUME ScopingAssumption ==
    /\ MaxAnchors \in Nat
    /\ Pages \subseteq Url /\ Hrefs \subseteq Url /\ NoUrl \notin Url
    /\ \A p \in Pages : p.host # NoHost /\ p.path # <<>> /\ p.port \notin {":80", ":443"}
    /\ SeedLists \subseteq Seq(Seed)
    /\ SuffixList \subseteq Seq(Labels) /\ NoHost \notin SuffixList

VARIABLES
    page,       \* the page that is parsed
    seeds,      \* the enabled seeds
    anchors,    \* what its anchors refer to, those still to be parsed
    parsed,     \* those that have been parsed
    links,      \* the links found, in order
    tried,      \* how many of them the expansion has tried
    offered,    \* the links it has handed to enqueue_url, each with its seed
    proposed    \* the domains a click has found, once it has looked

vars == <<page, seeds, anchors, parsed, links, tried, offered, proposed>>

-----------------------------------------------------------------------------
(* urls.py.                                                                *)

(* urljoin, external: what a reference stands for on a page.               *)
Join(base, ref) ==
    IF ref.scheme # "" THEN ref
    ELSE IF ref.host # NoHost THEN [ref EXCEPT !.scheme = base.scheme]
    ELSE [base EXCEPT
             !.frag = ref.frag,
             !.query = IF ref.path = <<>> /\ ref.query = NoQuery THEN @ ELSE ref.query,
             !.path = IF ref.path = <<>> THEN @
                      ELSE IF ref.rooted THEN ref.path ELSE Front(@) \o ref.path]

Web == {"http", "https"}
DefaultPort(scheme) == IF scheme = "http" THEN ":80" ELSE ":443"

(* The extensions of _SKIP_EXTENSIONS, whatever their case.                *)
IsAsset(path) == path # <<>> /\ Last(path) \in {"/x.pdf", "/x.PDF"}

(* Mutant of CanonicalPath: the path is left as it is.                     *)
CanonicalPathAsIs(path) == path

CanonicalPath(path) == IF path = <<>> THEN <<"/">> ELSE path

(* Mutant of CanonicalPort: a port that is some scheme's default.          *)
CanonicalPortAny(u) == IF u.port \in {":80", ":443"} THEN NoPort ELSE u.port

CanonicalPort(u) == IF u.port = DefaultPort(u.scheme) THEN NoPort ELSE u.port

Canonical(u) ==
    [u EXCEPT !.caps = FALSE, !.frag = FALSE, !.rooted = TRUE,
              !.port = CanonicalPort(u), !.path = CanonicalPath(@)]

(* The part between "//" and the path is empty.                            *)
NoNetloc(u) == u.host = NoHost /\ u.port = NoPort

(* normalize_url without a base.                                           *)
Normalize(u) ==
    IF u.scheme \notin Web \/ NoNetloc(u) \/ IsAsset(u.path)
    THEN NoUrl ELSE Canonical(u)

Tokens(s) == IF s = "" THEN <<>> ELSE <<s>>

(* What follows the scheme, and the whole text of a canonical URL.         *)
Rest(u) == u.host \o Tokens(u.port) \o u.path \o Tokens(u.query)
Text(u) == <<u.scheme>> \o Rest(u)

Longest(S) == CHOOSE s \in S : \A o \in S : Len(o) <= Len(s)

(* Mutant of Registrable: the host without its first label.                *)
RegistrableTail(host) == IF Len(host) <= 1 THEN host ELSE Tail(host)

(* The public suffix of a host and the label before it, or the whole host. *)
Registrable(host) ==
    LET found == {s \in SuffixList : IsSuffix(s, host)}
    IN  IF found = {} \/ host \in found THEN host
        ELSE SubSeq(host, Len(host) - Len(Longest(found)), Len(host))

HasSuffix(host) == host \notin SuffixList /\ \E s \in SuffixList : IsSuffix(s, host)

(* Mutant of DomainOf: the host of the seed.                               *)
DomainOfHost(seed) == seed.url.host

(* registrable_domain of a seed's value: of one without a scheme, the part *)
(* that is not a host is dropped only if tldextract knows the suffix.      *)
DomainOf(seed) ==
    IF seed.bare /\ ~HasSuffix(seed.url.host) THEN Rest(seed.url)
                                              ELSE Registrable(seed.url.host)

-----------------------------------------------------------------------------
(* scope.py.                                                               *)

(* A seed's value without a scheme is read as https, here for its rule ... *)
SeedUrl(seed) == Normalize(seed.url)

(* Mutant of PlantedUrl: the value as it was entered.                      *)
PlantedUrlRaw(seed) == seed.url

(* ... and once more by enqueue_seeds (worker.py), for the frontier.       *)
PlantedUrl(seed) == Normalize(seed.url)

Rule(seed) == [mode |-> seed.mode, domain |-> DomainOf(seed), url |-> SeedUrl(seed)]

StartsWith(u, prefix) == IsPrefix(Text(prefix), Text(u))

Matches(rule, u) ==
    CASE rule.mode = "domain" -> rule.domain # <<>> /\ Registrable(u.host) = rule.domain
      [] rule.mode = "prefix" -> rule.url # NoUrl /\ StartsWith(u, rule.url)
      [] rule.mode = "exact"  -> rule.url # NoUrl /\ u = rule.url

(* Positions of the rules that match; match_scope takes the first.         *)
Matching(link) ==
    IF Normalize(link) = NoUrl THEN {}
    ELSE {i \in DOMAIN seeds : Matches(Rule(seeds[i]), Normalize(link))}
FirstOf(S) == CHOOSE i \in S : \A j \in S : i <= j

-----------------------------------------------------------------------------
Init ==
    /\ page \in Pages /\ seeds \in SeedLists
    /\ \E n \in 0..MaxAnchors : anchors \in [1..n -> Hrefs]
    /\ parsed = {} /\ links = <<>>
    /\ tried = 0 /\ offered = {} /\ proposed = {}

(* normalized and normalized not in seen.                                  *)
IsNew(u) == u # NoUrl /\ u \notin ToSet(links)

(* The next anchor of parse_html.                                          *)
ParseAnchor ==
    LET u == Normalize(Join(page, Head(anchors)))
    IN  /\ anchors # <<>>
        /\ anchors' = Tail(anchors)
        /\ parsed' = parsed \cup {Head(anchors)}
        /\ links' = IF IsNew(u) THEN Append(links, u) ELSE links
        /\ UNCHANGED <<page, seeds, tried, offered, proposed>>

Expanding == anchors = <<>> /\ tried < Len(links)

(* The next link of _process_row is in scope: it is offered to the         *)
(* frontier for the first seed that accepts it.                            *)
OfferLink ==
    LET link == links[tried + 1]
    IN  /\ Expanding /\ Matching(link) # {}
        /\ offered' = offered \cup {[url |-> link, seed |-> seeds[FirstOf(Matching(link))]]}
        /\ tried' = tried + 1
        /\ UNCHANGED <<page, seeds, anchors, parsed, links, proposed>>

LeaveLink ==
    /\ Expanding /\ Matching(links[tried + 1]) = {}
    /\ tried' = tried + 1
    /\ UNCHANGED <<page, seeds, anchors, parsed, links, offered, proposed>>

Stored == anchors = <<>> /\ tried = Len(links)

(* record_click, once the page is stored: the domains of its links that    *)
(* are out of scope, but for those the seeds have.                         *)
Click ==
    /\ Stored
    /\ proposed' = {Registrable(u.host) : u \in {l \in ToSet(links) : Matching(l) = {}}}
                      \ ({DomainOf(seeds[i]) : i \in DOMAIN seeds} \cup {<<>>})
    /\ UNCHANGED <<page, seeds, anchors, parsed, links, tried, offered>>

Next == ParseAnchor \/ OfferLink \/ LeaveLink \/ Click

Spec == Init /\ [][Next]_vars

-----------------------------------------------------------------------------
(* RFC 3986, to compare with: the same scheme, host, port, path and query. *)
EffectivePort(u) == IF u.port = NoPort THEN DefaultPort(u.scheme) ELSE u.port
SameOrigin(u, v) == u.scheme = v.scheme /\ u.host = v.host
                       /\ EffectivePort(u) = EffectivePort(v)
Same(u, v) ==
    /\ SameOrigin(u, v) /\ u.query = v.query
    /\ u.path = v.path \/ {u.path, v.path} = {<<>>, <<"/">>}

(* Two hosts of one site: they share a public suffix and the label before. *)
SameSite(h, g) ==
    h = g \/ \E n \in 2..Len(h) :
        LET site == SubSeq(h, Len(h) - n + 1, Len(h))
        IN  /\ IsSuffix(site, g)
            /\ site \notin SuffixList /\ Tail(site) \in SuffixList

Targets == {Join(page, ref) : ref \in parsed}
Crawlable(u) == u.scheme \in Web /\ u.host # NoHost /\ ~IsAsset(u.path)

(* "canonicalize" (urls.py:66), on which the unique urls of crawl_queue,   *)
(* pages and links rely: however they are written, two anchors give one    *)
(* link if and only if they refer to the same resource, and every resource *)
(* the crawler can ask for is found.                                       *)
OneLinkPerResource ==
    /\ \A i, j \in DOMAIN links : Same(links[i], links[j]) => i = j
    /\ \A u \in Targets : Crawlable(u) => \E i \in DOMAIN links : Same(links[i], u)
    /\ \A i \in DOMAIN links : \E u \in Targets : Same(links[i], u)

(* A seed is made into a URL for the frontier (worker.py:42-43), into      *)
(* another for its rule (scope.py:26-27), and links are made into URLs by  *)
(* the parser; all are compared as strings.  A link to the page that is    *)
(* planted for a seed is what is planted, letter by letter, and the rule   *)
(* of a seed that asks for a URL accepts it.                               *)
SeedsMeetLinks ==
    \A k \in DOMAIN seeds :
        PlantedUrl(seeds[k]) # NoUrl =>
            /\ \A i \in DOMAIN links :
                  Same(links[i], PlantedUrl(seeds[k]))
                     => Text(links[i]) = Text(PlantedUrl(seeds[k]))
            /\ seeds[k].mode # "domain" => Matches(Rule(seeds[k]), PlantedUrl(seeds[k]))

(* What an offered link has to do with the seed it is charged to: a host   *)
(* of the same site, or a path on the same host and port that goes on      *)
(* where that of the seed ends (the code compares plain strings), or the   *)
(* same resource.                                                          *)
WithinScope ==
    \A o \in offered :
        CASE o.seed.mode = "domain" -> SameSite(o.url.host, o.seed.url.host)
          [] o.seed.mode = "prefix" ->
                /\ SameOrigin(o.url, o.seed.url)
                /\ IsPrefix(SeedUrl(o.seed).path, o.url.path)
          [] o.seed.mode = "exact" -> Same(o.url, o.seed.url)

(* A seed accepts the page its own URL leads to, so that links back to it  *)
(* are not out of scope.  Not so a value without a scheme whose host has   *)
(* no public suffix, such as localhost:8000: its domain keeps the port.    *)
(* Nor does it if it has a port but no host, as in http://:80/.            *)
Reachable(seed) ==
    /\ seed.url.host # NoHost
    /\ ~(seed.mode = "domain" /\ seed.bare /\ ~HasSuffix(seed.url.host)
           /\ Rest(seed.url) # seed.url.host)
AcceptsItself ==
    \A k \in DOMAIN seeds : SeedUrl(seeds[k]) # NoUrl /\ Reachable(seeds[k]) =>
        \A i \in DOMAIN links :
            Same(links[i], seeds[k].url) /\ i <= tried
               => \E o \in offered : o.url = links[i]

(* Approving a domain that a click has proposed (or importing it) makes a  *)
(* seed that accepts every link it was proposed for, and there is one.     *)
ApprovedSeed(domain) ==
    [mode |-> "domain", bare |-> TRUE,
     url |-> [scheme |-> "https", host |-> domain, caps |-> FALSE, port |-> NoPort,
              rooted |-> FALSE, path |-> <<>>, query |-> NoQuery, frag |-> FALSE]]
LeftFor(d) == {i \in DOMAIN links : Matching(links[i]) = {} /\ Registrable(links[i].host) = d}
ApprovalCovers ==
    \A d \in proposed :
        /\ LeftFor(d) # {}
        /\ \A i \in LeftFor(d) : Matches(Rule(ApprovedSeed(d)), links[i])

=============================================================================
