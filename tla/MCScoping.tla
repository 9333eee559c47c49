----------------------------- MODULE MCScoping ------------------------------
(***************************************************************************)
(* Pages, anchors and seeds for model-checking Scoping.  The anchors write *)
(* few resources in many ways; the hosts are one domain with a subdomain,  *)
(* one whose name goes on where the first ends, one under a suffix of two  *)
(* labels and one without a public suffix.                                 *)
(***************************************************************************)
EXTENDS Scoping, TLC

A == <<"a", ".com">>
BlogA == <<"blog.", "a", ".com">>
Longer == <<"a", ".com", ".uk">>
B == <<"b", ".co", ".uk">>
C == <<"c", ".co", ".uk">>
Local == <<"localhost">>

PublicSuffixes == {<<".com">>, <<".uk">>, <<".co", ".uk">>}

HostLabels == {"a", "b", "c", "blog.", ".com", ".co", ".uk", "localhost"}
KnownPorts == {":80", ":443", ":8000"}
Slashes == {"/", "/docs", "/p", "/x.PDF"}
PathSegments == Slashes \cup {"x"}
KnownQueries == {"?q"}

At(host, path) == [scheme |-> "https", host |-> host, caps |-> FALSE,
                   port |-> NoPort, rooted |-> TRUE, path |-> path,
                   query |-> NoQuery, frag |-> FALSE]
Relative(path) == [At(NoHost, path) EXCEPT !.scheme = "", !.rooted = FALSE]

SomePages == {At(A, <<"/docs", "/p">>), [At(A, <<"/">>) EXCEPT !.query = "?q"]}

SomeHrefs == {
    At(A, <<>>), [At(A, <<"/">>) EXCEPT !.caps = TRUE, !.port = ":443"],
    [At(A, <<>>) EXCEPT !.scheme = "http", !.port = ":80", !.frag = TRUE],
    [At(A, <<"/">>) EXCEPT !.port = ":80"],
    At(A, <<"/docs", "/p">>), At(A, <<"/docs", "x">>), At(A, <<"/x.PDF">>),
    [Relative(<<"/docs">>) EXCEPT !.rooted = TRUE],
    Relative(<<"/p">>), [Relative(<<>>) EXCEPT !.frag = TRUE],
    [Relative(<<>>) EXCEPT !.query = "?q"],
    [At(BlogA, <<>>) EXCEPT !.scheme = ""],
    At(Longer, <<"/docs">>), At(B, <<"/">>), At(C, <<>>),
    At(Local, <<"/">>), [At(Local, <<>>) EXCEPT !.port = ":8000"],
    [At(NoHost, <<"/">>) EXCEPT !.scheme = "http", !.port = ":80"],
    [At(A, <<"/">>) EXCEPT !.scheme = "mailto"] }

Bare(host, mode) == [mode |-> mode, bare |-> TRUE, url |-> At(host, <<>>)]
Full(url, mode) == [mode |-> mode, bare |-> FALSE, url |-> url]

SomeSeeds == {
    Bare(A, "domain"), Bare(A, "prefix"), Bare(A, "exact"),
    Full(At(A, <<"/docs">>), "prefix"), Full(At(BlogA, <<>>), "domain"),
    Bare(B, "domain"), Full([At(Local, <<>>) EXCEPT !.port = ":8000"], "domain"),
    [Bare(Local, "domain") EXCEPT !.url.port = ":8000"],
    Full([At(NoHost, <<"/">>) EXCEPT !.scheme = "http", !.port = ":80"], "prefix") }

PairsOfSeeds == [1..2 -> SomeSeeds]

=============================================================================
