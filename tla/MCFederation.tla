---------------------------- MODULE MCFederation ----------------------------
(***************************************************************************)
(* A small instance for model-checking Federation: up to five local hits   *)
(* on pages of two, two of which tie; corpora that grow, shrink and are    *)
(* ranked anew; two peers, one of which repeats a local URL.  Each sends a *)
(* hit that is not as it should be, one a null and one a list for a url,   *)
(* which tie, so that it depends on the order of the peers which is shown. *)
(***************************************************************************)
EXTENDS Federation, TLC

CONSTANTS p1, p2

HitOf(url, score) == [url |-> url, score |-> score, form |-> "plain"]
Null == [url |-> "", score |-> 3, form |-> "odd"]
List == [url |-> "list", score |-> 3, form |-> "unhashable"]

Known == {HitOf("a", 4), HitOf("b", 2), HitOf("e", 1)}
SomeCorpora ==
    {{}, {HitOf("a", 4)}, Known, Known \cup {HitOf("f", 3), HitOf("g", 0)},
     {HitOf("a", 1), HitOf("b", 2), HitOf("e", 4)},
     (Known \ {HitOf("e", 1)}) \cup {HitOf("e", 2)}}

Remotes == p1 :> <<HitOf("d", 3), Null>> @@ p2 :> <<HitOf("a", 4), List>>

=============================================================================
