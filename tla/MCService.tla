----------------------------- MODULE MCService ------------------------------
(***************************************************************************)
(* A small deployment for model-checking Service: the worker container, a  *)
(* background crawl that is capped at one page, and one ranking by hand.   *)
(***************************************************************************)
EXTENDS Service, TLC

CONSTANTS a, b, c, worker, web

SomeFinds == a :> {b} @@ b :> {a} @@ c :> {b}
CapWeb == worker :> NoLimit @@ web :> 1

=============================================================================
