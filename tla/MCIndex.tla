------------------------------ MODULE MCIndex -------------------------------
(***************************************************************************)
(* A small corpus for model-checking Index: two pages, and two texts that  *)
(* link to one of them each, so that a page may link to itself.            *)
(***************************************************************************)
EXTENDS Index, TLC

CONSTANTS a, b, x1, x2

TextLinks == x1 :> {b} @@ x2 :> {a}

=============================================================================
