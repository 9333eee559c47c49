---------------------------- MODULE MCPoliteness ----------------------------
(***************************************************************************)
(* A small instance for model-checking Politeness: two sites of one host.  *)
(***************************************************************************)
EXTENDS Politeness, TLC

CONSTANTS t1, t2, t3, h1, http1, https1

HostOfTwo == http1 :> h1 @@ https1 :> h1

=============================================================================
