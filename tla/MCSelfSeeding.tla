--------------------------- MODULE MCSelfSeeding ----------------------------
(***************************************************************************)
(* Small instances for model-checking SelfSeeding: pages that link to one  *)
(* or to two foreign domains.                                              *)
(***************************************************************************)
EXTENDS SelfSeeding

CONSTANTS d1, d2, q1, q2, q3

Pages == {{d1}, {d1, d2}}

=============================================================================
