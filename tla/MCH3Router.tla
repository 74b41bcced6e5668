----------------------------- MODULE MCH3Router -----------------------------
(***************************************************************************)
(* H3Router on small instances.                                            *)
(***************************************************************************)
EXTENDS H3Router

CONSTANTS c1, c2, c3

=============================================================================
