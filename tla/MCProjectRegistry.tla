-------------------------- MODULE MCProjectRegistry --------------------------
(***************************************************************************)
(* Instances of ProjectRegistry for TLC.                                   *)
(***************************************************************************)
EXTENDS ProjectRegistry

CONSTANTS c1, c2, k1, k2
=============================================================================
