--------------------------- MODULE MCModelOperation ---------------------------
(***************************************************************************)
(* Instances of ModelOperation for TLC: the callers, threads and           *)
(* operations of its configurations.                                       *)
(***************************************************************************)
EXTENDS ModelOperation

CONSTANTS s1, s2, b1, l1, l2, c1, c2, w1
=============================================================================
