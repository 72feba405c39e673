----------------------- MODULE MCWorkbenchConnections -----------------------
(***************************************************************************)
(* Instances of WorkbenchConnections for TLC.                              *)
(***************************************************************************)
EXTENDS WorkbenchConnections, TLC

CONSTANTS c1, c2, r1, r2, b1, b2, b3, q1

\* Where no connection lags or leaves and no root changes, all are alike.
Symmetry == Permutations(Conns) \cup Permutations(Roots) \cup Permutations(Binds)
=============================================================================
