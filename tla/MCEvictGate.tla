------------------------------ MODULE MCEvictGate ------------------------------
(***************************************************************************)
(* EvictGate for TLC: four pod names, three nodes that only their names    *)
(* tell apart.                                                             *)
(***************************************************************************)
EXTENDS EvictGate, TLC

CONSTANTS n1, n2, n3

NodeSymmetry == Permutations({n1, n2, n3})
=============================================================================
