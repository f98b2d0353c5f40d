----------------------------- MODULE MCPlcPoller -----------------------------
(* PlcPoller with two groups of at most two items. *)
EXTENDS PlcPoller, TLC

CONSTANTS main, other, g1, g2


Sym == Permutations({g1, g2})
=============================================================================
