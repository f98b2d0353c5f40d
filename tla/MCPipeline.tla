----------------------------- MODULE MCPipeline -----------------------------
(* Pipeline for TLC: the callers are interchangeable. *)
EXTENDS Pipeline, TLC

Symmetry == Permutations(Callers)
=============================================================================
