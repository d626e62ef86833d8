----------------------------- MODULE MCPodScripts -----------------------------
(* PodScripts on small sets for TLC.                                         *)
EXTENDS PodScripts, TLC

\* Calls are interchangeable.
Symmetry == Permutations(Calls)
===============================================================================
