------------------------------ MODULE MCCodeRun ------------------------------
(* CodeRun on small sets for TLC.                                            *)
EXTENDS CodeRun, TLC

\* Runs are interchangeable.
Symmetry == Permutations(Runs)
==============================================================================
