-------------------------- MODULE MCPreviewService --------------------------
(* PreviewService on small sets for TLC.                                     *)
EXTENDS PreviewService, TLC

\* Requests are interchangeable (for safety only).
Symmetry == Permutations(Requests)
=============================================================================
