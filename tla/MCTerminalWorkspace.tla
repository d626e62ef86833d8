------------------------- MODULE MCTerminalWorkspace -------------------------
(* TerminalWorkspace on small sets for TLC.                                  *)
EXTENDS TerminalWorkspace, TLC

\* Workspaces and requests are interchangeable (for safety only).
Symmetry == Permutations(Workspaces) \union Permutations(Requests)
==============================================================================
