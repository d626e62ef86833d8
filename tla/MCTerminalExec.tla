---------------------------- MODULE MCTerminalExec ----------------------------
(* TerminalExec on small sets for TLC.                                       *)
EXTENDS TerminalExec, TLC

\* Requests are interchangeable.
Symmetry == Permutations(Requests)
===============================================================================
