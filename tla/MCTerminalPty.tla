---------------------------- MODULE MCTerminalPty ----------------------------
(* TerminalPty on small sets for TLC.                                        *)
EXTENDS TerminalPty, TLC

\* Subscribers are interchangeable, and so are sessions.
Symmetry == Permutations(Subscribers) \union Permutations(Sessions)
==============================================================================
