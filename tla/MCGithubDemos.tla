---------------------------- MODULE MCGithubDemos ----------------------------
(* GithubDemos on small sets for TLC.                                        *)
EXTENDS GithubDemos, TLC

\* Saves and files are interchangeable.
Symmetry == Permutations(Saves) \union Permutations(Files)
==============================================================================
