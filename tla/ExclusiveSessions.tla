--------------------------- MODULE ExclusiveSessions ---------------------------
(***************************************************************************)
(* What a workspace's interactive terminal promises ("una sesion por        *)
(* workspace"): a session takes a workspace that nobody has, keeps it, and  *)
(* gives it back once and for all.                                         *)
(***************************************************************************)
CONSTANTS Workspaces, Sessions, Nil

VARIABLES
  owns,    \* session -> the workspace it has, or Nil
  spent    \* sessions that gave theirs back

vars == <<owns, spent>>

Init ==
  /\ owns = [s \in Sessions |-> Nil]
  /\ spent = {}

Take(s, w) ==
  /\ owns[s] = Nil /\ s \notin spent
  /\ \A t \in Sessions : owns[t] # w
  /\ owns' = [owns EXCEPT ![s] = w]
  /\ UNCHANGED spent

GiveBack(s) ==
  /\ owns[s] # Nil
  /\ owns' = [owns EXCEPT ![s] = Nil]
  /\ spent' = spent \union {s}

\* A shutdown gives everything back at once.
GiveAllBack(S) ==
  /\ S # {} /\ \A s \in S : owns[s] # Nil
  /\ owns' = [s \in Sessions |-> IF s \in S THEN Nil ELSE owns[s]]
  /\ spent' = spent \union S

Next ==
  \/ \E s \in Sessions : GiveBack(s) \/ \E w \in Workspaces : Take(s, w)
  \/ \E S \in SUBSET Sessions : GiveAllBack(S)

Spec == Init /\ [][Next]_vars
================================================================================
