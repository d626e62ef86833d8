----------------------------- MODULE GithubDemos -----------------------------
(***************************************************************************)
(* github-demos.service.ts, save, with the token of github-app.service.ts   *)
(* and the git processes of git-runner.ts: a demo is saved as a commit on   *)
(* top of its branch.  Nothing keeps two saves of one demo apart, nor the   *)
(* owner from pushing to the branch; the branch itself only moves forward.  *)
(* What a save does to its own working copy between two calls of the        *)
(* network is one step, and takes no time that counts.  One repository and  *)
(* one branch: saves of others share the token, which tells them nothing.   *)
(***************************************************************************)
EXTENDS Integers

CONSTANTS
  Saves,         \* saves there are, and the commits they make
  Others,        \* commits that somebody else makes
  Nil,
  Files,         \* files a project can have
  Lifetime,      \* of a token, from the moment GitHub issues it
  Margin,        \* TOKEN_REUSE_MARGIN_MS
  FetchTimeout,  \* of the call that asks for a token
  GitTimeout,    \* of a git process: DEFAULT_TIMEOUT_MS
  MaxTime        \* bound

Commits == Saves \union Others

\* A save calls the network three times: ls-remote, fetch, push.
ASSUME ConstantsAssumption ==
  /\ {Lifetime, Margin, FetchTimeout, GitTimeout, MaxTime} \subseteq Nat
  /\ Nil \notin Commits \union Nat /\ Saves \intersect Others = {}
  /\ Margin >= 3 * GitTimeout /\ Lifetime > Margin + FetchTimeout

VARIABLES
  now,
  cache,     \* when the cached token of the repository expires
  head,      \* the commit the branch is at
  commit,    \* commit -> its files and the commits before it
  save       \* save -> its stage, what it has read, and its token

vars == <<now, cache, head, commit, save>>

\* since: when the call it waits for began; token: when its token expires; base: the
\* commit it works on, Nil for a branch that does not exist.
NewSave == [st |-> "new", files |-> {}, token |-> Nil, since |-> 0, base |-> Nil]
NoCommit == [files |-> {}, past |-> {}]

Init ==
  /\ now = 0 /\ cache = Nil /\ head = Nil
  /\ commit = [c \in Commits |-> NoCommit]
  /\ save = [s \in Saves |-> NewSave]

-----------------------------------------------------------------------------

At(s, st) == save[s].st = st
Go(s, st) == save' = [save EXCEPT ![s].st = st, ![s].since = now]

\* It has been answered, or dropped: the token is let go of.
Left(v, st) == [v EXCEPT !.st = st, !.since = 0, !.token = Nil]
End(s, st)  == save' = [save EXCEPT ![s] = Left(@, st)]

\* The history of the branch at h.
History(h) == IF h = Nil THEN {} ELSE commit[h].past \union {h}

NewCommit(c, files, h) == commit' = [commit EXCEPT ![c] = [files |-> files, past |-> History(h)]]

\* exportFiles; a demo without files is refused.
Export(s) ==
  /\ At(s, "new")
  /\ \E f \in (SUBSET Files) \ {{}} : save' = [save EXCEPT ![s].st = "token", ![s].files = f]
  /\ UNCHANGED <<now, cache, head, commit>>

-----------------------------------------------------------------------------
(* installationToken.                                                      *)

\* Mutant: a token is used for as long as it is valid.
ReusableToTheEnd == cache # Nil /\ cache > now

Reusable == cache # Nil /\ cache - now > Margin

ReuseToken(s) ==
  /\ At(s, "token") /\ Reusable
  /\ save' = [save EXCEPT ![s].st = "look", ![s].since = now, ![s].token = cache]
  /\ UNCHANGED <<now, cache, head, commit>>

\* GitHub issues a token, or does not; the answer is on its way.
AskToken(s) ==
  /\ At(s, "token") /\ ~Reusable
  /\ \E t \in {Nil, now + Lifetime} :
       save' = [save EXCEPT ![s].st = "asking", ![s].since = now, ![s].token = t]
  /\ UNCHANGED <<now, cache, head, commit>>

\* Mutant: an answer without a token is taken for one.
TokenTaken(s) ==
  /\ At(s, "asking")
  /\ cache' = save[s].token
  /\ Go(s, "look")
  /\ UNCHANGED <<now, head, commit>>

\* The last answer to arrive is the one that is kept.
TokenArrives(s) ==
  /\ At(s, "asking")
  /\ IF save[s].token = Nil THEN End(s, "failed") /\ UNCHANGED cache
     ELSE Go(s, "look") /\ cache' = save[s].token
  /\ UNCHANGED <<now, head, commit>>

-----------------------------------------------------------------------------
(* git.                                                                    *)

LsRemote(s) ==
  /\ At(s, "look")
  /\ Go(s, IF head = Nil THEN "commit" ELSE "fetch")
  /\ UNCHANGED <<now, cache, head, commit>>

\* fetch and checkout: the branch may have moved since ls-remote.
Fetch(s) ==
  /\ At(s, "fetch")
  /\ save' = [save EXCEPT ![s].st = "commit", ![s].base = head]
  /\ UNCHANGED <<now, cache, head, commit>>

\* The index, which has the files of the project and no others, is that of the branch.
Same(s) == save[s].base # Nil /\ save[s].files = commit[save[s].base].files

Unchanged(s) ==
  /\ At(s, "commit") /\ Same(s)
  /\ End(s, "unchanged")
  /\ UNCHANGED <<now, cache, head, commit>>

Commit(s) ==
  /\ At(s, "commit") /\ ~Same(s)
  /\ NewCommit(s, save[s].files, save[s].base)
  /\ Go(s, "push")
  /\ UNCHANGED <<now, cache, head>>

\* Mutant: the branch is overwritten.
PushForced(s) ==
  /\ At(s, "push")
  /\ head' = s
  /\ \E st \in {"saved", "failed"} : End(s, st)
  /\ UNCHANGED <<now, cache, commit>>

\* The push moves the branch forward from where the save found it; its answer may be lost.
Push(s) ==
  /\ At(s, "push") /\ head = save[s].base
  /\ head' = s
  /\ \E st \in {"saved", "failed"} : End(s, st)
  /\ UNCHANGED <<now, cache, commit>>

\* A call fails, is refused or runs into its timeout: the push, if the branch has moved.
GitFails(s) ==
  /\ save[s].st \in {"look", "fetch", "commit", "push"}
  /\ End(s, "failed")
  /\ UNCHANGED <<now, cache, head, commit>>

-----------------------------------------------------------------------------
(* Around it.                                                              *)

\* Somebody else commits on top of the branch.
OtherPush(c) ==
  /\ commit[c] = NoCommit /\ head # Nil
  /\ \E f \in SUBSET Files : NewCommit(c, f, head)
  /\ head' = c
  /\ UNCHANGED <<now, cache, save>>

\* The Executor restarts: what it was saving is dropped, and the cache is empty.
Restart ==
  /\ cache' = Nil
  /\ save' = [s \in Saves |-> IF save[s].st \in {"new", "saved", "unchanged", "failed"} THEN save[s]
                              ELSE Left(save[s], "failed")]
  /\ UNCHANGED <<now, head, commit>>

Deadline(s) ==
  CASE save[s].st = "asking"                    -> save[s].since + FetchTimeout
    [] save[s].st \in {"look", "fetch", "push"} -> save[s].since + GitTimeout
    [] save[s].st \in {"token", "commit"}       -> now
    [] OTHER                                    -> MaxTime

\* No call outlasts its timeout.
Tick ==
  /\ now < MaxTime /\ \A s \in Saves : now < Deadline(s)
  /\ now' = now + 1
  /\ UNCHANGED <<cache, head, commit, save>>

Next ==
  \/ \E s \in Saves :
       \/ Export(s) \/ ReuseToken(s) \/ AskToken(s) \/ TokenArrives(s)
       \/ LsRemote(s) \/ Fetch(s) \/ Unchanged(s) \/ Commit(s) \/ Push(s) \/ GitFails(s)
  \/ \E c \in Others : OtherPush(c)
  \/ Restart \/ Tick

Spec == Init /\ [][Next]_vars

-----------------------------------------------------------------------------
(* Properties.                                                             *)

Git == {"look", "fetch", "commit", "push"}

\* Every variable has its type, and no git process starts without a token.
TypeOK ==
  /\ now \in 0 .. MaxTime /\ cache \in Nat \union {Nil} /\ head \in Commits \union {Nil}
  /\ commit \in [Commits -> [files : SUBSET Files, past : SUBSET Commits]]
  /\ save \in [Saves -> [st : Git \union {"new", "token", "asking", "saved", "unchanged", "failed"},
                         files : SUBSET Files, token : Nat \union {Nil}, since : Nat,
                         base : Commits \union {Nil}]]
  /\ \A s \in Saves : save[s].st \in Git => save[s].token # Nil

\* "Sin --force: una actualizacion es un commit encima": the commit that an answered save
\* names has exactly the files of the project, is in the history of the branch for good,
\* whatever other saves and the owner push at the same time, and no commit of a save
\* repeats the files it was put on top of, so that a save repeated because its answer was
\* lost adds nothing.
SavedStays ==
  \A s \in Saves :
    /\ save[s].st = "saved" => s \in History(head) /\ commit[s].files = save[s].files
    /\ save[s].st = "unchanged" =>
         save[s].base \in History(head) /\ commit[save[s].base].files = save[s].files
    /\ s \in History(head) /\ save[s].base # Nil => commit[s].files # commit[save[s].base].files

\* "se reusa mientras le queden mas de 5 min": a token is valid for as long as a git
\* process of the save that was given it uses it, cached or not, even if it was given a
\* moment before the margin.
TokenOutlives ==
  \A s \in Saves : save[s].st \in Git => now < save[s].token
=============================================================================
