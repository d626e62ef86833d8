-------------------------- MODULE GithubDemosProofs --------------------------
(***************************************************************************)
(* What holds of the saves of a demo whatever their number, that of the     *)
(* commits of others, the files, the restarts, and the lives and timeouts   *)
(* that ConstantsAssumption allows.                                         *)
(***************************************************************************)
EXTENDS GithubDemos, TLAPS

-----------------------------------------------------------------------------
(* Types.                                                                  *)

Save == [st : Git \union {"new", "token", "asking", "saved", "unchanged", "failed"},
         files : SUBSET Files, token : Nat \union {Nil}, since : Nat, base : Commits \union {Nil}]
Contents == [files : SUBSET Files, past : SUBSET Commits]

\* The type invariant, part by part.
TimeType   == now \in 0 .. MaxTime
CacheType  == cache \in Nat \union {Nil}
HeadType   == head \in Commits \union {Nil}
CommitType == commit \in [Commits -> Contents]
SaveType   == save \in [Saves -> Save]
HasToken   == \A s \in Saves : save[s].st \in Git => save[s].token # Nil

Typed == TimeType /\ CacheType /\ HeadType /\ CommitType /\ SaveType /\ HasToken

\* The parts are together the type invariant of the module.
LEMMA Parted == TypeOK <=> Typed
BY DEF Typed, TypeOK, TimeType, CacheType, HeadType, CommitType, SaveType, HasToken, Save, Contents

\* What a step leaves alone stays typed.
LEMMA Rest ==
  /\ TimeType /\ UNCHANGED now => TimeType'
  /\ CacheType /\ UNCHANGED cache => CacheType'
  /\ HeadType /\ UNCHANGED head => HeadType'
  /\ CommitType /\ UNCHANGED commit => CommitType'
  /\ SaveType /\ UNCHANGED save => SaveType'
  /\ HasToken /\ UNCHANGED save => HasToken'
BY DEF TimeType, CacheType, HeadType, CommitType, SaveType, HasToken

\* The initial states have their types.
LEMMA InitType == Init => Typed
<1> SUFFICES ASSUME Init PROVE Typed
  OBVIOUS
<1>1. NewSave \in Save /\ NoCommit \in Contents
  BY DEF NewSave, Save, NoCommit, Contents
<1> QED  BY <1>1, ConstantsAssumption
   DEF Init, Typed, TimeType, CacheType, HeadType, CommitType, SaveType, HasToken, NewSave, Git

\* A save of the right type, with a token if it is at git, takes the place of another.
LEMMA SaveTyped ==
  ASSUME SaveType, HasToken, NEW s \in Saves, NEW v \in Save, v.st \in Git => v.token # Nil,
         save' = [save EXCEPT ![s] = v]
  PROVE  SaveType' /\ HasToken'
BY DEF SaveType, HasToken

\* The record of a save after a step of its own.
LEMMA GoType ==
  ASSUME Typed, NEW s \in Saves, NEW st \in Git, save[s].token # Nil, Go(s, st)
  PROVE  SaveType' /\ HasToken'
<1>1. save[s] \in Save /\ now \in Nat
  BY ConstantsAssumption DEF Typed, SaveType, TimeType
<1> DEFINE v == [save[s] EXCEPT !.st = st, !.since = now]
<1>2. v \in Save /\ v.token # Nil
  BY <1>1 DEF Save, Git
<1>3. save' = [save EXCEPT ![s] = v]
  BY DEF Go
<1> QED  BY <1>2, <1>3, SaveTyped DEF Typed

LEMMA EndType ==
  ASSUME Typed, NEW s \in Saves, NEW st \in {"saved", "unchanged", "failed"}, End(s, st)
  PROVE  SaveType' /\ HasToken'
<1>1. save[s] \in Save
  BY DEF Typed, SaveType
<1>2. Left(save[s], st) \in Save /\ Left(save[s], st).st \notin Git
  BY <1>1 DEF Save, Git, Left
<1>3. save' = [save EXCEPT ![s] = Left(save[s], st)]
  BY DEF End
<1> QED  BY <1>2, <1>3, SaveTyped DEF Typed

\* The files and the history of a commit.
LEMMA NewCommitType ==
  ASSUME Typed, NEW c \in Commits, NEW f \in SUBSET Files, NEW h \in Commits \union {Nil},
         NewCommit(c, f, h)
  PROVE  CommitType'
<1>1. History(h) \in SUBSET Commits
  BY DEF Typed, CommitType, Contents, History
<1> QED  BY <1>1 DEF Typed, CommitType, Contents, NewCommit

\* The steps of a save before git has looked at the branch.
TokenStep(s) == Export(s) \/ ReuseToken(s) \/ AskToken(s) \/ TokenArrives(s)

LEMMA TokenStepType ==
  ASSUME Typed, NEW s \in Saves, TokenStep(s)
  PROVE  Typed'
<1>1. save[s] \in Save /\ now \in Nat /\ Nil \notin Nat
  BY ConstantsAssumption DEF Typed, SaveType, TimeType
<1>2. CASE Export(s)
  <2>1. PICK f \in (SUBSET Files) \ {{}} : save' = [save EXCEPT ![s].st = "token", ![s].files = f]
    BY <1>2 DEF Export
  <2> DEFINE v == [save[s] EXCEPT !.st = "token", !.files = f]
  <2>2. v \in Save /\ v.st \notin Git
    BY <1>1 DEF Save, Git
  <2>3. SaveType' /\ HasToken'
    BY <2>1, <2>2, SaveTyped DEF Typed
  <2> QED  BY <2>3, <1>2, Rest DEF Typed, Export
<1>3. CASE ReuseToken(s)
  <2> DEFINE v == [save[s] EXCEPT !.st = "look", !.since = now, !.token = cache]
  <2>1. v \in Save /\ v.token # Nil
    BY <1>1, <1>3 DEF Save, Git, ReuseToken, Reusable, Typed, CacheType
  <2>3. save' = [save EXCEPT ![s] = v]
    BY <1>3 DEF ReuseToken
  <2>2. SaveType' /\ HasToken'
    BY <2>1, <2>3, SaveTyped DEF Typed
  <2> QED  BY <2>2, <1>3, Rest DEF Typed, ReuseToken
<1>4. CASE AskToken(s)
  <2>1. PICK t \in {Nil, now + Lifetime} :
          save' = [save EXCEPT ![s].st = "asking", ![s].since = now, ![s].token = t]
    BY <1>4 DEF AskToken
  <2> DEFINE v == [save[s] EXCEPT !.st = "asking", !.since = now, !.token = t]
  <2>2. t \in Nat \union {Nil}
    BY <1>1, ConstantsAssumption
  <2>3. v \in Save /\ v.st \notin Git
    BY <1>1, <2>2 DEF Save, Git
  <2>5. save' = [save EXCEPT ![s] = v]
    BY <2>1
  <2>4. SaveType' /\ HasToken'
    BY <2>3, <2>5, SaveTyped DEF Typed
  <2> QED  BY <2>4, <1>4, Rest DEF Typed, AskToken
<1>5. CASE TokenArrives(s)
  <2>1. CASE save[s].token = Nil
    BY <1>5, <2>1, EndType, Rest DEF TokenArrives, Typed
  <2>2. CASE save[s].token # Nil
    <3>1. CacheType'
      BY <1>1, <1>5, <2>2 DEF TokenArrives, CacheType, Save
    <3>2. SaveType' /\ HasToken'
      BY <1>5, <2>2, GoType DEF TokenArrives, Git
    <3> QED  BY <3>1, <3>2, <1>5, Rest DEF TokenArrives, Typed
  <2> QED  BY <2>1, <2>2
<1> QED  BY <1>2, <1>3, <1>4, <1>5 DEF TokenStep

\* The steps of a save at git.
GitStep(s) == LsRemote(s) \/ Fetch(s) \/ Unchanged(s) \/ Commit(s) \/ Push(s) \/ GitFails(s)

LEMMA GitStepType ==
  ASSUME Typed, NEW s \in Saves, GitStep(s)
  PROVE  Typed'
<1>1. save[s] \in Save /\ s \in Commits
  BY DEF Typed, SaveType, Commits
<1>2. save[s].st \in Git /\ save[s].token # Nil
  BY DEF GitStep, LsRemote, Fetch, Unchanged, Commit, Push, GitFails, At, Git, Typed, HasToken
<1>3. CASE LsRemote(s)
  BY <1>2, <1>3, GoType, Rest DEF LsRemote, Git, Typed
<1>4. CASE Fetch(s)
  <2> DEFINE v == [save[s] EXCEPT !.st = "commit", !.base = head]
  <2>1. v \in Save /\ v.token # Nil
    BY <1>1, <1>2 DEF Save, Git, Typed, HeadType
  <2>2. SaveType' /\ HasToken'
    BY <2>1, <1>4, SaveTyped DEF Typed, Fetch
  <2> QED  BY <2>2, <1>4, Rest DEF Typed, Fetch
<1>5. CASE Unchanged(s) \/ GitFails(s)
  BY <1>5, EndType, Rest DEF Unchanged, GitFails, Typed
<1>6. CASE Commit(s)
  <2>1. CommitType'
    BY <1>1, <1>6, NewCommitType DEF Commit, Save
  <2>2. SaveType' /\ HasToken'
    BY <1>2, <1>6, GoType DEF Commit, Git
  <2> QED  BY <2>1, <2>2, <1>6, Rest DEF Commit, Typed
<1>7. CASE Push(s)
  <2>1. SaveType' /\ HasToken'
    BY <1>7, EndType DEF Push
  <2>2. HeadType'
    BY <1>1, <1>7 DEF Push, HeadType
  <2> QED  BY <2>1, <2>2, <1>7, Rest DEF Push, Typed
<1> QED  BY <1>3, <1>4, <1>5, <1>6, <1>7 DEF GitStep

\* What is around the saves.
LEMMA AroundType ==
  ASSUME Typed, (\E c \in Others : OtherPush(c)) \/ Restart \/ Tick
  PROVE  Typed'
<1>1. CASE \E c \in Others : OtherPush(c)
  <2>1. PICK c \in Others : OtherPush(c)
    BY <1>1
  <2>2. c \in Commits
    BY DEF Commits
  <2>3. CommitType'
    BY <2>1, <2>2, NewCommitType DEF OtherPush, Typed, HeadType
  <2>4. HeadType'
    BY <2>1, <2>2 DEF OtherPush, HeadType
  <2> QED  BY <2>1, <2>3, <2>4, Rest DEF OtherPush, Typed
<1>2. CASE Restart
  <2>1. ASSUME NEW s \in Saves
        PROVE  Left(save[s], "failed") \in Save /\ Left(save[s], "failed").st \notin Git
    BY DEF Typed, SaveType, Save, Left, Git
  <2>2. SaveType' /\ HasToken'
    BY <1>2, <2>1 DEF Restart, Typed, SaveType, HasToken, Git
  <2>3. CacheType'
    BY <1>2 DEF Restart, CacheType
  <2> QED  BY <1>2, <2>2, <2>3, Rest DEF Restart, Typed
<1>3. CASE Tick
  <2>1. TimeType'
    BY <1>3, ConstantsAssumption DEF Tick, TimeType, Typed
  <2> QED  BY <1>3, <2>1, Rest DEF Tick, Typed
<1> QED  BY <1>1, <1>2, <1>3

\* Every step is of one of the groups.
LEMMA Steps ==
  Next <=> \/ \E s \in Saves : TokenStep(s) \/ GitStep(s)
           \/ (\E c \in Others : OtherPush(c)) \/ Restart \/ Tick
BY DEF Next, TokenStep, GitStep

\* Every step keeps the types.
LEMMA NextType == Typed /\ [Next]_vars => Typed'
<1> SUFFICES ASSUME Typed, [Next]_vars PROVE Typed'
  OBVIOUS
<1>1. CASE UNCHANGED vars
  BY <1>1, Rest DEF vars, Typed
<1>2. CASE Next
  BY <1>2, Steps, TokenStepType, GitStepType, AroundType
<1> QED  BY <1>1, <1>2

\* Every variable keeps its type, and no git process starts without a token.
THEOREM GithubTypes == Spec => []TypeOK
<1>1. Spec => []Typed
  BY InitType, NextType, PTL DEF Spec
<1> QED  BY <1>1, Parted, PTL

-----------------------------------------------------------------------------
(* Tokens.                                                                 *)

\* How long the token of a save must be good for: at each stage, for the calls of the
\* network that are left.  A save that waits has not waited longer than it may; the
\* token it is waiting for, if it comes, was issued after it had begun to.
Budget(s) ==
  LET v == save[s] IN
  /\ v.st \in {"asking", "look", "fetch", "push"} => v.since <= now
  /\ v.st = "asking" => /\ now <= v.since + FetchTimeout
                        /\ v.token # Nil => v.token = v.since + Lifetime
  /\ v.st \in {"look", "fetch", "push"} => now <= v.since + GitTimeout
  /\ v.st = "look"   => v.token > v.since + 3 * GitTimeout
  /\ v.st = "fetch"  => v.token > v.since + 2 * GitTimeout
  /\ v.st = "commit" => v.token > now + GitTimeout
  /\ v.st = "push"   => v.token > v.since + GitTimeout

Budgets == \A s \in Saves : Budget(s)

LEMMA BudgetsInit == Init => Budgets
<1> SUFFICES ASSUME Init, NEW s \in Saves PROVE Budget(s)
  BY DEF Budgets
<1>1. save[s].st = "new"
  BY DEF Init, NewSave
<1> QED  BY <1>1 DEF Budget

\* The numbers that the budgets are about.
LEMMA Numbers ==
  ASSUME Typed, NEW s \in Saves
  PROVE  /\ now \in Nat /\ save[s].since \in Nat /\ (save[s].token # Nil => save[s].token \in Nat)
         /\ (cache # Nil => cache \in Nat) /\ Nil \notin Nat
         /\ Lifetime \in Nat /\ Margin \in Nat /\ FetchTimeout \in Nat /\ GitTimeout \in Nat
         /\ Margin >= 3 * GitTimeout /\ Lifetime > Margin + FetchTimeout
         /\ save[s].st \in Git => save[s].token \in Nat
<1>1. save[s] \in Save
  BY DEF Typed, SaveType
<1>2. save[s].since \in Nat /\ save[s].token \in Nat \union {Nil}
  BY <1>1 DEF Save
<1>3. now \in Nat /\ cache \in Nat \union {Nil}
  BY ConstantsAssumption DEF Typed, TimeType, CacheType
<1>4. save[s].st \in Git => save[s].token # Nil
  BY DEF Typed, HasToken
<1>5. Nil \notin Nat
  BY ConstantsAssumption
<1>6. /\ Lifetime \in Nat /\ Margin \in Nat /\ FetchTimeout \in Nat /\ GitTimeout \in Nat
      /\ Margin >= 3 * GitTimeout /\ Lifetime > Margin + FetchTimeout
  BY ConstantsAssumption
<1> QED  BY <1>2, <1>3, <1>4, <1>5, <1>6

\* A step keeps the budget of its own save.
LEMMA OwnBudget ==
  ASSUME Typed, NEW s \in Saves, Budget(s), TokenStep(s) \/ GitStep(s)
  PROVE  Budget(s)'
<1>0. save[s] \in Save /\ now' = now
  BY DEF Typed, SaveType, TokenStep, GitStep, Export, ReuseToken, AskToken, TokenArrives, LsRemote,
         Fetch, Unchanged, Commit, Push, GitFails
<1>1. CASE save'[s].st \in {"new", "token", "saved", "unchanged", "failed"}
  BY <1>1 DEF Budget
<1>2. CASE ReuseToken(s)
  <2>1. save'[s].st = "look" /\ save'[s].since = now /\ save'[s].token = cache
    BY <1>0, <1>2 DEF ReuseToken, Save, Typed, SaveType
  <2>2. cache \in Nat /\ cache - now > Margin
    BY <1>2, Numbers DEF ReuseToken, Reusable
  <2> QED  BY <1>0, <2>1, <2>2, Numbers DEF Budget
<1>3. CASE AskToken(s)
  <2>1. save'[s].st = "asking" /\ save'[s].since = now /\ save'[s].token \in {Nil, now + Lifetime}
    BY <1>0, <1>3 DEF AskToken, Save, Typed, SaveType
  <2> QED  BY <1>0, <2>1, Numbers DEF Budget
<1>4. CASE TokenArrives(s) /\ save[s].token # Nil
  <2>1. save'[s].st = "look" /\ save'[s].since = now /\ save'[s].token = save[s].token
    BY <1>0, <1>4 DEF TokenArrives, Go, Save, Typed, SaveType
  <2>2. now <= save[s].since + FetchTimeout /\ save[s].token = save[s].since + Lifetime
    BY <1>4 DEF Budget, TokenArrives, At
  <2> QED  BY <1>0, <2>1, <2>2, Numbers DEF Budget
<1>5. CASE LsRemote(s)
  <2>1. /\ save'[s].st \in {"fetch", "commit"} /\ save'[s].since = now
        /\ save'[s].token = save[s].token
    BY <1>0, <1>5 DEF LsRemote, Go, Save, Typed, SaveType
  <2>2. now <= save[s].since + GitTimeout /\ save[s].token > save[s].since + 3 * GitTimeout
    BY <1>5 DEF Budget, LsRemote, At
  <2>3. save[s].token \in Nat
    BY <1>5, Numbers DEF LsRemote, At, Git
  <2> QED  BY <1>0, <2>1, <2>2, <2>3, Numbers DEF Budget
<1>6. CASE Fetch(s)
  <2>1. save'[s].st = "commit" /\ save'[s].token = save[s].token
    BY <1>0, <1>6 DEF Fetch, Save, Typed, SaveType
  <2>2. now <= save[s].since + GitTimeout /\ save[s].token > save[s].since + 2 * GitTimeout
    BY <1>6 DEF Budget, Fetch, At
  <2>3. save[s].token \in Nat
    BY <1>6, Numbers DEF Fetch, At, Git
  <2> QED  BY <1>0, <2>1, <2>2, <2>3, Numbers DEF Budget
<1>7. CASE Commit(s)
  <2>1. save'[s].st = "push" /\ save'[s].since = now /\ save'[s].token = save[s].token
    BY <1>0, <1>7 DEF Commit, Go, Save, Typed, SaveType
  <2>2. save[s].token > now + GitTimeout
    BY <1>7 DEF Budget, Commit, At
  <2> QED  BY <1>0, <2>1, <2>2, Numbers DEF Budget
<1>8. ASSUME Export(s) \/ (TokenArrives(s) /\ save[s].token = Nil)
             \/ Unchanged(s) \/ Push(s) \/ GitFails(s)
      PROVE  save'[s].st \in {"token", "saved", "unchanged", "failed"}
  <2>1. save \in [Saves -> Save]
    BY DEF Typed, SaveType
  <2>2. CASE Export(s)
    BY <1>0, <2>1, <2>2 DEF Export, Save
  <2>3. CASE \E st \in {"saved", "unchanged", "failed"} : End(s, st)
    BY <1>0, <2>1, <2>3 DEF End, Left, Save
  <2> QED  BY <1>8, <2>2, <2>3 DEF TokenArrives, Unchanged, Push, GitFails
<1> QED  BY <1>1, <1>2, <1>3, <1>4, <1>5, <1>6, <1>7, <1>8 DEF TokenStep, GitStep

\* A step of one save leaves the others what they are.
LEMMA OtherSaves ==
  ASSUME Typed, NEW s \in Saves, TokenStep(s) \/ GitStep(s)
  PROVE  \A q \in Saves \ {s} : save'[q] = save[q]
<1>1. CASE TokenStep(s)
  BY <1>1 DEF Typed, SaveType, TokenStep, Export, ReuseToken, AskToken, TokenArrives, Go, End
<1>2. CASE GitStep(s)
  BY <1>2 DEF Typed, SaveType, GitStep, LsRemote, Fetch, Unchanged, Commit, Push, GitFails, Go, End
<1> QED  BY <1>1, <1>2

\* Time passes only for calls that have time left, and for no save that is between two.
LEMMA TickBudget ==
  ASSUME Typed, NEW s \in Saves, Budget(s), Tick
  PROVE  Budget(s)'
<1>1. now' = now + 1 /\ save' = save /\ now < Deadline(s)
  BY DEF Tick
<1>2. save[s].st # "commit"
  BY <1>1, Numbers DEF Deadline
<1>3. CASE save[s].st = "asking"
  <2>1. now < save[s].since + FetchTimeout
    BY <1>1, <1>3 DEF Deadline
  <2> QED  BY <1>1, <1>3, <2>1, Numbers DEF Budget
<1>4. CASE save[s].st \in {"look", "fetch", "push"}
  <2>1. now < save[s].since + GitTimeout
    BY <1>1, <1>4 DEF Deadline
  <2> QED  BY <1>1, <1>4, <2>1, Numbers DEF Budget
<1>5. CASE save[s].st \notin {"asking", "look", "fetch", "push"}
  BY <1>1, <1>2, <1>5 DEF Budget
<1> QED  BY <1>3, <1>4, <1>5

LEMMA BudgetsNext == Typed /\ Budgets /\ [Next]_vars => Budgets'
<1> SUFFICES ASSUME Typed, Budgets, [Next]_vars, NEW q \in Saves PROVE Budget(q)'
  BY DEF Budgets
<1>0. Budget(q)
  BY DEF Budgets
<1>1. CASE UNCHANGED <<now, save>>
  BY <1>0, <1>1 DEF Budget
<1>2. CASE \E s \in Saves : TokenStep(s) \/ GitStep(s)
  <2>1. PICK s \in Saves : TokenStep(s) \/ GitStep(s)
    BY <1>2
  <2>2. CASE q = s
    BY <1>0, <2>1, <2>2, OwnBudget
  <2>3. CASE q # s
    <3>1. save'[q] = save[q] /\ now' = now
      BY <2>1, <2>3, OtherSaves DEF TokenStep, GitStep, Export, ReuseToken, AskToken, TokenArrives,
           LsRemote, Fetch, Unchanged, Commit, Push, GitFails
    <3> QED  BY <1>0, <3>1 DEF Budget
  <2> QED  BY <2>2, <2>3
<1>3. CASE Restart
  <2>1. save'[q] = save[q] \/ save'[q].st = "failed"
    BY <1>3 DEF Restart, Left, Typed, SaveType, Save
  <2>2. now' = now
    BY <1>3 DEF Restart
  <2> QED  BY <1>0, <2>1, <2>2 DEF Budget
<1>4. CASE Tick
  BY <1>0, <1>4, TickBudget
<1> QED  BY <1>1, <1>2, <1>3, <1>4, Steps DEF vars, OtherPush

\* "se reusa mientras le queden mas de 5 min": no git process outlives its token.  The
\* margin covers the three calls a save makes, and what the cache holds does not matter
\* once the token was handed out.
THEOREM GithubTokenOutlives == Spec => []TokenOutlives
<1>1. Typed /\ Budgets => TokenOutlives
  <2> SUFFICES ASSUME Typed, Budgets, NEW s \in Saves, save[s].st \in Git
               PROVE  now < save[s].token
    BY DEF TokenOutlives
  <2>1. Budget(s)
    BY DEF Budgets
  <2> QED  BY <2>1, Numbers DEF Budget, Git
<1>2. Typed /\ Budgets /\ [Next]_vars => (Typed /\ Budgets)'
  BY NextType, BudgetsNext
<1>3. Init => Typed /\ Budgets
  BY InitType, BudgetsInit
<1> QED  BY <1>1, <1>2, <1>3, PTL DEF Spec
-----------------------------------------------------------------------------
(* The branch.                                                             *)

\* The stages of a save that has yet to commit.
Early == {"new", "token", "asking", "look", "fetch", "commit"}

\* What is in the history of the branch has been committed, and by no save that has yet
\* to commit: nothing in it is ever written again.
Settled == \A c \in History(head) : commit[c] # NoCommit /\ (c \in Saves => save[c].st \notin Early)

\* What a save works on is in the history of the branch.  Its files are those of a
\* project that has some; its commit, until it is pushed, has those files and the
\* history of what it works on, and changes something; once in the history of the
\* branch, it still does.
Grown(s) ==
  LET v == save[s] IN
  /\ v.base # Nil => v.base \in History(head)
  /\ v.st \in {"token", "asking", "look", "fetch", "commit", "push"} => v.files # {}
  /\ v.st = "push" => /\ commit[s].files = v.files /\ commit[s].past = History(v.base)
                      /\ v.base # Nil => commit[s].files # commit[v.base].files
  /\ v.st = "saved" => s \in History(head) /\ commit[s].files = v.files
  /\ v.st = "unchanged" => v.base # Nil /\ commit[v.base].files = v.files
  /\ s \in History(head) /\ v.base # Nil => commit[s].files # commit[v.base].files

Branch == Settled /\ \A s \in Saves : Grown(s)

LEMMA BranchInit == Init => Branch
<1> SUFFICES ASSUME Init PROVE Branch
  OBVIOUS
<1>1. History(head) = {}
  BY DEF Init, History
<1>2. ASSUME NEW s \in Saves PROVE save[s].st = "new" /\ save[s].base = Nil
  BY DEF Init, NewSave
<1> QED  BY <1>1, <1>2 DEF Branch, Settled, Grown

\* The history of the branch only grows, by the commit that is pushed, and what is in it
\* stays as it was committed.
Grows(new) ==
  /\ History(head)' = History(head) \union new
  /\ \A c \in History(head) : commit'[c] = commit[c]

\* A commit of a save, or of somebody else, takes the place of no other.
LEMMA CommitGrows ==
  ASSUME Typed, Branch, NEW s \in Saves, Commit(s)
  PROVE  Grows({}) /\ \A c \in Commits \ {s} : commit'[c] = commit[c]
<1>1. \A c \in Commits \ {s} : commit'[c] = commit[c]
  BY DEF Commit, NewCommit, Typed, CommitType
<1>2. s \notin History(head) /\ History(head) \subseteq Commits
  BY DEF Branch, Settled, Commit, At, Early, History, Typed, HeadType, CommitType, Contents
<1>3. \A c \in History(head) : commit'[c] = commit[c]
  BY <1>1, <1>2
<1>4. head # Nil => head \in History(head)
  BY DEF History
<1>5. History(head)' = History(head)
  BY <1>3, <1>4 DEF History, Commit
<1> QED  BY <1>1, <1>3, <1>5 DEF Grows

LEMMA OtherGrows ==
  ASSUME Typed, Branch, NEW c \in Others, OtherPush(c)
  PROVE  Grows({c}) /\ (\A d \in Commits \ {c} : commit'[d] = commit[d]) /\ commit'[c] # NoCommit
<1>1. \A d \in Commits \ {c} : commit'[d] = commit[d]
  BY DEF OtherPush, NewCommit, Typed, CommitType
<1>2. c \notin History(head) /\ History(head) \subseteq Commits
  BY DEF Branch, Settled, OtherPush, History, Typed, HeadType, CommitType, Contents
<1>3. \A d \in History(head) : commit'[d] = commit[d]
  BY <1>1, <1>2
<1>4. c \in Commits /\ c # Nil
  BY ConstantsAssumption DEF Commits
<1>5. commit'[c].past = History(head) /\ head' = c
  BY <1>4 DEF OtherPush, NewCommit, Typed, CommitType
<1>6. History(head)' = History(head) \union {c}
  BY <1>4, <1>5 DEF History
<1>7. head \in commit'[c].past
  BY <1>5 DEF OtherPush, History
<1>8. commit'[c] # NoCommit
  BY <1>7 DEF NoCommit
<1> QED  BY <1>1, <1>3, <1>6, <1>8 DEF Grows

LEMMA PushGrows ==
  ASSUME Typed, Branch, NEW s \in Saves, Push(s)
  PROVE  Grows({s}) /\ commit' = commit
<1>1. commit[s].past = History(head) /\ head' = s /\ commit' = commit
  BY DEF Push, At, Branch, Grown
<1>2. s # Nil
  BY ConstantsAssumption DEF Commits
<1>3. History(head)' = History(head) \union {s}
  BY <1>1, <1>2 DEF History
<1> QED  BY <1>1, <1>3 DEF Grows

\* Whatever the step: who pushes is one save, or nobody of them.
LEMMA StepGrows ==
  ASSUME Typed, Branch, [Next]_vars
  PROVE  \/ Grows({}) /\ commit' = commit /\ head' = head
         \/ \E s \in Saves : Commit(s) /\ Grows({})
         \/ \E s \in Saves : Push(s) /\ Grows({s})
         \/ \E c \in Others : OtherPush(c) /\ Grows({c})
<1>1. CASE UNCHANGED <<commit, head>>
  BY <1>1 DEF Grows, History
<1>2. CASE \E s \in Saves : Commit(s)
  BY <1>2, CommitGrows
<1>3. CASE \E s \in Saves : Push(s)
  BY <1>3, PushGrows
<1>4. CASE \E c \in Others : OtherPush(c)
  BY <1>4, OtherGrows
<1> QED  BY <1>1, <1>2, <1>3, <1>4
   DEF Next, vars, Export, ReuseToken, AskToken, TokenArrives, LsRemote, Fetch, Unchanged,
       GitFails, Restart, Tick

\* What a save keeps of what it has: a step of another one, or around it, leaves it as it
\* is or answers it with a failure.
LEMMA Shape ==
  ASSUME Typed, [Next]_vars, NEW q \in Saves
  PROVE  \/ TokenStep(q) \/ GitStep(q)
         \/ save'[q] = save[q]
         \/ /\ save'[q].st = "failed" /\ save'[q].base = save[q].base
            /\ save'[q].files = save[q].files
<1>1. CASE UNCHANGED save
  BY <1>1
<1>2. CASE \E s \in Saves : TokenStep(s) \/ GitStep(s)
  BY <1>2, OtherSaves
<1>3. CASE Restart
  BY <1>3 DEF Restart, Left, Typed, SaveType, Save
<1> QED  BY <1>1, <1>2, <1>3, Steps DEF vars, OtherPush, Tick

\* A save whose base and files and stage stay, or that has failed, is none the worse for
\* a branch that has grown by the commit of another.
LEMMA Unharmed ==
  ASSUME Typed, Branch, NEW q \in Saves, NEW new, Grows(new), q \notin new,
         save'[q].base = save[q].base, save'[q].files = save[q].files,
         save'[q].st = save[q].st \/ save'[q].st = "failed",
         commit'[q] = commit[q]
  PROVE  Grown(q)'
<1>1. Grown(q)
  BY DEF Branch
<1> DEFINE b == save[q].base
<1>2. b # Nil => b \in History(head) /\ commit'[b] = commit[b] /\ b \in History(head)'
  BY <1>1 DEF Grown, Grows
<1>3. q \in History(head)' <=> q \in History(head)
  BY DEF Grows
<1>4. (IF b = Nil THEN {} ELSE commit'[b].past \union {b}) = History(b)
  BY <1>2 DEF History
<1>5. save'[q].base = b
  OBVIOUS
<1> HIDE DEF b
<1> QED  BY <1>1, <1>2, <1>3, <1>4, <1>5 DEF Grown, History, b

\* A step of its own keeps a save grown.
LEMMA TokenGrown ==
  ASSUME Typed, Branch, NEW s \in Saves, TokenStep(s)
  PROVE  Grown(s)'
<1>1. save[s].st \in Early /\ UNCHANGED <<head, commit>>
  BY DEF TokenStep, Export, ReuseToken, AskToken, TokenArrives, At, Early
<1>2. s \notin History(head)
  BY <1>1 DEF Branch, Settled
<1>3. save[s] \in Save /\ save \in [Saves -> Save]
  BY DEF Typed, SaveType
<1>4. save[s].files # {} \/ save[s].st = "new"
  BY DEF TokenStep, Export, ReuseToken, AskToken, TokenArrives, At, Branch, Grown
<1>5. /\ save'[s].base = save[s].base /\ save'[s].st \in {"token", "asking", "look", "failed"}
      /\ save'[s].files # {} \/ save'[s].st = "failed"
  <2>1. CASE Export(s)
    BY <1>3, <2>1 DEF Export, Save
  <2>2. CASE ReuseToken(s)
    BY <1>3, <1>4, <2>2 DEF ReuseToken, At, Save
  <2>3. CASE AskToken(s)
    BY <1>3, <1>4, <2>3 DEF AskToken, At, Save
  <2>4. CASE TokenArrives(s)
    <3>1. CASE save[s].token = Nil
      <4>1. save'[s] = Left(save[s], "failed")
        BY <1>3, <2>4, <3>1 DEF TokenArrives, End
      <4>2. Left(save[s], "failed").base = save[s].base /\ Left(save[s], "failed").st = "failed"
        BY <1>3 DEF Left, Save
      <4> QED  BY <4>1, <4>2
    <3>2. CASE save[s].token # Nil
      BY <1>3, <1>4, <2>4, <3>2 DEF TokenArrives, At, Go, Save
    <3> QED  BY <3>1, <3>2
  <2> QED  BY <2>1, <2>2, <2>3, <2>4 DEF TokenStep
<1> QED  BY <1>1, <1>2, <1>5 DEF Branch, Grown, History

LEMMA GitGrown ==
  ASSUME Typed, Branch, NEW s \in Saves, GitStep(s)
  PROVE  Grown(s)'
<1>0. Grown(s) /\ save[s] \in Save /\ save \in [Saves -> Save] /\ s \in Commits
  BY DEF Branch, Typed, SaveType, Commits
<1>1. ASSUME save[s].st \in Early PROVE s \notin History(head)
  BY <1>1 DEF Branch, Settled
<1>2. CASE LsRemote(s)
  <2>1. /\ save'[s].base = save[s].base /\ save'[s].files = save[s].files
        /\ save'[s].st \in {"fetch", "commit"}
    BY <1>0, <1>2 DEF LsRemote, Go, Save
  <2>2. s \notin History(head) /\ UNCHANGED <<head, commit>> /\ save[s].st = "look"
    BY <1>1, <1>2 DEF LsRemote, At, Early
  <2> QED  BY <1>0, <2>1, <2>2 DEF Grown, History
<1>3. CASE Fetch(s)
  <2>1. save'[s].base = head /\ save'[s].files = save[s].files /\ save'[s].st = "commit"
    BY <1>0, <1>3 DEF Fetch, Save
  <2>2. s \notin History(head) /\ UNCHANGED <<head, commit>> /\ save[s].st = "fetch"
    BY <1>1, <1>3 DEF Fetch, At, Early
  <2> QED  BY <1>0, <2>1, <2>2 DEF Grown, History
<1>4. CASE Unchanged(s)
  <2>1. save'[s].base = save[s].base /\ save'[s].files = save[s].files /\ save'[s].st = "unchanged"
    BY <1>0, <1>4 DEF Unchanged, End, Left, Save
  <2>2. s \notin History(head) /\ UNCHANGED <<head, commit>> /\ Same(s)
    BY <1>1, <1>4 DEF Unchanged, At, Early
  <2> QED  BY <1>0, <2>1, <2>2 DEF Grown, History, Same
<1>5. CASE Commit(s)
  <2>1. save'[s].base = save[s].base /\ save'[s].files = save[s].files /\ save'[s].st = "push"
    BY <1>0, <1>5 DEF Commit, Go, Save
  <2>2. s \notin History(head) /\ save[s].files # {}
    BY <1>0, <1>1, <1>5 DEF Commit, At, Early, Grown
  <2>3. commit'[s].files = save[s].files /\ commit'[s].past = History(save[s].base)
    BY <1>0, <1>5 DEF Commit, NewCommit, Typed, CommitType
  <2>4. Grows({})
    BY <1>5, CommitGrows
  <2> DEFINE b == save[s].base
  <2>5. b # Nil => b \in History(head) /\ commit'[b] = commit[b] /\ b \in History(head)'
    BY <1>0, <2>4 DEF Grown, Grows
  <2>6. (IF b = Nil THEN {} ELSE commit'[b].past \union {b}) = History(b)
    BY <2>5 DEF History
  <2>7. b # Nil => save[s].files # commit[b].files
    BY <1>5 DEF Commit, Same
  <2>8. s \notin History(head)'
    BY <2>2, <2>4 DEF Grows
  <2>9. save'[s].base = b
    BY <2>1
  <2> HIDE DEF b
  <2> QED  BY <2>1, <2>2, <2>3, <2>5, <2>6, <2>7, <2>8, <2>9 DEF Grown, History, b
<1>6. CASE Push(s)
  <2>1. /\ save'[s].base = save[s].base /\ save'[s].files = save[s].files
        /\ save'[s].st \in {"saved", "failed"}
    BY <1>0, <1>6 DEF Push, End, Left, Save
  <2>2. commit' = commit /\ Grows({s}) /\ save[s].st = "push"
    BY <1>6, PushGrows DEF Push, At
  <2> QED  BY <1>0, <2>1, <2>2 DEF Grown, Grows
<1>7. CASE GitFails(s)
  <2>1. save'[s].base = save[s].base /\ save'[s].files = save[s].files /\ save'[s].st = "failed"
    BY <1>0, <1>7 DEF GitFails, End, Left, Save
  <2>2. UNCHANGED <<head, commit>>
    BY <1>7 DEF GitFails
  <2> QED  BY <1>0, <2>1, <2>2 DEF Grown, History
<1> QED  BY <1>2, <1>3, <1>4, <1>5, <1>6, <1>7 DEF GitStep

LEMMA GrownNext ==
  ASSUME Typed, Branch, [Next]_vars, NEW q \in Saves
  PROVE  Grown(q)'
<1>1. CASE TokenStep(q) \/ GitStep(q)
  BY <1>1, TokenGrown, GitGrown
<1>2. CASE ~(TokenStep(q) \/ GitStep(q))
  <2>1. /\ save'[q].base = save[q].base /\ save'[q].files = save[q].files
        /\ save'[q].st = save[q].st \/ save'[q].st = "failed"
    BY <1>2, Shape
  <2>2. q \in Commits /\ q \notin Others
    BY ConstantsAssumption DEF Commits
  <2>3. ~Commit(q) /\ ~Push(q)
    BY <1>2 DEF GitStep
  <2>4. CASE Grows({}) /\ commit' = commit
    BY <2>1, <2>4, Unharmed
  <2>5. CASE \E s \in Saves : Commit(s) /\ Grows({})
    BY <2>1, <2>2, <2>3, <2>5, CommitGrows, Unharmed
  <2>6. CASE \E s \in Saves : Push(s) /\ Grows({s})
    BY <2>1, <2>3, <2>6, PushGrows, Unharmed
  <2>7. CASE \E c \in Others : OtherPush(c) /\ Grows({c})
    BY <2>1, <2>2, <2>7, OtherGrows, Unharmed
  <2> QED  BY <2>4, <2>5, <2>6, <2>7, StepGrows
<1> QED  BY <1>1, <1>2

\* A save that has committed never commits again.
LEMMA LateStays ==
  ASSUME Typed, [Next]_vars, NEW q \in Saves, save[q].st \notin Early
  PROVE  save'[q].st \notin Early
<1>1. CASE TokenStep(q) \/ GitStep(q)
  <2>1. Push(q) \/ GitFails(q)
    BY <1>1 DEF TokenStep, GitStep, Export, ReuseToken, AskToken, TokenArrives, LsRemote, Fetch,
         Unchanged, Commit, At, Early
  <2> QED  BY <2>1 DEF Push, GitFails, End, Left, Early, Typed, SaveType, Save
<1> QED  BY <1>1, Shape DEF Early

LEMMA SettledNext ==
  ASSUME Typed, Branch, [Next]_vars
  PROVE  Settled'
<1> SUFFICES ASSUME NEW c \in History(head)'
             PROVE  commit'[c] # NoCommit /\ (c \in Saves => save'[c].st \notin Early)
  BY DEF Settled
<1>1. CASE c \in History(head)
  <2>1. commit'[c] = commit[c]
    BY <1>1, StepGrows DEF Grows
  <2> QED  BY <1>1, <2>1, LateStays DEF Branch, Settled
<1>2. CASE Push(c) /\ c \in Saves
  <2>1. commit'[c] = commit[c] /\ commit[c].files # {}
    BY <1>2 DEF Push, At, Branch, Grown
  <2>2. save[c].st \notin Early
    BY <1>2 DEF Push, At, Early
  <2> QED  BY <1>2, <2>1, <2>2, LateStays DEF NoCommit
<1>3. CASE c \in Others /\ OtherPush(c)
  BY <1>3, OtherGrows, ConstantsAssumption
<1>4. c \in History(head) \/ (Push(c) /\ c \in Saves) \/ (c \in Others /\ OtherPush(c))
  BY StepGrows DEF Grows
<1> QED  BY <1>1, <1>2, <1>3, <1>4

LEMMA BranchNext == Typed /\ Branch /\ [Next]_vars => Branch'
BY SettledNext, GrownNext DEF Branch

\* The types and the branch together are inductive.
LEMMA SpecBranch == Spec => [](Typed /\ Branch)
<1>1. Init => Typed /\ Branch
  BY InitType, BranchInit
<1>2. Typed /\ Branch /\ [Next]_vars => (Typed /\ Branch)'
  BY NextType, BranchNext
<1> QED  BY <1>1, <1>2, PTL DEF Spec

\* "Sin --force: una actualizacion es un commit encima": what an answered save names stays
\* in the history of the branch with the files of the project, and no save adds a commit
\* that changes nothing.
THEOREM GithubSavedStays == Spec => []SavedStays
<1>1. Branch => SavedStays
  BY DEF Branch, Grown, SavedStays
<1> QED  BY <1>1, SpecBranch, PTL

\* Whatever saves, the owner and restarts do, no step takes a commit out of the history of
\* the branch or changes one that is in it: what a save that was not answered has pushed,
\* and what the owner has, stay as well.
THEOREM GithubOnlyForward ==
  Spec => [][/\ History(head) \subseteq History(head)'
             /\ \A c \in History(head) : commit'[c] = commit[c]]_vars
<1>1. ASSUME Typed, Branch, [Next]_vars
      PROVE  [/\ History(head) \subseteq History(head)'
              /\ \A c \in History(head) : commit'[c] = commit[c]]_vars
  BY <1>1, StepGrows DEF Grows
<1> QED  BY <1>1, SpecBranch, PTL DEF Spec
=============================================================================
