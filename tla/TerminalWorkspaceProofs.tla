------------------------ MODULE TerminalWorkspaceProofs ------------------------
(***************************************************************************)
(* What holds of terminal workspaces whatever their number, the number of   *)
(* requests and what they ask for, the two limits, and however many API     *)
(* calls fail and restarts of the Executor there are.                       *)
(***************************************************************************)
EXTENDS TerminalWorkspace, FiniteSetTheorems, TLAPS

-----------------------------------------------------------------------------
(* The lists of calls that a handler works through.                        *)

Items == Extras \union {"disk", "pod", "memory"}
In(o, s) == \E i \in 1 .. Len(s) : s[i] = o

LEMMA Shorter ==
  ASSUME NEW s \in Seq(Items), s # <<>>
  PROVE  /\ Head(s) \in Items /\ In(Head(s), s)
         /\ Len(s) > 1 => Tail(s) \in Seq(Items) /\ Tail(s) # <<>>
         /\ \A o : Len(s) > 1 /\ In(o, Tail(s)) => In(o, s)
         /\ \A o : Len(s) > 1 /\ In(o, s) /\ o # Head(s) => In(o, Tail(s))
         /\ \A o : ~(Len(s) > 1) /\ In(o, s) => o = Head(s)
<1>1. Len(s) \in Nat /\ Len(s) > 0 /\ Head(s) = s[1] /\ s[1] \in Items
  OBVIOUS
<1>2. CASE Len(s) > 1
  <2>1. Tail(s) \in Seq(Items) /\ Len(Tail(s)) = Len(s) - 1 /\ \A i \in 1 .. Len(s) - 1 : Tail(s)[i] = s[i + 1]
    BY <1>1, <1>2
  <2>2. Tail(s) # <<>>
    BY <1>1, <1>2, <2>1
  <2>3. ASSUME NEW o, In(o, Tail(s)) PROVE In(o, s)
    <3>1. PICK i \in 1 .. Len(s) - 1 : s[i + 1] = o
      BY <2>1, <2>3 DEF In
    <3> QED  BY <1>1, <3>1 DEF In
  <2>4. ASSUME NEW o, In(o, s), o # Head(s) PROVE In(o, Tail(s))
    <3>1. PICK i \in 1 .. Len(s) : s[i] = o
      BY <2>4 DEF In
    <3>2. i # 1 /\ i - 1 \in 1 .. Len(s) - 1 /\ (i - 1) + 1 = i
      BY <1>1, <2>4, <3>1
    <3>3. Tail(s)[i - 1] = o
      BY <2>1, <3>1, <3>2
    <3> QED  BY <2>1, <3>2, <3>3 DEF In
  <2> QED  BY <1>1, <1>2, <2>1, <2>2, <2>3, <2>4 DEF In
<1>3. CASE ~(Len(s) > 1)
  BY <1>1, <1>3 DEF In
<1> QED  BY <1>2, <1>3

LEMMA Concat ==
  ASSUME NEW s \in Seq(Items), NEW t \in Seq(Items)
  PROVE  /\ s \o t \in Seq(Items) /\ Len(s) \in Nat /\ Len(t) \in Nat /\ Len(s \o t) = Len(s) + Len(t)
         /\ \A i \in 1 .. Len(s) : (s \o t)[i] = s[i]
         /\ \A i \in 1 .. Len(t) : (s \o t)[Len(s) + i] = t[i]
OBVIOUS

LEMMA Joined ==
  ASSUME NEW s \in Seq(Items), NEW t \in Seq(Items)
  PROVE  /\ s \o t \in Seq(Items)
         /\ \A o : In(o, s \o t) <=> In(o, s) \/ In(o, t)
         /\ t # <<>> => s \o t # <<>>
<1>1. /\ s \o t \in Seq(Items) /\ Len(s) \in Nat /\ Len(t) \in Nat /\ Len(s \o t) = Len(s) + Len(t)
      /\ \A i \in 1 .. Len(s) : (s \o t)[i] = s[i]
      /\ \A i \in 1 .. Len(t) : (s \o t)[Len(s) + i] = t[i]
  BY Concat
<1>2. ASSUME NEW o, In(o, s \o t) PROVE In(o, s) \/ In(o, t)
  <2>1. PICK i \in 1 .. Len(s) + Len(t) : (s \o t)[i] = o
    BY <1>1, <1>2 DEF In
  <2>2. CASE i <= Len(s)
    BY <1>1, <2>1, <2>2 DEF In
  <2>3. CASE ~(i <= Len(s))
    <3>1. i - Len(s) \in 1 .. Len(t) /\ Len(s) + (i - Len(s)) = i
      BY <1>1, <2>1, <2>3
    <3>2. t[i - Len(s)] = o
      BY <1>1, <2>1, <3>1
    <3> QED  BY <3>1, <3>2 DEF In
  <2> QED  BY <2>2, <2>3
<1>3. ASSUME NEW o, In(o, s) PROVE In(o, s \o t)
  BY <1>1, <1>3 DEF In
<1>4. ASSUME NEW o, In(o, t) PROVE In(o, s \o t)
  <2>1. PICK i \in 1 .. Len(t) : t[i] = o
    BY <1>4 DEF In
  <2>2. Len(s) + i \in 1 .. Len(s \o t) /\ (s \o t)[Len(s) + i] = o
    BY <1>1, <2>1
  <2> QED  BY <2>2 DEF In
<1>5. t # <<>> => s \o t # <<>>
  <2>1. t # <<>> => Len(t) > 0
    OBVIOUS
  <2> QED  BY <1>1, <2>1
<1> QED  BY <1>1, <1>2, <1>3, <1>4, <1>5

\* What is in each list: a stop never deletes a disk, a roll-back of a start only if the
\* disk was new to it; only a start makes pods and disks.
LEMMA Lists ==
  /\ StopOrder \in Seq(Items) /\ StopOrder # <<>> /\ In("pod", StopOrder) /\ ~In("disk", StopOrder)
  /\ UndoOrder \in Seq(Items) /\ UndoOrder # <<>> /\ ~In("pod", UndoOrder) /\ ~In("disk", UndoOrder)
  /\ PublishOrder \in Seq(Items) /\ PublishOrder # <<>>
  /\ ~In("pod", PublishOrder) /\ ~In("disk", PublishOrder)
  /\ \A b \in BOOLEAN : /\ StartOrder(b) \in Seq(Items) /\ StartOrder(b) # <<>>
                        /\ In("disk", StartOrder(b)) <=> b
<1> DEFINE last == <<"egress", "pod", "memory">>
           made == <<"pod", "egress">>
           disks == <<"disk">>
<1>1. last \in Seq(Items) /\ last # <<>> /\ In("pod", last) /\ ~In("disk", last)
  <2>1. last \in Seq(Items) /\ Len(last) = 3 /\ last[1] = "egress" /\ last[2] = "pod" /\ last[3] = "memory"
    BY DEF Items, Extras
  <2> QED  BY <2>1 DEF In
<1>2. UndoOrder \in Seq(Items) /\ UndoOrder # <<>> /\ ~In("pod", UndoOrder) /\ ~In("disk", UndoOrder)
  <2>1. /\ UndoOrder \in Seq(Items) /\ Len(UndoOrder) = 3
        /\ UndoOrder[1] = "route" /\ UndoOrder[2] = "service" /\ UndoOrder[3] = "ingress"
    BY DEF UndoOrder, Items, Extras
  <2>2. UndoOrder # <<>>
    BY <2>1
  <2> QED  BY <2>1, <2>2, SMTT(30) DEF In
<1>3. /\ PublishOrder \in Seq(Items) /\ PublishOrder # <<>>
      /\ ~In("pod", PublishOrder) /\ ~In("disk", PublishOrder)
  <2>1. /\ PublishOrder \in Seq(Items) /\ Len(PublishOrder) = 3
        /\ PublishOrder[1] = "service" /\ PublishOrder[2] = "ingress" /\ PublishOrder[3] = "route"
    BY DEF PublishOrder, Items, Extras
  <2> QED  BY <2>1 DEF In
<1>4. <<>> \in Seq(Items) /\ \A o : ~In(o, <<>>)
  BY DEF In
<1>5. disks \in Seq(Items) /\ In("disk", disks)
  BY DEF In, Items
<1>6. made \in Seq(Items) /\ made # <<>> /\ ~In("disk", made)
  <2>1. made \in Seq(Items) /\ Len(made) = 2 /\ made[1] = "pod" /\ made[2] = "egress"
    BY DEF Items, Extras
  <2> QED  BY <2>1 DEF In
<1> HIDE DEF last, made, disks
<1>7. StopOrder = UndoOrder \o last \/ StopOrder = <<>> \o last
  BY DEF StopOrder, last
<1>8. ASSUME NEW b \in BOOLEAN
      PROVE  /\ StartOrder(b) \in Seq(Items) /\ StartOrder(b) # <<>>
             /\ In("disk", StartOrder(b)) <=> b
  <2>1. (b /\ StartOrder(b) = disks \o made) \/ (~b /\ StartOrder(b) = <<>> \o made)
    BY DEF StartOrder, made, disks
  <2>2. CASE b
    <3>1. StartOrder(b) = disks \o made
      BY <2>1, <2>2
    <3>2. StartOrder(b) \in Seq(Items) /\ StartOrder(b) # <<>>
      BY <1>5, <1>6, <3>1, Joined
    <3>3. In("disk", StartOrder(b))
      BY <1>5, <1>6, <3>1, Joined, Zenon
    <3> QED  BY <2>2, <3>2, <3>3
  <2>3. CASE ~b
    <3>1. StartOrder(b) = made
      BY <1>6, <2>1, <2>3
    <3> QED  BY <1>6, <2>3, <3>1, Zenon
  <2> QED  BY <2>2, <2>3
<1>9. StopOrder \in Seq(Items) /\ StopOrder # <<>> /\ In("pod", StopOrder) /\ ~In("disk", StopOrder)
  <2>1. CASE StopOrder = UndoOrder \o last
    <3>1. StopOrder \in Seq(Items) /\ StopOrder # <<>>
      BY <1>1, <1>2, <2>1, Joined
    <3>2. In("pod", StopOrder) /\ ~In("disk", StopOrder)
      BY <1>1, <1>2, <2>1, Joined, Zenon
    <3> QED  BY <3>1, <3>2
  <2>2. CASE StopOrder = <<>> \o last
    <3>1. StopOrder = last
      BY <1>1, <2>2
    <3> QED  BY <1>1, <3>1, Zenon
  <2> QED  BY <1>7, <2>1, <2>2
<1> QED  BY <1>2, <1>3, <1>8, <1>9

LEMMA RollbackList ==
  ASSUME NEW h, job[h].fresh \in BOOLEAN
  PROVE  /\ Rollback(h) \in Seq(Items) /\ Rollback(h) # <<>>
         /\ In("pod", Rollback(h)) <=> job[h].op # "expose"
         /\ In("disk", Rollback(h)) <=> job[h].op # "expose" /\ job[h].fresh
<1> DEFINE disks == <<"disk">>
<1>1. disks \in Seq(Items) /\ In("disk", disks) /\ ~In("pod", disks)
  BY DEF In, Items
<1>2. <<>> \in Seq(Items) /\ \A o : ~In(o, <<>>)
  BY DEF In
<1> HIDE DEF disks
<1>3. CASE job[h].op = "expose"
  BY <1>3, Lists DEF Rollback
<1>4. CASE job[h].op # "expose"
  <2>1. \/ job[h].fresh /\ Rollback(h) = StopOrder \o disks
        \/ ~job[h].fresh /\ Rollback(h) = StopOrder \o <<>>
    BY <1>4 DEF Rollback, disks
  <2>2. CASE job[h].fresh
    <3>1. Rollback(h) = StopOrder \o disks
      BY <2>1, <2>2
    <3>2. Rollback(h) \in Seq(Items) /\ Rollback(h) # <<>>
      BY <1>1, <3>1, Lists, Joined
    <3>3. StopOrder \in Seq(Items) /\ In("pod", StopOrder)
      BY Lists
    <3>4. In("pod", Rollback(h)) /\ In("disk", Rollback(h))
      BY <1>1, <3>1, <3>3, Joined, Zenon
    <3> QED  BY <1>4, <2>2, <3>2, <3>4
  <2>3. CASE ~job[h].fresh
    <3>1. StopOrder \o <<>> = StopOrder
      BY Lists
    <3> QED  BY <1>4, <2>1, <2>3, <3>1, Lists
  <2> QED  BY <2>2, <2>3
<1> QED  BY <1>3, <1>4

-----------------------------------------------------------------------------
(* What a step does to the job of its handler.                             *)

Pcs == {"idle", "readDisk", "readPod", "awaitGone", "count", "countDisks",
        "creating", "awaitRunning", "seed", "deleting", "erase", "verify",
        "require", "touch", "work", "listed", "sweep"} \union Over
Afters == {"done", "failed", "awaitGone", "awaitRunning", "erase", "sweep"}

JobType == job \in [Handlers -> Job]

\* The job of h is another one, and that of nobody else.
Acts(h) == JobType' /\ \A g \in Handlers \ {h} : job'[g] = job[g]

\* h goes on to l, or ends there.
Goes(h, l) ==
  /\ Acts(h)
  /\ job'[h].pc = l /\ job'[h].op = job[h].op /\ job'[h].ws = job[h].ws
  /\ l \notin Over => job'[h].fresh = job[h].fresh /\ job'[h].prey = job[h].prey

\* h works through a list at l, to go to a afterwards.
Works(h, l, list, a) ==
  /\ Goes(h, l)
  /\ job'[h].todo = list /\ job'[h].after = a

LEMMA GoesTo ==
  ASSUME JobType, NEW h \in Handlers, NEW l \in Pcs, Go(h, l)
  PROVE  Goes(h, l)
<1>0. job[h] \in Job
  BY DEF JobType
<1> DEFINE v == IF l \in Over THEN Ended(h, l) ELSE [job[h] EXCEPT !.pc = l, !.todo = <<>>]
<1>1. v \in Job /\ v.pc = l /\ v.op = job[h].op /\ v.ws = job[h].ws
      /\ (l \notin Over => v.fresh = job[h].fresh /\ v.prey = job[h].prey)
  <2>1. CASE l \in Over
    <3> DEFINE e == [Blank EXCEPT !.pc = l, !.op = job[h].op, !.ws = job[h].ws]
    <3>1. v = e
      BY <2>1 DEF Ended
    <3>2. <<>> \in Seq(Extras \union {"disk", "pod", "memory"}) /\ 0 \in 0 .. EraseAttempts - 1
      BY ConstantsAssumption
    <3>3. e \in Job /\ e.pc = l /\ e.op = job[h].op /\ e.ws = job[h].ws
      BY <1>0, <2>1, <3>2 DEF Blank, Job, Over
    <3> QED  BY <2>1, <3>1, <3>3
  <2>2. CASE l \notin Over
    <3> DEFINE e == [job[h] EXCEPT !.pc = l, !.todo = <<>>]
    <3>1. v = e
      BY <2>2
    <3>2. <<>> \in Seq(Extras \union {"disk", "pod", "memory"})
      OBVIOUS
    <3>3. e \in Job /\ e.pc = l /\ e.op = job[h].op /\ e.ws = job[h].ws
          /\ e.fresh = job[h].fresh /\ e.prey = job[h].prey
      BY <1>0, <2>2, <3>2 DEF Job, Pcs
    <3> QED  BY <3>1, <3>3
  <2> QED  BY <2>1, <2>2
<1>2. job' = [job EXCEPT ![h] = v]
  BY DEF Go
<1> HIDE DEF v
<1> QED  BY <1>1, <1>2 DEF Goes, Acts, JobType

LEMMA ListsTo ==
  ASSUME JobType, NEW h \in Handlers, NEW list \in Seq(Items), NEW a \in Afters
  PROVE  /\ Create(h, list, a) => Works(h, "creating", list, a)
         /\ Delete(h, list, a) => Works(h, "deleting", list, a)
<1>0. job[h] \in Job
  BY DEF JobType
<1>1. ASSUME NEW l \in {"creating", "deleting"},
             job' = [job EXCEPT ![h].pc = l, ![h].todo = list, ![h].after = a]
      PROVE  Works(h, l, list, a)
  <2> DEFINE v == [job[h] EXCEPT !.pc = l, !.todo = list, !.after = a]
  <2>1. v \in Job
    BY <1>0 DEF Job, Items, Afters
  <2>2. /\ v.pc = l /\ v.todo = list /\ v.after = a /\ v.op = job[h].op /\ v.ws = job[h].ws
        /\ v.fresh = job[h].fresh /\ v.prey = job[h].prey
    BY <1>0 DEF Job
  <2>3. job' = [job EXCEPT ![h] = v]
    BY <1>1
  <2> HIDE DEF v
  <2> QED  BY <2>1, <2>2, <2>3 DEF Works, Goes, Acts, JobType
<1> QED  BY <1>1 DEF Create, Delete

LEMMA ProceedsTo ==
  ASSUME JobType, NEW h \in Handlers, job[h].todo # <<>>, Proceed(h)
  PROVE  \/ Len(job[h].todo) > 1 /\ Works(h, job[h].pc, Tail(job[h].todo), job[h].after)
         \/ ~(Len(job[h].todo) > 1) /\ Goes(h, job[h].after)
<1>0. job[h] \in Job /\ job[h].todo \in Seq(Items)
  BY DEF JobType, Job, Items
<1>1. CASE Len(job[h].todo) > 1
  <2> DEFINE t == Tail(job[h].todo)
             v == [job[h] EXCEPT !.todo = t]
  <2>1. t \in Seq(Items)
    BY <1>0, <1>1, Shorter
  <2>2. job' = [job EXCEPT ![h] = v]
    BY <1>1 DEF Proceed
  <2> HIDE DEF t
  <2>3. v \in Job
    BY <1>0, <2>1 DEF Job, Items
  <2>4. /\ v.pc = job[h].pc /\ v.todo = t /\ v.after = job[h].after /\ v.op = job[h].op
        /\ v.ws = job[h].ws /\ v.fresh = job[h].fresh /\ v.prey = job[h].prey
    BY <1>0 DEF Job
  <2> HIDE DEF v
  <2> QED  BY <1>1, <2>2, <2>3, <2>4 DEF t, Works, Goes, Acts, JobType
<1>2. CASE ~(Len(job[h].todo) > 1)
  <2>1. job[h].after \in Pcs
    BY <1>0 DEF Job, Pcs, Over
  <2> QED  BY <1>2, <2>1, GoesTo DEF Proceed
<1> QED  BY <1>1, <1>2

-----------------------------------------------------------------------------
(* Types.                                                                  *)

\* Which operation may be where, what is still on its list, and where it goes next.  Only
\* a start that found no disk makes one, and only its roll-back has one on its list.
Fits(j) ==
  /\ j.pc # "sweep" /\ (j.pc = "idle" => j.op = "none")
  /\ j.pc # "idle" => j.ws \in Workspaces /\ j.op \in AllOps
  /\ j.pc \in {"readDisk", "readPod", "awaitGone", "count", "countDisks", "awaitRunning", "seed"}
       => j.op = "start"
  /\ j.pc = "countDisks" => j.fresh
  /\ j.pc \in {"erase", "verify"} => j.op = "delete"
  /\ j.pc = "require" => j.op \in {"use", "exec", "expose"}
  /\ j.pc = "touch" => j.op \in {"start", "use", "exec", "expose"}
  /\ j.pc = "work" => j.op \in {"use", "exec"}
  /\ j.pc = "listed" => j.op = "expose"
  /\ j.pc = "creating" =>
       /\ j.todo # <<>> /\ (In("disk", j.todo) => j.fresh)
       /\ \/ j.op = "start" /\ j.after = "awaitRunning"
          \/ j.op = "expose" /\ j.after = "done" /\ ~In("pod", j.todo) /\ ~In("disk", j.todo)
  /\ j.pc = "deleting" =>
       /\ j.todo # <<>> /\ (In("disk", j.todo) => j.op = "start" /\ j.fresh /\ j.after = "failed")
       /\ \/ j.op = "start" /\ j.after \in {"awaitGone", "failed"}
          \/ j.op = "expose" /\ j.after = "failed"
          \/ j.op = "stop" /\ j.after = "done"
          \/ j.op = "delete" /\ j.after = "erase"

ReaperFits(j) ==
  /\ j.pc \in {"idle", "sweep", "deleting"}
  /\ j.pc = "deleting" => j.ws \in Workspaces /\ j.todo # <<>> /\ ~In("disk", j.todo) /\ j.after = "sweep"

DiskType  == disk \in [Workspaces -> [st : {"none", "bound", "terminating"}, by : Makers]]
PodType   == pod \in [Workspaces -> [phase : {"none", "pending", "running", "dead"}, by : Makers,
                                     doomed : BOOLEAN, expired : BOOLEAN, idle : BOOLEAN]]
ExtraType == extra \in [Workspaces -> SUBSET Extras]
MemType   == busy \subseteq Workspaces /\ touched \subseteq Workspaces
CountType == /\ errors \in 0 .. MaxErrors /\ slips \in 0 .. MaxSlips /\ crashes \in 0 .. MaxCrashes
             /\ raced \in BOOLEAN /\ wiped \in BOOLEAN
AllFit    == (\A r \in Requests : Fits(job[r])) /\ ReaperFits(job[Reaper])

Typed == DiskType /\ PodType /\ ExtraType /\ MemType /\ CountType /\ JobType /\ AllFit

LEMMA Parted == Typed => TypeOK
BY DEF Typed, DiskType, PodType, ExtraType, MemType, CountType, JobType, TypeOK

\* The request that goes on with its own operation fits where it comes.
LEMMA GoesFits ==
  ASSUME Typed, NEW r \in Requests, NEW l, Goes(r, l), job[r].pc \notin {"idle"},
         l \notin {"creating", "deleting", "sweep", "idle"},
         l \in {"readDisk", "readPod", "awaitGone", "count", "countDisks", "awaitRunning", "seed"}
           => job[r].op = "start",
         l = "countDisks" => job[r].fresh,
         l \in {"erase", "verify"} => job[r].op = "delete",
         l = "require" => job[r].op \in {"use", "exec", "expose"},
         l = "touch" => job[r].op \in {"start", "use", "exec", "expose"},
         l = "work" => job[r].op \in {"use", "exec"},
         l = "listed" => job[r].op = "expose"
  PROVE  Fits(job'[r])
<1>1. job[r].ws \in Workspaces /\ job[r].op \in AllOps
  BY DEF Typed, AllFit, Fits
<1> QED  BY <1>1 DEF Goes, Fits, Over

\* A request goes on as what it is.
Own(r) == Acts(r) /\ Fits(job'[r]) /\ job'[r].op = job[r].op /\ job'[r].ws = job[r].ws

LEMMA GoesOwn ==
  ASSUME NEW r, NEW l, Goes(r, l), Fits(job'[r])
  PROVE  Own(r)
BY DEF Goes, Own

\* An error of the API ends it, wherever it is.
LEMMA EndsOwn ==
  ASSUME Typed, NEW r \in Requests, job[r].pc # "idle", NEW l \in Over, Go(r, l)
  PROVE  Own(r)
<1>1. Goes(r, l)
  BY GoesTo DEF Typed, Handlers, Pcs
<1>2. Fits(job'[r])
  BY <1>1, GoesFits DEF Over
<1> QED  BY <1>1, <1>2, GoesOwn

LEMMA ReadsOwn ==
  ASSUME Typed, NEW r \in Requests, ReadDisk(r)
  PROVE  Own(r) /\ job'[r].pc = "readPod" /\ (job'[r].fresh <=> disk[job[r].ws].st = "none")
<1>0. job[r] \in Job /\ Fits(job[r]) /\ r \in Handlers /\ job[r].pc = "readDisk"
  BY DEF Typed, JobType, AllFit, ReadDisk, Handlers
<1> DEFINE b == (disk[job[r].ws].st = "none")
           v == [job[r] EXCEPT !.pc = "readPod", !.fresh = b]
<1>1. job' = [job EXCEPT ![r] = v]
  BY DEF ReadDisk
<1>2. b \in BOOLEAN
  OBVIOUS
<1> HIDE DEF b
<1>3. v \in Job
  BY <1>0, <1>2 DEF Job
<1>4. v.pc = "readPod" /\ v.op = job[r].op /\ v.ws = job[r].ws /\ v.fresh = b
  BY <1>0 DEF Job
<1> HIDE DEF v
<1>5. Acts(r) /\ job'[r] = v
  BY <1>0, <1>1, <1>3 DEF Typed, JobType, Acts
<1>6. Fits(v)
  BY <1>0, <1>4 DEF Fits
<1> QED  BY <1>4, <1>5, <1>6 DEF Own, b

\* Lists that are begun: those of a start, of a publication, of a stop and of a roll-back.
LEMMA WorksOwn ==
  ASSUME Typed, NEW r \in Requests, job[r].pc # "idle", NEW list, list # <<>>, NEW a,
         \/ /\ Works(r, "creating", list, a) /\ (In("disk", list) => job[r].fresh)
            /\ \/ job[r].op = "start" /\ a = "awaitRunning"
               \/ job[r].op = "expose" /\ a = "done" /\ ~In("pod", list) /\ ~In("disk", list)
         \/ /\ Works(r, "deleting", list, a)
            /\ In("disk", list) => job[r].op = "start" /\ job[r].fresh /\ a = "failed"
            /\ \/ job[r].op = "start" /\ a \in {"awaitGone", "failed"}
               \/ job[r].op = "expose" /\ a = "failed"
               \/ job[r].op = "stop" /\ a = "done"
               \/ job[r].op = "delete" /\ a = "erase"
  PROVE  Own(r)
<1>1. job[r].ws \in Workspaces /\ job[r].op \in AllOps
  BY DEF Typed, AllFit, Fits
<1>2. Fits(job'[r])
  BY <1>1 DEF Works, Goes, Fits, Over
<1> QED  BY <1>2, GoesOwn DEF Works

LEMMA RollsBack ==
  ASSUME Typed, NEW r \in Requests, job[r].op \in {"start", "expose"}, job[r].pc # "idle",
         Delete(r, Rollback(r), "failed")
  PROVE  Own(r) /\ Works(r, "deleting", Rollback(r), "failed")
<1>1. job[r].fresh \in BOOLEAN /\ JobType /\ r \in Handlers
  BY DEF Typed, JobType, Job, Handlers
<1>2. Works(r, "deleting", Rollback(r), "failed")
  BY <1>1, RollbackList, ListsTo DEF Afters
<1> QED  BY <1>1, <1>2, RollbackList, WorksOwn

\* The start, up to the first object it makes.
LEMMA StartOwn ==
  ASSUME Typed, NEW r \in Requests,
         ReadPod(r) \/ AwaitGone(r) \/ CountPods(r) \/ CountDisks(r) \/ AwaitRunning(r) \/ Seed(r)
  PROVE  Own(r) /\ job[r].op = "start"
<1>0. JobType /\ r \in Handlers /\ Fits(job[r]) /\ job[r].fresh \in BOOLEAN
  BY DEF Typed, AllFit, JobType, Job, Handlers
<1>1. job[r].op = "start" /\ job[r].pc # "idle"
  BY <1>0 DEF ReadPod, AwaitGone, CountPods, CountDisks, AwaitRunning, Seed, Fits
<1>2. ASSUME NEW l \in {"count", "countDisks", "touch", "seed", "done", "failed"}, Go(r, l),
             l = "countDisks" => job[r].fresh
      PROVE  Own(r)
  <2>1. Goes(r, l)
    BY <1>0, <1>2, GoesTo DEF Pcs, Over
  <2>2. Fits(job'[r])
    BY <1>1, <1>2, <2>1, GoesFits
  <2> QED  BY <2>1, <2>2, GoesOwn
<1>3. Delete(r, StopOrder, "awaitGone") => Own(r)
  BY <1>0, <1>1, Lists, ListsTo, WorksOwn DEF Afters
<1>4. ASSUME NEW b \in BOOLEAN, b => job[r].fresh, Create(r, StartOrder(b), "awaitRunning")
      PROVE  Own(r)
  BY <1>0, <1>1, <1>4, Lists, ListsTo, WorksOwn DEF Afters
<1>5. CASE ReadPod(r)
  BY <1>1, <1>2, <1>3, <1>5 DEF ReadPod
<1>6. CASE CountPods(r)
  BY <1>1, <1>2, <1>4, <1>6 DEF CountPods
<1>7. CASE CountDisks(r)
  BY <1>0, <1>2, <1>4, <1>7 DEF CountDisks, Fits
<1>8. CASE AwaitGone(r) \/ AwaitRunning(r) \/ Seed(r)
  BY <1>1, <1>2, <1>8, RollsBack DEF AwaitGone, AwaitRunning, Seed
<1> QED  BY <1>1, <1>5, <1>6, <1>7, <1>8

\* The next of a list, made or deleted.
LEMMA ProceedsOwn ==
  ASSUME Typed, NEW r \in Requests, job[r].pc \in {"creating", "deleting"}, Proceed(r)
  PROVE  Own(r)
<1>0. JobType /\ r \in Handlers /\ Fits(job[r]) /\ job[r].todo # <<>> /\ job[r].todo \in Seq(Items)
  BY DEF Typed, AllFit, JobType, Job, Items, Handlers, Fits
<1> DEFINE t == Tail(job[r].todo)
<1>1. CASE Len(job[r].todo) > 1 /\ Works(r, job[r].pc, t, job[r].after)
  <2>1. t # <<>> /\ \A o : In(o, t) => In(o, job[r].todo)
    BY <1>0, <1>1, Shorter
  <2> QED  BY <1>0, <1>1, <2>1, WorksOwn DEF Fits
<1>2. CASE Goes(r, job[r].after)
  <2>1. Fits(job'[r])
    BY <1>0, <1>2, GoesFits DEF Fits, Over
  <2> QED  BY <1>2, <2>1, GoesOwn
<1> QED  BY <1>0, <1>1, <1>2, ProceedsTo

LEMMA ListOwn ==
  ASSUME Typed, NEW r \in Requests, CreateNext(r) \/ DeleteNext(r)
  PROVE  Own(r)
<1>1. CASE CreateNext(r)
  <2>1. job[r].pc = "creating" /\ job[r].op \in {"start", "expose"}
    BY <1>1 DEF CreateNext, Typed, AllFit, Fits
  <2>2. Proceed(r) \/ Delete(r, Rollback(r), "failed")
    BY <1>1 DEF CreateNext
  <2> QED  BY <2>1, <2>2, ProceedsOwn, RollsBack
<1>2. CASE DeleteNext(r)
  BY <1>2, ProceedsOwn DEF DeleteNext
<1> QED  BY <1>1, <1>2

\* The deletion of a disk: another attempt, or it is over.
LEMMA RetryOwn ==
  ASSUME Typed, NEW r \in Requests, job[r].op = "delete", job[r].pc # "idle", Retry(r)
  PROVE  Own(r) /\ job'[r].pc \in {"erase", "failed"}
<1>0. JobType /\ r \in Handlers /\ job[r] \in Job /\ job[r].ws \in Workspaces
  BY DEF Typed, JobType, Handlers, AllFit, Fits
<1>1. CASE job[r].tries + 1 >= EraseAttempts
  <2>1. job' = [job EXCEPT ![r] = Ended(r, "failed")]
    BY <1>1 DEF Retry
  <2>2. Go(r, "failed")
    BY <2>1 DEF Go, Over
  <2> QED  BY <1>0, <2>2, EndsOwn, GoesTo DEF Goes, Over, Pcs
<1>2. CASE ~(job[r].tries + 1 >= EraseAttempts)
  <2> DEFINE v == [job[r] EXCEPT !.pc = "erase", !.tries = job[r].tries + 1]
  <2>1. job' = [job EXCEPT ![r] = v]
    BY <1>2 DEF Retry
  <2>2. job[r].tries + 1 \in 0 .. EraseAttempts - 1
    BY <1>0, <1>2, ConstantsAssumption DEF Job
  <2>3. v \in Job
    BY <1>0, <2>2, Zenon DEF Job
  <2>4. v.pc = "erase" /\ v.op = job[r].op /\ v.ws = job[r].ws
    BY <1>0 DEF Job
  <2> HIDE DEF v
  <2>5. Fits(v)
    BY <1>0, <2>4 DEF Fits, AllOps
  <2>6. Acts(r) /\ job'[r] = v
    BY <1>0, <2>1, <2>3 DEF JobType, Acts
  <2> QED  BY <2>4, <2>5, <2>6 DEF Own
<1> QED  BY <1>1, <1>2

LEMMA DeletionOwn ==
  ASSUME Typed, NEW r \in Requests, Erase(r) \/ Verify(r)
  PROVE  Own(r) /\ job[r].op = "delete"
<1>1. JobType /\ r \in Handlers /\ job[r].op = "delete" /\ job[r].pc # "idle"
  BY DEF Typed, AllFit, Handlers, Fits, Erase, Verify
<1>2. Go(r, "verify") => Own(r)
  BY <1>1, GoesTo, GoesFits, GoesOwn DEF Pcs, Over
<1> QED  BY <1>1, <1>2, EndsOwn, RetryOwn DEF Erase, Verify, Over

\* The use of a pod.
LEMMA UseOwn ==
  ASSUME Typed, NEW r \in Requests, Require(r) \/ Touch(r) \/ Work(r) \/ Listed(r)
  PROVE  Own(r)
<1>1. JobType /\ r \in Handlers /\ job[r].pc # "idle" /\ Fits(job[r])
  BY DEF Typed, AllFit, Handlers, Require, Touch, Work, Listed
<1>2. ASSUME NEW l \in {"touch", "work", "listed"}, Go(r, l),
             l = "touch" => job[r].op \in {"start", "use", "exec", "expose"},
             l = "work" => job[r].op \in {"use", "exec"},
             l = "listed" => job[r].op = "expose"
      PROVE  Own(r)
  <2>1. Goes(r, l)
    BY <1>1, <1>2, GoesTo DEF Pcs
  <2>2. Fits(job'[r])
    BY <1>1, <1>2, <2>1, GoesFits
  <2> QED  BY <2>1, <2>2, GoesOwn
<1>3. Go(r, "done") \/ Go(r, "failed") => Own(r)
  BY <1>1, EndsOwn DEF Over
<1>4. CASE Require(r)
  BY <1>1, <1>2, <1>3, <1>4 DEF Require, Fits
<1>5. CASE Touch(r)
  BY <1>1, <1>2, <1>3, <1>5 DEF Touch, Fits
<1>6. CASE Work(r)
  BY <1>3, <1>6 DEF Work
<1>7. CASE Listed(r)
  <2>1. job[r].op = "expose"
    BY <1>1, <1>7 DEF Listed, Fits
  <2>2. Create(r, PublishOrder, "done") => Own(r)
    BY <1>1, <2>1, Lists, ListsTo, WorksOwn DEF Afters
  <2> QED  BY <1>3, <1>7, <2>2 DEF Listed
<1> QED  BY <1>4, <1>5, <1>6, <1>7

LEMMA ServeOwn ==
  ASSUME Typed, NEW r \in Requests, Serve(r)
  PROVE  Own(r) /\ job[r].pc # "idle"
<1>1. ASSUME NEW l \in {"readDisk", "readPod", "count", "countDisks", "listed"}, ThrowAt(r, l)
      PROVE  Own(r) /\ job[r].pc # "idle"
  BY <1>1, EndsOwn DEF ThrowAt, Over
<1>2. Serve(r) /\ ~(\E l \in {"readDisk", "readPod", "count", "countDisks", "listed"} : ThrowAt(r, l))
        => job[r].pc # "idle"
  BY DEF Serve, ReadDisk, ReadPod, AwaitGone, CountPods, CountDisks, CreateNext, AwaitRunning, Seed,
         DeleteNext, Erase, Verify, Require, Touch, Work, Listed
<1> QED  BY <1>1, <1>2, ReadsOwn, StartOwn, ListOwn, DeletionOwn, UseOwn DEF Serve

\* A request that arrives; those that are there stay as they are.
LEMMA ArriveFits ==
  ASSUME Typed, NEW r \in Requests, Arrive(r)
  PROVE  /\ Acts(r) /\ Fits(job'[r]) /\ job[r].pc = "idle"
         /\ job'[r].pc \in {"readDisk", "deleting", "require", "failed"}
         /\ job'[r].pc = "failed" => job'[r].op = "exec"
<1>1. PICK op \in Ops, w \in Workspaces :
        /\ job[r].pc = "idle"
        /\ job' = [job EXCEPT ![r] =
             [Blank EXCEPT !.op = op, !.ws = w,
                !.pc    = IF Refused(op, w) THEN "failed" ELSE FirstStep(op),
                !.todo  = IF op \in {"stop", "delete"} THEN StopOrder ELSE <<>>,
                !.after = IF op = "delete" THEN "erase" ELSE "done"]]
  BY DEF Arrive
<1> DEFINE l == IF Refused(op, w) THEN "failed" ELSE FirstStep(op)
           t == IF op \in {"stop", "delete"} THEN StopOrder ELSE <<>>
           a == IF op = "delete" THEN "erase" ELSE "done"
           v == [Blank EXCEPT !.op = op, !.ws = w, !.pc = l, !.todo = t, !.after = a]
<1>2. op \in AllOps
  BY ConstantsAssumption
<1>3. /\ l = "failed" => op = "exec"
      /\ l = "failed" \/ (op = "start" /\ l = "readDisk") \/ (op \in {"stop", "delete"} /\ l = "deleting")
         \/ (op \in {"use", "exec", "expose"} /\ l = "require")
  BY <1>2 DEF Refused, FirstStep, AllOps
<1>4. t \in Seq(Items) /\ (op \in {"stop", "delete"} => t # <<>> /\ ~In("disk", t))
  BY Lists
<1>5. job' = [job EXCEPT ![r] = v]
  BY <1>1
<1>6. a \in Afters /\ (op = "delete" => a = "erase") /\ (op = "stop" => a = "done")
  BY DEF Afters
<1> HIDE DEF l, t, a
<1>7. v \in Job
  <2>1. 0 \in 0 .. EraseAttempts - 1 /\ l \in Pcs /\ w \in Workspaces \union {Nil}
    BY <1>3, ConstantsAssumption DEF Pcs, Over
  <2> QED  BY <1>2, <1>4, <1>6, <2>1 DEF Job, Blank, Items, Afters, Pcs
<1>8. v.pc = l /\ v.op = op /\ v.ws = w /\ v.todo = t /\ v.after = a
  BY DEF Blank
<1> HIDE DEF v
<1>9. Fits(v)
  BY <1>2, <1>3, <1>4, <1>6, <1>8 DEF Fits
<1>10. Acts(r) /\ job'[r] = v
  BY <1>5, <1>7 DEF Typed, JobType, Acts, Handlers
<1> QED  BY <1>1, <1>3, <1>8, <1>9, <1>10

\* The sweep: what it condemns, it works through by the list of a stop.
LEMMA ReapFits ==
  ASSUME Typed, Reap
  PROVE  Acts(Reaper) /\ ReaperFits(job'[Reaper])
<1>0. JobType /\ Reaper \in Handlers /\ job[Reaper] \in Job /\ ReaperFits(job[Reaper])
  BY DEF Typed, AllFit, JobType, Handlers
<1>1. CASE Sweep
  <2>1. CASE job' = job
    BY <1>0, <2>1 DEF Acts, JobType
  <2>2. CASE job' = [job EXCEPT ![Reaper].pc = "sweep", ![Reaper].prey = Condemned]
    <3> DEFINE v == [job[Reaper] EXCEPT !.pc = "sweep", !.prey = Condemned]
    <3>1. v \in Job /\ v.pc = "sweep"
      BY <1>0 DEF Job, Condemned
    <3>2. job' = [job EXCEPT ![Reaper] = v]
      BY <2>2
    <3> HIDE DEF v
    <3> QED  BY <1>0, <3>1, <3>2 DEF Acts, JobType, ReaperFits
  <2> QED  BY <1>1, <2>1, <2>2 DEF Sweep
<1>2. CASE ReapNext
  <2>1. PICK w \in job[Reaper].prey :
          job' = [job EXCEPT ![Reaper] =
                    [job[Reaper] EXCEPT !.ws = w, !.prey = @ \ {w}, !.pc = "deleting",
                                        !.todo = StopOrder, !.after = "sweep"]]
    BY <1>2 DEF ReapNext
  <2> DEFINE p == job[Reaper].prey \ {w}
             v == [job[Reaper] EXCEPT !.ws = w, !.prey = p, !.pc = "deleting", !.todo = StopOrder,
                                      !.after = "sweep"]
  <2>2. w \in Workspaces /\ p \in SUBSET Workspaces
    BY <1>0 DEF Job
  <2>3. job' = [job EXCEPT ![Reaper] = v]
    BY <2>1
  <2> HIDE DEF p
  <2>4. v \in Job
    BY <1>0, <2>2, Lists DEF Job, Items
  <2>5. v.pc = "deleting" /\ v.ws = w /\ v.todo = StopOrder /\ v.after = "sweep"
    BY <1>0 DEF Job
  <2> HIDE DEF v
  <2> QED  BY <1>0, <2>2, <2>3, <2>4, <2>5, Lists DEF Acts, JobType, ReaperFits
<1>3. CASE ReapEnd
  <2>1. <<>> \in Seq(Extras \union {"disk", "pod", "memory"}) /\ 0 \in 0 .. EraseAttempts - 1
    BY ConstantsAssumption
  <2>2. Blank \in Job /\ Blank.pc = "idle"
    BY <2>1 DEF Job, Blank
  <2> QED  BY <1>0, <1>3, <2>2 DEF ReapEnd, Acts, JobType, ReaperFits
<1>4. CASE DeleteNext(Reaper)
  <2>1. /\ job[Reaper].pc = "deleting" /\ Proceed(Reaper) /\ job[Reaper].todo # <<>>
        /\ job[Reaper].todo \in Seq(Items) /\ job[Reaper].after = "sweep" /\ job[Reaper].ws \in Workspaces
    BY <1>0, <1>4 DEF DeleteNext, ReaperFits, Job, Items
  <2> DEFINE t == Tail(job[Reaper].todo)
  <2>2. CASE Len(job[Reaper].todo) > 1 /\ Works(Reaper, "deleting", t, "sweep")
    <3>1. t # <<>> /\ ~In("disk", t)
      BY <1>0, <2>1, <2>2, Shorter DEF ReaperFits
    <3> QED  BY <2>1, <2>2, <3>1 DEF Works, Goes, ReaperFits
  <2>3. CASE Goes(Reaper, "sweep")
    BY <2>3 DEF Goes, ReaperFits
  <2> QED  BY <1>0, <2>1, <2>2, <2>3, ProceedsTo
<1> QED  BY <1>1, <1>2, <1>3, <1>4 DEF Reap

\* A restart loses what was in progress.
LEMMA CrashFits ==
  ASSUME Typed, Crash
  PROVE  /\ JobType' /\ AllFit'
         /\ \A r \in Requests :
              \/ job[r].pc \in Over \union {"idle"} /\ job'[r] = job[r]
              \/ /\ job[r].pc \notin Over \union {"idle"} /\ job'[r].pc = "lost"
                 /\ job'[r].op = job[r].op /\ job'[r].ws = job[r].ws
<1>0. JobType /\ \A r \in Requests : r \in Handlers /\ r # Reaper /\ job[r] \in Job /\ Fits(job[r])
  BY ConstantsAssumption DEF Typed, AllFit, JobType, Handlers
<1>1. <<>> \in Seq(Extras \union {"disk", "pod", "memory"}) /\ 0 \in 0 .. EraseAttempts - 1
  BY ConstantsAssumption
<1>2. Blank \in Job /\ Blank.pc = "idle"
  BY <1>1 DEF Job, Blank
<1>3. ASSUME NEW r \in Requests
      PROVE  Ended(r, "lost") \in Job /\ Ended(r, "lost").pc = "lost"
             /\ Ended(r, "lost").op = job[r].op /\ Ended(r, "lost").ws = job[r].ws
  BY <1>0, <1>1 DEF Ended, Blank, Job, Over
<1>4. job' = [h \in Handlers |-> IF h = Reaper THEN Blank
                                 ELSE IF job[h].pc \in Over \union {"idle"} THEN job[h]
                                 ELSE Ended(h, "lost")]
  BY DEF Crash
<1>5. job'[Reaper] = Blank /\ JobType'
  BY <1>0, <1>2, <1>3, <1>4 DEF JobType, Handlers
<1>6. ASSUME NEW r \in Requests
      PROVE  \/ job[r].pc \in Over \union {"idle"} /\ job'[r] = job[r]
             \/ job[r].pc \notin Over \union {"idle"} /\ job'[r] = Ended(r, "lost")
  BY <1>0, <1>4
<1>7. ASSUME NEW r \in Requests PROVE Fits(job'[r])
  <2>1. CASE job'[r] = job[r]
    BY <1>0, <2>1
  <2>2. CASE job[r].pc \notin Over \union {"idle"} /\ job'[r] = Ended(r, "lost")
    BY <1>0, <1>3, <2>2 DEF Fits
  <2> QED  BY <1>6, <2>1, <2>2
<1>8. AllFit'
  BY <1>2, <1>5, <1>7 DEF AllFit, ReaperFits
<1> QED  BY <1>3, <1>5, <1>6, <1>8

LEMMA ActsFit ==
  ASSUME Typed,
         \/ \E r \in Requests : Acts(r) /\ Fits(job'[r])
         \/ Acts(Reaper) /\ ReaperFits(job'[Reaper])
  PROVE  JobType' /\ AllFit'
BY ConstantsAssumption DEF Typed, AllFit, Acts, Handlers

-----------------------------------------------------------------------------
(* What a step does to the cluster.                                        *)

\* One disk is another now, or one pod, and the others stay.
DiskMoves(w, d) == disk' = [disk EXCEPT ![w] = d]
PodMoves(w, p)  == pod' = [pod EXCEPT ![w] = p]

Disk == [st : {"none", "bound", "terminating"}, by : Makers]
Pod  == [phase : {"none", "pending", "running", "dead"}, by : Makers,
         doomed : BOOLEAN, expired : BOOLEAN, idle : BOOLEAN]

LEMMA Made ==
  ASSUME NEW r \in Makers
  PROVE  /\ NewDisk(r) \in Disk /\ NewDisk(r).st = "bound" /\ NewDisk(r).by = r
         /\ NewPod(r) \in Pod /\ NewPod(r).phase = "pending" /\ NewPod(r).by = r /\ ~NewPod(r).doomed
BY DEF NewDisk, NewPod, NoPod, Disk, Pod, Makers

LEMMA Dying ==
  ASSUME NEW d \in Disk, NEW p \in Pod
  PROVE  /\ DyingDisk(d) \in Disk /\ DyingDisk(d).st # "bound"
         /\ DyingDisk(d) = d \/ (d.st = "bound" /\ DyingDisk(d).st = "terminating" /\ DyingDisk(d).by = Nil)
         /\ DyingPod(p) \in Pod /\ DyingPod(p).phase = p.phase
         /\ \/ p.phase = "none" /\ DyingPod(p) = p
            \/ p.phase # "none" /\ DyingPod(p).doomed /\ DyingPod(p).by = Nil
<1>1. DyingDisk(d) \in Disk /\ DyingDisk(d).st # "bound"
      /\ (DyingDisk(d) = d \/ (d.st = "bound" /\ DyingDisk(d).st = "terminating" /\ DyingDisk(d).by = Nil))
  BY DEF DyingDisk, Disk, Makers
<1>2. CASE p.phase = "none"
  BY <1>1, <1>2 DEF DyingPod
<1>3. CASE p.phase # "none"
  <2> DEFINE v == [NoPod EXCEPT !.phase = p.phase, !.doomed = TRUE]
  <2>1. v \in Pod /\ v.phase = p.phase /\ v.doomed /\ v.by = Nil
    BY DEF NoPod, Pod, Makers
  <2> QED  BY <1>1, <1>3, <2>1 DEF DyingPod
<1> QED  BY <1>2, <1>3

LEMMA NoPodTyped == NoPod \in Pod /\ NoDisk \in Disk
BY DEF NoPod, NoDisk, Pod, Disk, Makers

\* What the next create of a list makes, and what the next delete takes away.
LEMMA Creates ==
  ASSUME Typed, NEW r \in Requests, CreateNext(r), NEW w, w = job[r].ws
  PROVE  /\ ExtraType' /\ UNCHANGED memory /\ w \in Workspaces
         /\ \/ UNCHANGED cluster /\ Delete(r, Rollback(r), "failed")
            \/ /\ Proceed(r) \/ Delete(r, Rollback(r), "failed")
               /\ \/ /\ Head(job[r].todo) = "disk" /\ disk[w].st = "none"
                     /\ DiskMoves(w, NewDisk(r)) /\ pod' = pod
                  \/ /\ Head(job[r].todo) = "pod" /\ pod[w].phase = "none"
                     /\ PodMoves(w, NewPod(r)) /\ disk' = disk
                  \/ /\ Head(job[r].todo) \notin {"disk", "pod"}
                     /\ disk' = disk /\ pod' = pod
<1>0. w \in Workspaces
  BY DEF Typed, AllFit, Fits, CreateNext
<1> DEFINE o == Head(job[r].todo)
<1>1. CASE UNCHANGED cluster /\ Delete(r, Rollback(r), "failed")
  BY <1>0, <1>1 DEF CreateNext, cluster, Typed, ExtraType
<1>2. CASE /\ ~Exists(o, w) /\ (Proceed(r) \/ Delete(r, Rollback(r), "failed"))
           /\ disk' = [disk EXCEPT ![w] = IF o = "disk" THEN NewDisk(r) ELSE @]
           /\ pod' = [pod EXCEPT ![w] = IF o = "pod" THEN NewPod(r) ELSE @]
           /\ extra' = [extra EXCEPT ![w] = @ \union ({o} \intersect Extras)]
  <2>1. ExtraType'
    BY <1>0, <1>2 DEF Typed, ExtraType
  <2>2. CASE o = "disk"
    <3>1. disk[w].st = "none" /\ DiskMoves(w, NewDisk(r)) /\ pod' = pod
      BY <1>0, <1>2, <2>2 DEF Exists, DiskMoves, Typed, PodType
    <3> QED  BY <1>0, <1>2, <2>1, <2>2, <3>1 DEF CreateNext
  <2>3. CASE o = "pod"
    <3>1. pod[w].phase = "none" /\ PodMoves(w, NewPod(r)) /\ disk' = disk
      BY <1>0, <1>2, <2>3 DEF Exists, PodMoves, Typed, DiskType
    <3> QED  BY <1>0, <1>2, <2>1, <2>3, <3>1 DEF CreateNext
  <2>4. CASE o \notin {"disk", "pod"}
    <3>1. disk' = disk /\ pod' = pod
      BY <1>0, <1>2, <2>4 DEF Typed, DiskType, PodType
    <3> QED  BY <1>0, <1>2, <2>1, <2>4, <3>1 DEF CreateNext
  <2> QED  BY <2>2, <2>3, <2>4
<1> QED  BY <1>1, <1>2 DEF CreateNext

\* What a delete finds gone stays gone; a delete that slips does nothing but count.
LEMMA Deletes ==
  ASSUME Typed, NEW h \in Handlers, DeleteNext(h), NEW w, w = job[h].ws
  PROVE  /\ w \in Workspaces /\ job[h].todo \in Seq(Items) /\ job[h].todo # <<>> /\ Proceed(h)
         /\ \/ /\ UNCHANGED <<cluster, memory, wiped, raced>>
               /\ slips < MaxSlips /\ slips' = slips + 1
            \/ /\ ExtraType' /\ UNCHANGED <<slips, raced>>
               /\ disk' = disk \/ (Head(job[h].todo) = "disk" /\ DiskMoves(w, DyingDisk(disk[w])))
               /\ pod' = pod \/ (Head(job[h].todo) = "pod" /\ PodMoves(w, DyingPod(pod[w])))
               /\ Head(job[h].todo) = "disk" => DiskMoves(w, DyingDisk(disk[w]))
               /\ Head(job[h].todo) = "pod" => PodMoves(w, DyingPod(pod[w]))
               /\ \/ UNCHANGED <<busy, touched, wiped>>
                  \/ /\ busy' = busy \ {w} /\ touched' = touched \ {w}
                     /\ wiped' = (wiped \/ Commands(w) # {})
<1>0. w \in Workspaces /\ job[h].todo \in Seq(Items) /\ job[h].todo # <<>> /\ Proceed(h)
  BY DEF Typed, AllFit, Fits, ReaperFits, DeleteNext, Handlers, JobType, Job, Items
<1> DEFINE o == Head(job[h].todo)
<1>1. CASE Exists(o, w) /\ Slips /\ UNCHANGED <<cluster, memory>>
  BY <1>0, <1>1 DEF Slips, history, memory
<1>2. CASE /\ disk' = [disk EXCEPT ![w] = IF o = "disk" THEN DyingDisk(@) ELSE @]
           /\ pod' = [pod EXCEPT ![w] = IF o = "pod" THEN DyingPod(@) ELSE @]
           /\ extra' = [extra EXCEPT ![w] = @ \ {o}]
           /\ busy' = IF o = "memory" THEN busy \ {w} ELSE busy
           /\ touched' = IF o = "memory" THEN touched \ {w} ELSE touched
           /\ wiped' = (wiped \/ (o = "memory" /\ Commands(w) # {}))
           /\ UNCHANGED <<errors, slips, crashes, raced>>
  <2>1. ExtraType'
    BY <1>0, <1>2 DEF Typed, ExtraType
  <2>2. (o = "disk" /\ DiskMoves(w, DyingDisk(disk[w]))) \/ (o # "disk" /\ disk' = disk)
    BY <1>0, <1>2 DEF DiskMoves, Typed, DiskType
  <2>3. (o = "pod" /\ PodMoves(w, DyingPod(pod[w]))) \/ (o # "pod" /\ pod' = pod)
    BY <1>0, <1>2 DEF PodMoves, Typed, PodType
  <2>4. \/ UNCHANGED <<busy, touched, wiped>>
        \/ busy' = busy \ {w} /\ touched' = touched \ {w} /\ wiped' = (wiped \/ Commands(w) # {})
    <3>1. CASE o = "memory"
      BY <1>2, <3>1
    <3>2. CASE o # "memory"
      <4>1. wiped \in BOOLEAN
        BY DEF Typed, CountType
      <4>2. wiped' = wiped
        BY <1>2, <3>2, <4>1
      <4> QED  BY <1>2, <3>2, <4>2
    <3> QED  BY <3>1, <3>2
  <2> QED  BY <1>0, <1>2, <2>1, <2>2, <2>3, <2>4
<1> QED  BY <1>1, <1>2 DEF DeleteNext

\* The steps of the handlers that leave disks and pods alone.
Quiet(r) == \/ ReadDisk(r) \/ ReadPod(r) \/ AwaitGone(r) \/ CountPods(r) \/ CountDisks(r)
            \/ AwaitRunning(r) \/ Seed(r) \/ Verify(r) \/ Require(r) \/ Work(r) \/ Listed(r)
            \/ \E l \in {"readDisk", "readPod", "count", "countDisks", "listed"} : ThrowAt(r, l)

LEMMA Serves == \A r : Serve(r) <=> Quiet(r) \/ CreateNext(r) \/ DeleteNext(r) \/ Erase(r) \/ Touch(r)
BY DEF Serve, Quiet

LEMMA QuietKeeps ==
  ASSUME NEW r \in Requests, Quiet(r)
  PROVE  /\ UNCHANGED <<cluster, touched, slips, raced, wiped>>
         /\ busy' = busy \/ Release(r)
BY DEF Quiet, ReadDisk, ReadPod, AwaitGone, CountPods, CountDisks, AwaitRunning, Seed, Verify, Require, Work,
       Listed, ThrowAt, Errs, budget, history, memory

LEMMA CountNext ==
  ASSUME Typed, [Next]_vars
  PROVE  CountType'
<1>0. CountType
  BY DEF Typed
<1>1. UNCHANGED budget => CountType'
  BY <1>0 DEF CountType, budget, history
<1>2. Errs \/ Slips => CountType'
  BY <1>0, ConstantsAssumption DEF CountType, Errs, Slips, history
<1>3. ASSUME NEW r \in Requests, Arrive(r) PROVE CountType'
  <2>1. raced' \in BOOLEAN /\ UNCHANGED <<errors, slips, crashes, wiped>>
    BY <1>3 DEF Arrive
  <2> QED  BY <1>0, <2>1 DEF CountType
<1>4. ASSUME NEW h \in Handlers, DeleteNext(h) PROVE CountType'
  <2>1. CASE Slips
    BY <1>2, <2>1
  <2>2. CASE UNCHANGED <<errors, slips, crashes, raced>> /\ wiped' \in BOOLEAN
    BY <1>0, <2>2 DEF CountType
  <2> QED  BY <1>4, <2>1, <2>2 DEF DeleteNext
<1>5. ASSUME NEW r \in Requests, Serve(r), ~DeleteNext(r) PROVE CountType'
  <2>1. UNCHANGED budget \/ Errs \/ Slips
    BY <1>5 DEF Serve, ReadDisk, ReadPod, AwaitGone, CountPods, CountDisks, AwaitRunning, Seed, Verify, Require,
         Work, Listed, ThrowAt, CreateNext, Erase, Touch
  <2> QED  BY <1>1, <1>2, <2>1
<1>6. CASE Crash
  BY <1>0, <1>6, ConstantsAssumption DEF Crash, CountType, history
<1>7. CASE Environment
  BY <1>1, <1>7 DEF Environment, PodStarts, PodDies, PodGone, DiskGone, Expire, ThrottleLapses, GoIdle
<1>8. CASE Reap
  BY <1>1, <1>4, <1>8 DEF Reap, Sweep, ReapNext, ReapEnd, Handlers
<1>9. CASE UNCHANGED vars
  BY <1>1, <1>9 DEF vars
<1> QED  BY <1>3, <1>4, <1>5, <1>6, <1>7, <1>8, <1>9 DEF Next, Handlers

\* What may become of the disk and of the pod of a workspace in one step.
DiskSteps(w) ==
  \/ \E r \in Requests : /\ CreateNext(r) /\ w = job[r].ws /\ Head(job[r].todo) = "disk"
                         /\ disk[w].st = "none" /\ DiskMoves(w, NewDisk(r)) /\ pod' = pod
  \/ \E h \in Handlers : /\ DeleteNext(h) /\ Proceed(h) /\ w = job[h].ws /\ Head(job[h].todo) = "disk"
                         /\ DiskMoves(w, DyingDisk(disk[w]))
  \/ \E r \in Requests : Erase(r) /\ w = job[r].ws /\ DiskMoves(w, DyingDisk(disk[w]))
  \/ DiskGone(w) /\ UNCHANGED <<pod, job>>

\* A pod that runs, ends, or is older.
Ages(w) ==
  \E p \in Pod :
    /\ PodMoves(w, p) /\ p.by = pod[w].by /\ p.doomed = pod[w].doomed
    /\ p.phase \in {"pending", "running"} =>
         pod[w].phase \in {"pending", "running"} /\ (pod[w].expired => p.expired)
    /\ p.phase = "none" => pod[w].phase = "none"

PodSteps(w) ==
  \/ \E r \in Requests : /\ CreateNext(r) /\ w = job[r].ws /\ Head(job[r].todo) = "pod"
                         /\ pod[w].phase = "none" /\ PodMoves(w, NewPod(r)) /\ disk' = disk
  \/ \E h \in Handlers : /\ DeleteNext(h) /\ Proceed(h) /\ w = job[h].ws /\ Head(job[h].todo) = "pod"
                         /\ PodMoves(w, DyingPod(pod[w]))
  \/ Ages(w)
  \/ PodGone(w)

LEMMA TouchMoves ==
  ASSUME Typed, NEW r \in Requests, Touch(r)
  PROVE  /\ UNCHANGED <<disk, extra, busy>> /\ touched' = touched \union {job[r].ws}
         /\ job[r].ws \in Workspaces /\ (pod' = pod \/ Ages(job[r].ws))
         /\ UNCHANGED <<raced, wiped>>
<1> DEFINE w == job[r].ws
           p == [pod[w] EXCEPT !.idle = FALSE]
<1>1. w \in Workspaces /\ pod[w] \in Pod
  BY DEF Typed, AllFit, Fits, Touch, PodType, Pod
<1>2. p \in Pod /\ p.by = pod[w].by /\ p.doomed = pod[w].doomed /\ p.expired = pod[w].expired
      /\ p.phase = pod[w].phase
  BY <1>1 DEF Pod
<1>3. pod' = pod \/ pod' = [pod EXCEPT ![w] = p]
  BY DEF Touch
<1>4. UNCHANGED <<raced, wiped>>
  BY DEF Touch, budget, history, Slips
<1> HIDE DEF p
<1>5. pod' = pod \/ Ages(w)
  BY <1>2, <1>3 DEF Ages, PodMoves
<1> QED  BY <1>1, <1>4, <1>5 DEF Touch

LEMMA EnvironmentMoves ==
  ASSUME Typed, Environment
  PROVE  /\ UNCHANGED <<extra, busy, job, raced, wiped>> /\ touched' \subseteq touched
         /\ disk' = disk \/ \E w \in Workspaces : DiskSteps(w)
         /\ pod' = pod \/ \E w \in Workspaces : PodSteps(w)
<1>1. PICK w \in Workspaces :
        PodStarts(w) \/ PodDies(w) \/ PodGone(w) \/ DiskGone(w) \/ Expire(w) \/ ThrottleLapses(w) \/ GoIdle(w)
  BY DEF Environment
<1>2. pod[w] \in Pod
  BY DEF Typed, PodType, Pod
<1>3. UNCHANGED <<extra, busy, job, raced, wiped>> /\ touched' \subseteq touched
  <2>1. CASE ThrottleLapses(w)
    BY <2>1 DEF ThrottleLapses, cluster, budget, history
  <2>2. CASE ~ThrottleLapses(w)
    BY <1>1, <2>2 DEF PodStarts, PodDies, PodGone, DiskGone, Expire, GoIdle, memory, budget, history
  <2> QED  BY <2>1, <2>2
<1>4. ASSUME NEW p \in Pod, PodMoves(w, p), p.by = pod[w].by, p.doomed = pod[w].doomed,
             p.phase \in {"pending", "running"} =>
               pod[w].phase \in {"pending", "running"} /\ (pod[w].expired => p.expired),
             p.phase = "none" => pod[w].phase = "none"
      PROVE  PodSteps(w)
  <2>1. Ages(w)
    BY <1>4 DEF Ages
  <2> QED  BY <2>1, Zenon DEF PodSteps
<1>5. CASE PodStarts(w) \/ PodDies(w)
  <2>1. PICK p \in {[pod[w] EXCEPT !.phase = "running"],
                    [pod[w] EXCEPT !.phase = "dead", !.expired = FALSE, !.idle = FALSE]} : PodMoves(w, p)
    BY <1>5 DEF PodStarts, PodDies, PodMoves
  <2>2. pod[w].phase \in {"pending", "running"} /\ disk' = disk
    BY <1>5 DEF PodStarts, PodDies
  <2>3. p \in Pod /\ p.by = pod[w].by /\ p.doomed = pod[w].doomed
        /\ (p.phase = "dead" \/ (p.phase = "running" /\ p.expired = pod[w].expired))
    BY <1>2 DEF Pod
  <2> QED  BY <1>3, <1>4, <2>1, <2>2, <2>3
<1>6. CASE Expire(w) \/ GoIdle(w)
  <2>1. PICK p \in {[pod[w] EXCEPT !.expired = TRUE], [pod[w] EXCEPT !.idle = TRUE]} : PodMoves(w, p) /\ disk' = disk
    BY <1>6 DEF Expire, GoIdle, PodMoves
  <2>2. p \in Pod /\ p.by = pod[w].by /\ p.doomed = pod[w].doomed /\ p.phase = pod[w].phase
        /\ (pod[w].expired => p.expired)
    BY <1>2 DEF Pod
  <2> QED  BY <1>3, <1>4, <2>1, <2>2
<1>7. CASE PodGone(w)
  BY <1>3, <1>7 DEF PodGone, PodSteps
<1>8. CASE DiskGone(w)
  BY <1>3, <1>8 DEF DiskGone, DiskSteps
<1>9. CASE ThrottleLapses(w)
  BY <1>3, <1>9 DEF ThrottleLapses, cluster
<1> QED  BY <1>1, <1>3, <1>5, <1>6, <1>7, <1>8, <1>9

LEMMA ClusterMoves ==
  ASSUME Typed, [Next]_vars
  PROVE  /\ ExtraType' /\ MemType'
         /\ disk' = disk \/ \E w \in Workspaces : DiskSteps(w)
         /\ pod' = pod \/ \E w \in Workspaces : PodSteps(w)
<1>0. ExtraType /\ MemType
  BY DEF Typed
<1>1. CASE UNCHANGED <<cluster, memory>>
  BY <1>0, <1>1 DEF cluster, memory, ExtraType, MemType
<1>2. ASSUME NEW r \in Requests, Arrive(r)
      PROVE  UNCHANGED cluster /\ MemType'
  BY <1>0, <1>2 DEF Arrive, MemType
<1>3. ASSUME NEW r \in Requests, Quiet(r)
      PROVE  UNCHANGED cluster /\ MemType'
  BY <1>0, <1>3, QuietKeeps DEF Release, MemType
<1>4. ASSUME NEW r \in Requests, CreateNext(r)
      PROVE  /\ ExtraType' /\ MemType'
             /\ disk' = disk \/ \E w \in Workspaces : DiskSteps(w)
             /\ pod' = pod \/ \E w \in Workspaces : PodSteps(w)
  <2> DEFINE w == job[r].ws
  <2>1. /\ ExtraType' /\ UNCHANGED memory /\ w \in Workspaces
        /\ \/ UNCHANGED cluster /\ Delete(r, Rollback(r), "failed")
           \/ /\ Proceed(r) \/ Delete(r, Rollback(r), "failed")
              /\ \/ /\ Head(job[r].todo) = "disk" /\ disk[w].st = "none"
                    /\ DiskMoves(w, NewDisk(r)) /\ pod' = pod
                 \/ /\ Head(job[r].todo) = "pod" /\ pod[w].phase = "none"
                    /\ PodMoves(w, NewPod(r)) /\ disk' = disk
                 \/ /\ Head(job[r].todo) \notin {"disk", "pod"}
                    /\ disk' = disk /\ pod' = pod
    BY <1>4, Creates
  <2>2. MemType'
    BY <1>0, <2>1 DEF memory, MemType
  <2> HIDE DEF w
  <2>3. /\ disk' = disk \/ DiskSteps(w)
        /\ pod' = pod \/ PodSteps(w)
    BY <1>4, <2>1, Zenon DEF DiskSteps, PodSteps, cluster, w
  <2> QED  BY <2>1, <2>2, <2>3
<1>5. ASSUME NEW h \in Handlers, DeleteNext(h)
      PROVE  /\ ExtraType' /\ MemType'
             /\ disk' = disk \/ \E w \in Workspaces : DiskSteps(w)
             /\ pod' = pod \/ \E w \in Workspaces : PodSteps(w)
  <2> DEFINE w == job[h].ws
  <2>1. /\ w \in Workspaces /\ Proceed(h)
        /\ \/ UNCHANGED <<cluster, memory>>
           \/ /\ ExtraType'
              /\ disk' = disk \/ (Head(job[h].todo) = "disk" /\ DiskMoves(w, DyingDisk(disk[w])))
              /\ pod' = pod \/ (Head(job[h].todo) = "pod" /\ PodMoves(w, DyingPod(pod[w])))
              /\ UNCHANGED memory \/ (busy' = busy \ {w} /\ touched' = touched \ {w})
    BY <1>5, Deletes DEF memory
  <2>2. ExtraType' /\ MemType'
    BY <1>0, <2>1 DEF memory, MemType, cluster, ExtraType
  <2> HIDE DEF w
  <2>3. /\ disk' = disk \/ DiskSteps(w)
        /\ pod' = pod \/ PodSteps(w)
    BY <1>5, <2>1, Zenon DEF DiskSteps, PodSteps, cluster, w
  <2> QED  BY <2>1, <2>2, <2>3
<1>6. ASSUME NEW r \in Requests, Erase(r)
      PROVE  /\ UNCHANGED <<pod, extra, memory>> /\ job[r].ws \in Workspaces
             /\ disk' = disk \/ DiskSteps(job[r].ws)
  <2>1. job[r].ws \in Workspaces
    BY <1>6 DEF Erase, Typed, AllFit, Fits
  <2> QED  BY <1>6, <2>1 DEF Erase, DiskSteps, DiskMoves
<1>7. ASSUME NEW r \in Requests, Touch(r)
      PROVE  /\ ExtraType' /\ MemType' /\ disk' = disk
             /\ pod' = pod \/ \E w \in Workspaces : PodSteps(w)
  <2> DEFINE w == job[r].ws
  <2>1. /\ disk' = disk /\ extra' = extra /\ busy' = busy /\ touched' = touched \union {w}
        /\ w \in Workspaces /\ (pod' = pod \/ Ages(w))
    BY <1>7, TouchMoves
  <2>2. ExtraType' /\ MemType'
    BY <1>0, <2>1 DEF ExtraType, MemType
  <2>3. pod' = pod \/ PodSteps(w)
    BY <2>1, Zenon DEF PodSteps
  <2> QED  BY <2>1, <2>2, <2>3
<1>8. CASE Environment
  BY <1>0, <1>8, EnvironmentMoves DEF ExtraType, MemType
<1>9. CASE Crash
  BY <1>0, <1>9 DEF Crash, cluster, ExtraType, MemType
<1>10. CASE Reap
  BY <1>1, <1>5, <1>10 DEF Reap, Sweep, ReapNext, ReapEnd, Handlers
<1>11. ASSUME NEW r \in Requests, Serve(r) \/ Arrive(r)
       PROVE  /\ ExtraType' /\ MemType'
              /\ disk' = disk \/ \E w \in Workspaces : DiskSteps(w)
              /\ pod' = pod \/ \E w \in Workspaces : PodSteps(w)
  <2>1. CASE Arrive(r) \/ Quiet(r)
    BY <1>0, <1>2, <1>3, <2>1 DEF cluster, ExtraType
  <2>2. CASE CreateNext(r)
    BY <1>4, <2>2
  <2>3. CASE DeleteNext(r)
    BY <1>5, <2>3 DEF Handlers
  <2>4. CASE Erase(r)
    BY <1>0, <1>6, <2>4 DEF memory, ExtraType, MemType
  <2>5. CASE Touch(r)
    BY <1>7, <2>5
  <2> QED  BY <1>11, <2>1, <2>2, <2>3, <2>4, <2>5, Serves
<1> QED  BY <1>1, <1>8, <1>9, <1>10, <1>11 DEF Next, vars

LEMMA InitType == Init => Typed
<1> SUFFICES ASSUME Init PROVE Typed
  OBVIOUS
<1>1. DiskType
  <2>1. NoDisk \in Disk /\ NewDisk(Nil) \in Disk
    BY Made DEF NoDisk, Disk, Makers
  <2> QED  BY <2>1 DEF Init, DiskType, Disk
<1>2. PodType /\ ExtraType
  <2>1. NoPod \in Pod /\ [NoPod EXCEPT !.phase = "running"] \in Pod
    BY DEF NoPod, Pod, Makers
  <2> DEFINE on == [NoPod EXCEPT !.phase = "running"]
  <2> HIDE DEF on
  <2>2. PICK up \in SUBSET {w \in Workspaces : disk[w].st = "bound"} :
          /\ pod = [w \in Workspaces |-> IF w \in up THEN on ELSE NoPod]
          /\ extra = [w \in Workspaces |-> IF w \in up THEN {"egress"} ELSE {}]
    BY DEF Init, on
  <2>3. pod \in [Workspaces -> Pod]
    BY <2>1, <2>2 DEF on
  <2> QED  BY <2>2, <2>3 DEF PodType, ExtraType, Extras, Pod
<1>3. MemType /\ CountType
  <2>1. /\ busy = {} /\ touched = {} /\ raced = FALSE /\ wiped = FALSE
        /\ errors = 0 /\ slips = 0 /\ crashes = 0
    BY DEF Init
  <2>2. raced \in BOOLEAN /\ wiped \in BOOLEAN
    BY <2>1, Zenon
  <2>3. errors \in 0 .. MaxErrors /\ slips \in 0 .. MaxSlips /\ crashes \in 0 .. MaxCrashes
    BY <2>1, ConstantsAssumption
  <2> QED  BY <2>1, <2>2, <2>3 DEF MemType, CountType
<1>4. JobType /\ AllFit
  <2>1. <<>> \in Seq(Extras \union {"disk", "pod", "memory"}) /\ 0 \in 0 .. EraseAttempts - 1
    BY ConstantsAssumption
  <2>2. Blank \in Job /\ Blank.pc = "idle" /\ Blank.op = "none"
    BY <2>1 DEF Job, Blank
  <2>3. job = [h \in Handlers |-> Blank]
    BY DEF Init
  <2>4. Fits(Blank) /\ ReaperFits(Blank)
    BY <2>2 DEF Fits, ReaperFits
  <2> QED  BY <2>2, <2>3, <2>4 DEF JobType, AllFit, Handlers
<1> QED  BY <1>1, <1>2, <1>3, <1>4 DEF Typed

LEMMA NextType == Typed /\ [Next]_vars => Typed'
<1> SUFFICES ASSUME Typed, [Next]_vars PROVE Typed'
  OBVIOUS
<1>0. /\ disk \in [Workspaces -> Disk] /\ pod \in [Workspaces -> Pod]
      /\ NoDisk \in Disk /\ NoPod \in Pod
  BY DEF Typed, DiskType, PodType, Disk, Pod, NoDisk, NoPod, Makers
<1>1. DiskType'
  <2>1. ASSUME NEW w \in Workspaces, DiskSteps(w) PROVE \E d \in Disk : DiskMoves(w, d)
    <3>1. DyingDisk(disk[w]) \in Disk
      BY <1>0, Dying
    <3>2. \A r \in Requests : NewDisk(r) \in Disk
      BY Made DEF Makers
    <3>3. DiskGone(w) => DiskMoves(w, NoDisk)
      BY DEF DiskGone, DiskMoves
    <3> QED  BY <1>0, <2>1, <3>1, <3>2, <3>3, Zenon DEF DiskSteps
  <2>2. disk' = disk \/ \E w \in Workspaces, d \in Disk : DiskMoves(w, d)
    BY <2>1, ClusterMoves
  <2>3. disk' \in [Workspaces -> Disk]
    BY <1>0, <2>2 DEF DiskMoves
  <2> QED  BY <2>3 DEF DiskType, Disk
<1>2. PodType'
  <2>1. ASSUME NEW w \in Workspaces, PodSteps(w) PROVE \E p \in Pod : PodMoves(w, p)
    <3>1. DyingPod(pod[w]) \in Pod
      <4>1. NoDisk \in Disk /\ pod[w] \in Pod
        BY <1>0
      <4> QED  BY <4>1, Dying
    <3>2. \A r \in Requests : NewPod(r) \in Pod
      BY Made DEF Makers
    <3>3. PodGone(w) => PodMoves(w, NoPod)
      BY DEF PodGone, PodMoves
    <3>4. Ages(w) => \E p \in Pod : PodMoves(w, p)
      BY DEF Ages
    <3> QED  BY <1>0, <2>1, <3>1, <3>2, <3>3, <3>4, Zenon DEF PodSteps
  <2>2. pod' = pod \/ \E w \in Workspaces, p \in Pod : PodMoves(w, p)
    BY <2>1, ClusterMoves
  <2>3. pod' \in [Workspaces -> Pod]
    BY <1>0, <2>2 DEF PodMoves
  <2> QED  BY <2>3 DEF PodType, Pod
<1>3. JobType' /\ AllFit'
  <2>1. CASE UNCHANGED job
    BY <2>1 DEF Typed, JobType, AllFit
  <2>2. ASSUME NEW r \in Requests, Arrive(r) \/ Serve(r) PROVE JobType' /\ AllFit'
    BY <2>2, ArriveFits, ServeOwn, ActsFit DEF Own
  <2>3. CASE Reap
    BY <2>3, ReapFits, ActsFit
  <2>4. CASE Environment
    BY <2>1, <2>4, EnvironmentMoves
  <2> QED  BY <2>1, <2>2, <2>3, <2>4, CrashFits DEF Next, vars
<1> QED  BY <1>1, <1>2, <1>3, CountNext, ClusterMoves DEF Typed

\* Every variable keeps its type, and every request stays on the path of its operation
\* (terminal.service.ts): Fits is what makes this inductive.
THEOREM WorkspaceTypes == Spec => []TypeOK
<1>1. Spec => []Typed
  BY InitType, NextType, PTL DEF Spec
<1> QED  BY <1>1, Parted, PTL

-----------------------------------------------------------------------------
(* Deletions and commands.                                                 *)

\* A request is another one only by a step of its own, or by a restart.
LEMMA OwnSteps ==
  ASSUME Typed, [Next]_vars, NEW r \in Requests
  PROVE  job'[r] = job[r] \/ Arrive(r) \/ Serve(r) \/ Crash
<1>1. ASSUME NEW q \in Requests, Arrive(q) \/ Serve(q), q # r PROVE job'[r] = job[r]
  <2>1. Acts(q)
    BY <1>1, ArriveFits, ServeOwn DEF Own
  <2> QED  BY <1>1, <2>1 DEF Acts, Handlers
<1>2. Reap => job'[r] = job[r]
  BY ReapFits, ConstantsAssumption DEF Acts, Handlers
<1>3. Environment \/ UNCHANGED vars => job'[r] = job[r]
  BY EnvironmentMoves DEF vars
<1> QED  BY <1>1, <1>2, <1>3 DEF Next

\* What is not bound is made so only by a request.
LEMMA BoundByMaker ==
  ASSUME Typed, [Next]_vars, NEW w \in Workspaces, disk[w].st # "bound" \/ disk[w].by # Nil
  PROVE  disk'[w].st # "bound" \/ disk'[w].by # Nil
<1>0. disk \in [Workspaces -> Disk]
  BY DEF Typed, DiskType, Disk
<1>1. ASSUME NEW v \in Workspaces, DiskSteps(v) PROVE disk'[w].st # "bound" \/ disk'[w].by # Nil
  <2>1. \A r \in Requests : r \in Makers /\ NewDisk(r).by # Nil
    BY Made, ConstantsAssumption DEF Makers
  <2>2. DyingDisk(disk[v]).st # "bound" /\ NoDisk.st # "bound"
    BY <1>0, NoPodTyped, Dying DEF NoDisk
  <2>3. DiskGone(v) => DiskMoves(v, NoDisk)
    BY DEF DiskGone, DiskMoves
  <2>4. \E d : DiskMoves(v, d) /\ (d.st # "bound" \/ d.by # Nil)
    BY <1>1, <2>1, <2>2, <2>3, Zenon DEF DiskSteps
  <2> QED  BY <1>0, <2>4 DEF DiskMoves
<1> QED  BY <1>1, ClusterMoves

LEMMA DeletionServes ==
  ASSUME Typed, NEW r \in Requests, Serve(r), job[r].op = "delete", job'[r].pc = "done"
  PROVE  UNCHANGED cluster /\ disk[job[r].ws].st # "bound" /\ job'[r].ws = job[r].ws
<1>0. Fits(job[r]) /\ JobType /\ r \in Handlers /\ job[r].todo \in Seq(Items)
  BY DEF Typed, AllFit, JobType, Job, Items, Handlers
<1>1. DeleteNext(r) \/ Erase(r) \/ Verify(r)
  BY <1>0 DEF Serve, Fits, ReadDisk, ReadPod, AwaitGone, CountPods, CountDisks, CreateNext, AwaitRunning, Seed,
         Require, Touch, Work, Listed, ThrowAt
<1>2. ~DeleteNext(r)
  <2> SUFFICES ASSUME DeleteNext(r) PROVE FALSE
    OBVIOUS
  <2>1. job[r].pc = "deleting" /\ job[r].todo # <<>> /\ job[r].after = "erase" /\ Proceed(r)
    BY <1>0 DEF DeleteNext, Fits
  <2> QED  BY <1>0, <2>1, ProceedsTo DEF Works, Goes
<1>3. Retry(r) => job'[r].pc \in {"erase", "failed"}
  BY <1>1, <1>2, RetryOwn DEF Erase, Verify
<1>4. Go(r, "verify") => job'[r].pc = "verify"
  BY <1>0, GoesTo DEF Goes, Pcs
<1>5. Go(r, "done") => job'[r].ws = job[r].ws
  BY <1>0, GoesTo DEF Goes, Pcs, Over
<1> QED  BY <1>1, <1>2, <1>3, <1>4, <1>5 DEF Erase, Verify

\* deletePvcOrThrow answers only after it has read back that the disk is gone or going,
\* and what is made later under the same name has another maker.
THEOREM WorkspaceDeletionIsReal == Spec => []DeletionIsReal
<1>1. Init => DeletionIsReal
  BY DEF Init, Blank, DeletionIsReal, Handlers
<1>2. ASSUME Typed, DeletionIsReal, [Next]_vars PROVE DeletionIsReal'
  <2> SUFFICES ASSUME NEW r \in Requests, job'[r].op = "delete", job'[r].pc = "done"
               PROVE  disk'[job'[r].ws].st # "bound" \/ disk'[job'[r].ws].by # Nil
    BY DEF DeletionIsReal
  <2>1. CASE job'[r] = job[r]
    <3>1. job[r].ws \in Workspaces
      BY <1>2, <2>1 DEF Typed, AllFit, Fits
    <3> QED  BY <1>2, <2>1, <3>1, BoundByMaker DEF DeletionIsReal
  <2>2. CASE Serve(r)
    <3>1. job[r].op = "delete"
      BY <1>2, <2>2, ServeOwn DEF Own
    <3> QED  BY <1>2, <2>2, <3>1, DeletionServes DEF cluster
  <2>3. CASE Arrive(r)
    BY <1>2, <2>3, ArriveFits
  <2>4. CASE Crash /\ job'[r] # job[r]
    BY <1>2, <2>4, CrashFits
  <2> QED  BY <1>2, <2>1, <2>2, <2>3, <2>4, OwnSteps
<1>3. Spec => []Typed
  BY InitType, NextType, PTL DEF Spec
<1> QED  BY <1>1, <1>2, <1>3, PTL DEF Spec

\* A command in progress, and the mark that it holds: it keeps both, or gives up both; a
\* stop takes the mark, of whoever holds it.
LEMMA ServeMarks ==
  ASSUME Typed, NEW r \in Requests, Serve(r)
  PROVE  /\ \A v : r \in Commands(v)' => r \in Commands(v)
         /\ ~wiped' => ~wiped
         /\ \/ busy' = busy /\ \A v : r \in Commands(v) => r \in Commands(v)'
            \/ /\ r \in Commands(job[r].ws) /\ (\A v : r \notin Commands(v)')
               /\ busy' = busy \ {job[r].ws}
            \/ /\ \A v : r \notin Commands(v)
               /\ busy' = busy \ {job[r].ws} /\ (~wiped' => Commands(job[r].ws) = {})
<1>0. Fits(job[r]) /\ JobType /\ r \in Handlers /\ wiped \in BOOLEAN
  BY DEF Typed, AllFit, JobType, Handlers, CountType
<1>1. job'[r].op = job[r].op /\ job'[r].ws = job[r].ws
  BY ServeOwn DEF Own
<1>2. CASE job[r].op # "exec"
  <2>1. \A v : r \notin Commands(v) /\ r \notin Commands(v)'
    BY <1>1, <1>2 DEF Commands
  <2>2. CASE DeleteNext(r)
    <3>1. \/ UNCHANGED <<busy, wiped>>
          \/ busy' = busy \ {job[r].ws} /\ wiped' = (wiped \/ Commands(job[r].ws) # {})
      BY <1>0, <2>2, Deletes DEF memory
    <3>2. \/ UNCHANGED <<busy, wiped>>
          \/ busy' = busy \ {job[r].ws} /\ (~wiped' => ~wiped /\ Commands(job[r].ws) = {})
      BY <3>1, Zenon
    <3> QED  BY <2>1, <3>2
  <2>3. CASE ~DeleteNext(r)
    <3>1. CASE Quiet(r)
      BY <1>2, <2>1, <3>1, QuietKeeps DEF Release
    <3>2. CASE CreateNext(r)
      BY <2>1, <3>2, Creates DEF memory, CreateNext, budget, history, Errs
    <3>3. CASE Erase(r) \/ Touch(r)
      BY <2>1, <3>3, TouchMoves DEF memory, Erase, budget, history, Errs
    <3> QED  BY <2>3, <3>1, <3>2, <3>3, Serves
  <2> QED  BY <2>2, <2>3
<1>3. CASE job[r].op = "exec"
  <2>1. Require(r) \/ Touch(r) \/ Work(r)
    BY <1>0, <1>3 DEF Serve, Fits, ReadDisk, ReadPod, AwaitGone, CountPods, CountDisks, CreateNext, AwaitRunning,
         Seed, DeleteNext, Erase, Verify, Listed, ThrowAt
  <2>2. r \in Commands(job[r].ws) /\ \A v : r \in Commands(v) => v = job[r].ws
    BY <1>3, <2>1 DEF Commands, Require, Touch, Work
  <2>3. \A v : r \in Commands(v)' => r \in Commands(v)
    BY <1>1, <2>2 DEF Commands
  <2>4. UNCHANGED wiped
    BY <2>1, QuietKeeps, TouchMoves DEF Quiet
  <2>5. ASSUME NEW l \in {"touch", "work"}, Go(r, l) PROVE r \in Commands(job[r].ws)'
    BY <1>0, <1>1, <1>3, <2>5, GoesTo DEF Commands, Pcs, Goes
  <2>6. ASSUME NEW l \in {"done", "failed"}, Go(r, l) PROVE \A v : r \notin Commands(v)'
    <3>1. job'[r].pc = l
      BY <1>0, <2>6, GoesTo DEF Goes, Pcs, Over
    <3> QED  BY <3>1 DEF Commands
  <2>7. Release(r) => busy' = busy \ {job[r].ws}
    BY <1>3 DEF Release
  <2>8. \/ busy' = busy /\ r \in Commands(job[r].ws)'
        \/ (\A v : r \notin Commands(v)') /\ busy' = busy \ {job[r].ws}
    <3>1. CASE Require(r)
      BY <2>5, <2>6, <2>7, <3>1 DEF Require
    <3>2. CASE Touch(r)
      BY <1>3, <2>5, <3>2 DEF Touch
    <3>3. CASE Work(r)
      BY <2>6, <2>7, <3>3 DEF Work
    <3> QED  BY <2>1, <3>1, <3>2, <3>3
  <2>9. \A v : r \in Commands(v) => v = job[r].ws
    BY <2>2
  <2>10. busy' = busy /\ r \in Commands(job[r].ws)' => \A v : r \in Commands(v) => r \in Commands(v)'
    BY <1>1, <2>9 DEF Commands
  <2> QED  BY <2>2, <2>3, <2>4, <2>8, <2>10
<1> QED  BY <1>2, <1>3

LEMMA ArriveMarks ==
  ASSUME Typed, NEW r \in Requests, Arrive(r)
  PROVE  /\ \A v : r \notin Commands(v)
         /\ ~wiped' => ~wiped
         /\ \/ busy' = busy /\ \A v : r \notin Commands(v)'
            \/ \E w \in Workspaces : /\ w \notin busy /\ busy' = busy \union {w}
                                     /\ \A v : r \in Commands(v)' <=> v = w
<1>0. JobType /\ r \in Handlers /\ job[r].pc = "idle"
  BY DEF Typed, Handlers, Arrive
<1>1. PICK op \in Ops, w \in Workspaces :
        /\ job' = [job EXCEPT ![r] =
             [Blank EXCEPT !.op = op, !.ws = w,
                !.pc    = IF Refused(op, w) THEN "failed" ELSE FirstStep(op),
                !.todo  = IF op \in {"stop", "delete"} THEN StopOrder ELSE <<>>,
                !.after = IF op = "delete" THEN "erase" ELSE "done"]]
        /\ busy' = IF op = "exec" THEN busy \union {w} ELSE busy
        /\ UNCHANGED wiped
  BY DEF Arrive
<1> DEFINE l == IF Refused(op, w) THEN "failed" ELSE FirstStep(op)
           t == IF op \in {"stop", "delete"} THEN StopOrder ELSE <<>>
           a == IF op = "delete" THEN "erase" ELSE "done"
           v0 == [Blank EXCEPT !.op = op, !.ws = w, !.pc = l, !.todo = t, !.after = a]
<1>2. op = "exec" => l = IF w \in busy THEN "failed" ELSE "require"
  BY DEF Refused, FirstStep
<1>3. job' = [job EXCEPT ![r] = v0]
  BY <1>1
<1> HIDE DEF l, t, a
<1>4. v0.op = op /\ v0.ws = w /\ v0.pc = l
  BY DEF Blank
<1> HIDE DEF v0
<1>5. job'[r] = v0
  BY <1>0, <1>3 DEF JobType
<1>6. CASE op = "exec" /\ w \notin busy
  BY <1>0, <1>1, <1>2, <1>4, <1>5, <1>6 DEF Commands
<1>7. CASE ~(op = "exec" /\ w \notin busy)
  BY <1>0, <1>1, <1>2, <1>4, <1>5, <1>7 DEF Commands
<1> QED  BY <1>6, <1>7

\* The others: a restart ends every command and forgets every mark.
LEMMA MarksKept ==
  ASSUME Typed, [Next]_vars
  PROVE  \/ \E r \in Requests : /\ Arrive(r) \/ Serve(r)
                                /\ \A q \in Requests \ {r} : job'[q] = job[q]
         \/ Crash /\ busy' = {} /\ wiped' = wiped /\ \A v : Commands(v)' = {}
         \/ /\ \A q \in Requests : job'[q] = job[q]
            /\ ~wiped' => ~wiped
            /\ \/ busy' = busy
               \/ \E w \in Workspaces : busy' = busy \ {w} /\ (~wiped' => Commands(w) = {})
<1>1. ASSUME NEW r \in Requests, Arrive(r) \/ Serve(r)
      PROVE  \A q \in Requests \ {r} : job'[q] = job[q]
  BY <1>1, ArriveFits, ServeOwn DEF Own, Acts, Handlers
<1>2. CASE Crash
  <2>1. \A q \in Requests : job'[q].pc \in Over \union {"idle"}
    BY <1>2, CrashFits DEF Over
  <2> QED  BY <1>2, <2>1 DEF Crash, Commands, history, Over
<1>3. CASE Reap
  <2>1. \A q \in Requests : job'[q] = job[q]
    BY <1>3, ReapFits, ConstantsAssumption DEF Acts, Handlers
  <2>2. CASE DeleteNext(Reaper)
    <3>1. /\ job[Reaper].ws \in Workspaces
          /\ \/ UNCHANGED <<busy, wiped>>
             \/ /\ busy' = busy \ {job[Reaper].ws}
                /\ wiped' = (wiped \/ Commands(job[Reaper].ws) # {})
      BY <2>2, Deletes DEF memory, Handlers
    <3>2. \/ UNCHANGED <<busy, wiped>>
          \/ /\ busy' = busy \ {job[Reaper].ws}
             /\ ~wiped' => ~wiped /\ Commands(job[Reaper].ws) = {}
      BY <3>1, Zenon
    <3> QED  BY <2>1, <3>1, <3>2
  <2>3. CASE Sweep \/ ReapNext \/ ReapEnd
    BY <2>1, <2>3 DEF Sweep, ReapNext, ReapEnd, memory, budget, history
  <2> QED  BY <1>3, <2>2, <2>3 DEF Reap
<1>4. CASE Environment
  BY <1>4, EnvironmentMoves
<1>5. CASE UNCHANGED vars
  BY <1>5 DEF vars, memory, budget, history
<1> QED  BY <1>1, <1>2, <1>3, <1>4, <1>5 DEF Next

\* The finally of exec, and the restart, release what no stop has: a workspace is marked
\* busy only while a command of it is in progress.
THEOREM WorkspaceBusyHasCommand == Spec => []BusyHasCommand
<1>1. Init => BusyHasCommand
  BY DEF Init, BusyHasCommand
<1>2. ASSUME Typed, BusyHasCommand, [Next]_vars PROVE BusyHasCommand'
  <2> SUFFICES ASSUME NEW v \in busy' PROVE \E q \in Requests : q \in Commands(v)'
    BY DEF BusyHasCommand, Commands
  <2>0. /\ \A u, q : q \in Commands(u) => q \in Requests
        /\ \A q \in Requests : job'[q] = job[q] => (q \in Commands(v) <=> q \in Commands(v)')
        /\ v \in busy => \E q \in Requests : q \in Commands(v)
    BY <1>2 DEF Commands, BusyHasCommand
  <2>1. ASSUME NEW r \in Requests, Serve(r), \A q \in Requests \ {r} : job'[q] = job[q]
        PROVE  \E q \in Requests : q \in Commands(v)'
    <3>1. v \in busy /\ (r \in Commands(v) => r \in Commands(v)')
      BY <1>2, <2>1, ServeMarks DEF Commands
    <3> QED  BY <2>0, <2>1, <3>1
  <2>2. ASSUME NEW r \in Requests, Arrive(r), \A q \in Requests \ {r} : job'[q] = job[q]
        PROVE  \E q \in Requests : q \in Commands(v)'
    BY <1>2, <2>0, <2>2, ArriveMarks
  <2>3. CASE /\ \A q \in Requests : job'[q] = job[q]
             /\ busy' = busy \/ \E w \in Workspaces : busy' = busy \ {w}
    BY <2>0, <2>3
  <2> QED  BY <1>2, <2>1, <2>2, <2>3, MarksKept
<1>3. Spec => []Typed
  BY InitType, NextType, PTL DEF Spec
<1> QED  BY <1>1, <1>2, <1>3, PTL DEF Spec

\* While no mark has been taken from a running command, a command holds its mark, and no
\* other runs in its workspace.
Alone(v) == (Commands(v) # {} => v \in busy) /\ \A p, q \in Commands(v) : p = q
Held     == ~wiped => \A v \in Workspaces : Alone(v)

\* One command at a time per project, as long as no stopPod (of a stop, a deletion, a
\* restarted pod or the sweep) takes the mark of one that runs.
THEOREM WorkspaceOneCommand == Spec => []OneCommandUnlessWiped
<1>1. Init => Held
  BY DEF Init, Blank, Held, Alone, Commands, Handlers
<1>2. ASSUME Typed, Held, [Next]_vars PROVE Held'
  <2> SUFFICES ASSUME ~wiped', NEW v \in Workspaces PROVE Alone(v)'
    BY DEF Held
  <2>0. \A q \in Requests : job'[q] = job[q] => (q \in Commands(v) <=> q \in Commands(v)')
    BY DEF Commands
  <2>1. Commands(v) \subseteq Requests /\ Commands(v)' \subseteq Requests
    BY DEF Commands
  <2>2. ASSUME NEW r \in Requests, Serve(r), \A q \in Requests \ {r} : job'[q] = job[q]
        PROVE  Alone(v)'
    <3>1. ~wiped
      BY <1>2, <2>2, ServeMarks
    <3>2. Alone(v)
      BY <1>2, <3>1 DEF Held
    <3>3. Commands(v)' \subseteq Commands(v)
      BY <1>2, <2>0, <2>1, <2>2, ServeMarks
    <3>4. Commands(v)' # {} => v \in busy'
      BY <1>2, <2>0, <2>1, <2>2, <3>2, <3>3, ServeMarks DEF Alone
    <3> QED  BY <3>2, <3>3, <3>4 DEF Alone
  <2>3. ASSUME NEW r \in Requests, Arrive(r), \A q \in Requests \ {r} : job'[q] = job[q]
        PROVE  Alone(v)'
    <3>1. ~wiped
      BY <1>2, <2>3, ArriveMarks
    <3>2. Alone(v)
      BY <1>2, <3>1 DEF Held
    <3>3. CASE busy' = busy /\ r \notin Commands(v)'
      BY <2>0, <2>1, <2>3, <3>2, <3>3 DEF Alone
    <3>4. ASSUME NEW w, w \notin busy, busy' = busy \union {w}, r \in Commands(v)' <=> v = w
          PROVE  Alone(v)'
      BY <2>0, <2>1, <2>3, <3>2, <3>4 DEF Alone
    <3> QED  BY <1>2, <2>3, <3>3, <3>4, ArriveMarks
  <2>4. CASE Commands(v)' = {}
    BY <2>4 DEF Alone
  <2>5. CASE /\ \A q \in Requests : job'[q] = job[q]
             /\ ~wiped
             /\ \/ busy' = busy
                \/ \E w \in Workspaces : busy' = busy \ {w} /\ (~wiped' => Commands(w) = {})
    <3>1. Alone(v)
      BY <1>2, <2>5 DEF Held
    <3>2. Commands(v)' = Commands(v)
      BY <2>0, <2>1, <2>5
    <3> QED  BY <2>5, <3>1, <3>2 DEF Alone
  <2> QED  BY <1>2, <2>2, <2>3, <2>4, <2>5, MarksKept
<1>3. Held => OneCommandUnlessWiped
  <2> SUFFICES ASSUME Held, ~wiped, NEW v \in Workspaces PROVE Cardinality(Commands(v)) <= 1
    BY DEF OneCommandUnlessWiped, OneCommand
  <2>1. \A p, q \in Commands(v) : p = q
    BY DEF Held, Alone
  <2>2. Commands(v) = {} \/ \E q : Commands(v) = {q}
    BY <2>1
  <2>3. CASE Commands(v) = {}
    BY <2>3, FS_EmptySet
  <2>4. ASSUME NEW q, Commands(v) = {q} PROVE Cardinality(Commands(v)) = 1
    BY <2>4, FS_Singleton
  <2> QED  BY <2>2, <2>3, <2>4
<1>4. Spec => []Typed
  BY InitType, NextType, PTL DEF Spec
<1> QED  BY <1>1, <1>2, <1>3, <1>4, PTL DEF Spec

-----------------------------------------------------------------------------
(* The course of a start.                                                  *)

\* Up to its first object; what it has made already it does not touch.
Early == {"readDisk", "readPod", "awaitGone", "count", "countDisks", "touch"}
Ready == {"awaitRunning", "seed"}

Prepares(r) ==
  /\ job[r].pc \in Early /\ disk' = disk
  /\ \/ job[r].pc = "readDisk" /\ ReadDisk(r) /\ job'[r].pc = "readPod"
     \/ \E l \in {"count", "touch", "failed", "done"} : Goes(r, l)
     \/ job[r].pc = "count" /\ ~PodLimitReached /\ Goes(r, "countDisks")
     \/ Works(r, "deleting", StopOrder, "awaitGone")
     \/ /\ job[r].pc = "count" /\ ~PodLimitReached /\ ~job[r].fresh
        /\ Works(r, "creating", StartOrder(FALSE), "awaitRunning")
     \/ /\ job[r].pc = "countDisks" /\ ~(Cardinality(Disks) >= MaxWorkspaces)
        /\ Works(r, "creating", StartOrder(TRUE), "awaitRunning")

Waits(r) ==
  /\ job[r].pc \in Ready /\ UNCHANGED <<disk, pod>>
  /\ Goes(r, "seed") \/ Goes(r, "done") \/ Works(r, "deleting", Rollback(r), "failed")

LEMMA StartServes ==
  ASSUME Typed, NEW r \in Requests, Serve(r), job[r].op = "start"
  PROVE  Prepares(r) \/ Waits(r) \/ CreateNext(r) \/ DeleteNext(r)
<1>0. Fits(job[r]) /\ JobType /\ r \in Handlers
  BY DEF Typed, AllFit, Handlers
<1>1. ASSUME NEW l \in Pcs, Go(r, l) PROVE Goes(r, l)
  BY <1>0, <1>1, GoesTo
<1>2. CASE ReadDisk(r)
  BY <1>2, ReadsOwn DEF Prepares, Early, ReadDisk, cluster
<1>3. CASE ReadPod(r)
  <2>1. job[r].pc \in Early /\ disk' = disk
    BY <1>3 DEF ReadPod, Early, cluster
  <2>2. Go(r, "count") \/ Go(r, "touch") \/ Delete(r, StopOrder, "awaitGone")
    BY <1>3 DEF ReadPod
  <2>3. Goes(r, "count") \/ Goes(r, "touch") \/ Works(r, "deleting", StopOrder, "awaitGone")
    BY <1>0, <1>1, <2>2, Lists, ListsTo DEF Pcs, Afters
  <2> QED  BY <2>1, <2>3, Zenon DEF Prepares
<1>4. CASE AwaitGone(r) \/ Touch(r)
  <2>1. job[r].pc \in Early /\ disk' = disk
    BY <1>4 DEF AwaitGone, Touch, Early, cluster
  <2>2. Go(r, "count") \/ Go(r, "failed") \/ Go(r, "done")
    BY <1>4 DEF AwaitGone, Touch
  <2>3. Goes(r, "count") \/ Goes(r, "failed") \/ Goes(r, "done")
    BY <1>1, <2>2 DEF Pcs, Over
  <2> QED  BY <2>1, <2>3 DEF Prepares
<1>5. CASE CountPods(r)
  <2>1. job[r].pc \in Early /\ disk' = disk /\ job[r].pc = "count"
    BY <1>5 DEF CountPods, Early, cluster
  <2>2. \/ Goes(r, "failed")
        \/ ~PodLimitReached /\ Goes(r, "countDisks")
        \/ /\ ~PodLimitReached /\ ~job[r].fresh
           /\ Works(r, "creating", StartOrder(FALSE), "awaitRunning")
    BY <1>0, <1>1, <1>5, Lists, ListsTo DEF CountPods, Pcs, Over, Afters
  <2> QED  BY <2>1, <2>2, Zenon DEF Prepares
<1>6. CASE CountDisks(r)
  <2>1. job[r].pc \in Early /\ disk' = disk /\ job[r].pc = "countDisks"
    BY <1>6 DEF CountDisks, Early, cluster
  <2>2. \/ Goes(r, "failed")
        \/ /\ ~(Cardinality(Disks) >= MaxWorkspaces)
           /\ Works(r, "creating", StartOrder(TRUE), "awaitRunning")
    BY <1>0, <1>1, <1>6, Lists, ListsTo DEF CountDisks, Pcs, Over, Afters
  <2> QED  BY <2>1, <2>2, Zenon DEF Prepares
<1>7. CASE AwaitRunning(r) \/ Seed(r)
  <2>1. job[r].pc \in Ready /\ UNCHANGED <<disk, pod>>
    BY <1>7 DEF AwaitRunning, Seed, Ready, cluster
  <2>2. Go(r, "seed") \/ Go(r, "done") \/ Delete(r, Rollback(r), "failed")
    BY <1>7 DEF AwaitRunning, Seed
  <2>3. Delete(r, Rollback(r), "failed") => Works(r, "deleting", Rollback(r), "failed")
    BY <2>1, RollsBack DEF Ready
  <2> QED  BY <1>1, <2>1, <2>2, <2>3 DEF Waits, Pcs, Over
<1>8. CASE \E l \in {"readDisk", "readPod", "count", "countDisks", "listed"} : ThrowAt(r, l)
  <2>1. job[r].pc \in Early /\ disk' = disk /\ Go(r, "failed")
    BY <1>0, <1>8 DEF ThrowAt, Fits, Early, cluster
  <2> QED  BY <1>1, <2>1 DEF Prepares, Pcs, Over
<1> QED  BY <1>0, <1>2, <1>3, <1>4, <1>5, <1>6, <1>7, <1>8
         DEF Serve, Fits, Erase, Verify, Require, Work, Listed

\* A list is worked through one by one; when something fails, the roll-back begins.
LEMMA BuildServes ==
  ASSUME Typed, NEW r \in Requests, CreateNext(r)
  PROVE  \/ Works(r, "deleting", Rollback(r), "failed")
         \/ /\ Proceed(r)
            /\ \/ Len(job[r].todo) > 1 /\ Works(r, "creating", Tail(job[r].todo), job[r].after)
               \/ ~(Len(job[r].todo) > 1) /\ Goes(r, job[r].after)
<1>1. job[r].pc = "creating" /\ Fits(job[r]) /\ job[r].op \in {"start", "expose"} /\ JobType /\ r \in Handlers
      /\ job[r].todo # <<>>
  BY DEF CreateNext, Typed, AllFit, Fits, Handlers
<1>2. CASE Delete(r, Rollback(r), "failed")
  BY <1>1, <1>2, RollsBack
<1>3. CASE Proceed(r)
  BY <1>1, <1>3, ProceedsTo
<1> QED  BY <1>2, <1>3, Creates

LEMMA ClearServes ==
  ASSUME Typed, NEW h \in Handlers, DeleteNext(h)
  PROVE  \/ Len(job[h].todo) > 1 /\ Works(h, "deleting", Tail(job[h].todo), job[h].after)
         \/ ~(Len(job[h].todo) > 1) /\ Goes(h, job[h].after)
<1>1. JobType /\ job[h].todo # <<>> /\ Proceed(h) /\ job[h].pc = "deleting"
  BY Deletes DEF Typed, DeleteNext
<1> QED  BY <1>1, ProceedsTo

\* Who moves, and what is never taken back.
LEMMA JobMoves ==
  ASSUME Typed, [Next]_vars
  PROVE  \/ \E r \in Requests : /\ Arrive(r) \/ Serve(r)
                                /\ \A q \in Requests \ {r} : job'[q] = job[q]
         \/ Crash /\ UNCHANGED <<disk, pod>>
         \/ \A q \in Requests : job'[q] = job[q]
BY MarksKept DEF Crash, cluster

LEMMA Lasting ==
  ASSUME Typed, [Next]_vars
  PROVE  (~raced' => ~raced) /\ (slips' = 0 => slips = 0)
<1>0. slips \in Nat /\ raced \in BOOLEAN
  BY ConstantsAssumption DEF Typed, CountType
<1>1. UNCHANGED budget \/ Errs \/ Slips => (~raced' => ~raced) /\ (slips' = 0 => slips = 0)
  BY <1>0 DEF budget, history, Errs, Slips
<1>2. ASSUME NEW r \in Requests, Arrive(r) PROVE (~raced' => ~raced) /\ (slips' = 0 => slips = 0)
  <2>2. slips' = slips
    BY <1>2 DEF Arrive
  <2>3. ~raced' => ~raced
    BY <1>2, Zenon DEF Arrive
  <2> QED  BY <2>2, <2>3
<1>3. ASSUME NEW h \in Handlers, DeleteNext(h) PROVE (~raced' => ~raced) /\ (slips' = 0 => slips = 0)
  BY <1>0, <1>3, Deletes
<1>4. ASSUME NEW r \in Requests, Serve(r), ~DeleteNext(r)
      PROVE  UNCHANGED budget \/ Errs \/ Slips
  BY <1>4 DEF Serve, ReadDisk, ReadPod, AwaitGone, CountPods, CountDisks, AwaitRunning, Seed, Verify, Require,
       Work, Listed, ThrowAt, CreateNext, Erase, Touch
<1>5. CASE Environment \/ UNCHANGED vars \/ Sweep \/ ReapNext \/ ReapEnd
  BY <1>1, <1>5 DEF Environment, PodStarts, PodDies, PodGone, DiskGone, Expire, ThrottleLapses, GoIdle, vars,
       Sweep, ReapNext, ReapEnd
<1>6. CASE Crash
  BY <1>6 DEF Crash, history
<1> QED  BY <1>1, <1>2, <1>3, <1>4, <1>5, <1>6 DEF Next, Reap, Handlers

-----------------------------------------------------------------------------
(* A start that is alone.                                                  *)

LEMMA ServesLive ==
  ASSUME Typed, NEW r \in Requests, Serve(r)
  PROVE  job[r].pc \notin Over \union {"idle"}
BY DEF Over, Serve, ReadDisk, ReadPod, AwaitGone, CountPods, CountDisks, CreateNext, AwaitRunning, Seed,
       DeleteNext, Erase, Verify, Require, Touch, Work, Listed, ThrowAt

\* A start that arrives when there is another one is a race from then on.
LEMMA ArriveStart ==
  ASSUME Typed, NEW r \in Requests, Arrive(r)
  PROVE  /\ ~job'[r].fresh /\ UNCHANGED <<disk, pod, slips>> /\ job[r].pc = "idle"
         /\ job'[r].op = "start" => (job'[r].pc = "readDisk" /\ (~raced' => Starting = {}))
<1>0. JobType /\ r \in Handlers /\ job[r].pc = "idle"
  BY DEF Typed, Handlers, Arrive
<1>1. PICK op \in Ops, w \in Workspaces :
        /\ job' = [job EXCEPT ![r] =
             [Blank EXCEPT !.op = op, !.ws = w,
                !.pc    = IF Refused(op, w) THEN "failed" ELSE FirstStep(op),
                !.todo  = IF op \in {"stop", "delete"} THEN StopOrder ELSE <<>>,
                !.after = IF op = "delete" THEN "erase" ELSE "done"]]
        /\ raced' = (raced \/ (op = "start" /\ Starting # {}))
        /\ UNCHANGED <<disk, pod, slips>>
  BY DEF Arrive, cluster
<1> DEFINE l == IF Refused(op, w) THEN "failed" ELSE FirstStep(op)
           t == IF op \in {"stop", "delete"} THEN StopOrder ELSE <<>>
           a == IF op = "delete" THEN "erase" ELSE "done"
           v0 == [Blank EXCEPT !.op = op, !.ws = w, !.pc = l, !.todo = t, !.after = a]
<1>2. op = "start" => l = "readDisk"
  BY DEF Refused, FirstStep
<1>3. job' = [job EXCEPT ![r] = v0]
  BY <1>1
<1> HIDE DEF l, t, a
<1>4. v0.op = op /\ v0.pc = l /\ ~v0.fresh
  BY DEF Blank
<1> HIDE DEF v0
<1>5. job'[r] = v0
  BY <1>0, <1>3 DEF JobType
<1>6. op = "start" /\ ~raced' => Starting = {}
  BY <1>1, Zenon
<1> QED  BY <1>0, <1>1, <1>2, <1>4, <1>5, <1>6

\* What it knows of its disk: it was not there, or is its own.
Knows(r) == job[r].fresh /\ disk[job[r].ws].st = "bound" => disk[job[r].ws].by = r

Solo == ~raced => (\A p, q \in Starting : p = q) /\ \A r \in Starting : Knows(r)

LEMMA StartGoesOn ==
  ASSUME Typed, NEW r \in Requests, Serve(r), r \in Starting'
  PROVE  /\ r \in Starting /\ job'[r].ws = job[r].ws
         /\ job'[r].fresh => job[r].fresh \/ (disk' = disk /\ disk[job[r].ws].st = "none")
<1>0. /\ job'[r].op = job[r].op /\ job'[r].ws = job[r].ws /\ r \in Starting /\ job[r].op = "start"
      /\ job'[r].pc \notin Over /\ r \in Handlers
  BY ServesLive, ServeOwn DEF Starting, Own, Handlers
<1>1. ASSUME NEW l, Goes(r, l) PROVE job'[r].fresh = job[r].fresh
  BY <1>0, <1>1 DEF Goes
<1>2. ASSUME NEW l, NEW s, NEW a, Works(r, l, s, a) PROVE job'[r].fresh = job[r].fresh
  BY <1>1, <1>2 DEF Works
<1>3. CASE Prepares(r)
  <2>1. CASE ReadDisk(r)
    BY <1>0, <1>3, <2>1, ReadsOwn DEF Prepares
  <2>2. CASE ~ReadDisk(r)
    BY <1>0, <1>1, <1>2, <1>3, <2>2 DEF Prepares
  <2> QED  BY <2>1, <2>2
<1>4. CASE Waits(r) \/ CreateNext(r) \/ DeleteNext(r)
  BY <1>0, <1>1, <1>2, <1>4, BuildServes, ClearServes DEF Waits
<1> QED  BY <1>0, <1>3, <1>4, StartServes

\* Who makes a disk is a start; what dies is not bound.
LEMMA BoundNext ==
  ASSUME Typed, [Next]_vars, NEW w \in Workspaces, disk'[w].st = "bound"
  PROVE  \/ disk'[w] = disk[w]
         \/ \E q \in Starting : /\ CreateNext(q) /\ w = job[q].ws /\ job[q].fresh
                                /\ Head(job[q].todo) = "disk" /\ disk[w].st = "none" /\ disk'[w].by = q
<1>0. disk \in [Workspaces -> Disk] /\ Typed
  BY DEF Typed, DiskType, Disk
<1>1. ASSUME NEW v \in Workspaces, DiskSteps(v), v # w PROVE disk'[w] = disk[w]
  <2>1. DiskGone(v) => DiskMoves(v, NoDisk)
    BY DEF DiskGone, DiskMoves
  <2>2. \E d : DiskMoves(v, d)
    BY <1>1, <2>1, Zenon DEF DiskSteps
  <2> QED  BY <1>0, <1>1, <2>2 DEF DiskMoves
<1>2. CASE DiskSteps(w)
  <2>1. ~DiskMoves(w, DyingDisk(disk[w])) /\ ~DiskMoves(w, NoDisk)
    <3>1. DyingDisk(disk[w]).st # "bound" /\ NoDisk.st # "bound"
      BY <1>0, NoPodTyped, Dying DEF NoDisk
    <3> QED  BY <1>0, <3>1 DEF DiskMoves
  <2>2. DiskGone(w) => DiskMoves(w, NoDisk)
    BY DEF DiskGone, DiskMoves
  <2>3. PICK q \in Requests : /\ CreateNext(q) /\ w = job[q].ws /\ Head(job[q].todo) = "disk"
                              /\ disk[w].st = "none" /\ DiskMoves(w, NewDisk(q))
    BY <1>2, <2>1, <2>2, Zenon DEF DiskSteps
  <2>4. disk'[w].by = q
    <3>1. NewDisk(q).by = q
      BY DEF NewDisk
    <3> QED  BY <1>0, <2>3, <3>1 DEF DiskMoves
  <2>5. job[q].pc = "creating" /\ Fits(job[q]) /\ In("disk", job[q].todo)
    <3>1. job[q].pc = "creating" /\ Fits(job[q]) /\ job[q].todo \in Seq(Items) /\ job[q].todo # <<>>
      BY <2>3 DEF Typed, AllFit, JobType, Handlers, Job, Items, CreateNext, Fits
    <3> QED  BY <2>3, <3>1, Shorter
  <2>6. q \in Starting /\ job[q].fresh
    BY <2>5 DEF Fits, Starting, Over
  <2> QED  BY <2>3, <2>4, <2>6
<1> QED  BY <1>1, <1>2, ClusterMoves

LEMMA InitSolo == Init => Solo
BY DEF Init, Solo, Starting, Blank, Handlers

LEMMA NextSolo == Typed /\ Solo /\ [Next]_vars => Solo'
<1> SUFFICES ASSUME Typed, Solo, [Next]_vars, ~raced'
             PROVE  (\A p, q \in Starting' : p = q) /\ \A r \in Starting' : Knows(r)'
  BY DEF Solo
<1>0. ~raced /\ (\A p, q \in Starting : p = q) /\ \A r \in Starting : Knows(r)
  BY Lasting DEF Solo
<1>1. \A q \in Requests : job'[q] = job[q] => (q \in Starting' <=> q \in Starting)
  BY DEF Starting
<1>2. Starting' \subseteq Requests /\ Starting \subseteq Requests
  BY DEF Starting
<1>3. ASSUME NEW r \in Requests, r \in Starting, r \in Starting', job'[r].ws = job[r].ws, job[r].ws \in Workspaces,
             job'[r].fresh => job[r].fresh \/ (disk' = disk /\ disk[job[r].ws].st = "none")
      PROVE  Knows(r)'
  <2> SUFFICES ASSUME job'[r].fresh, disk'[job[r].ws].st = "bound" PROVE disk'[job[r].ws].by = r
    BY <1>3 DEF Knows
  <2>1. job[r].fresh
    BY <1>3
  <2> QED  BY <1>0, <1>3, <2>1, BoundNext DEF Knows
<1>4. \A r \in Starting : job[r].ws \in Workspaces
  BY DEF Starting, Typed, AllFit, Fits
<1>5. ASSUME NEW r \in Requests, Serve(r), \A q \in Requests \ {r} : job'[q] = job[q]
      PROVE  (\A p, q \in Starting' : p = q) /\ \A q \in Starting' : Knows(q)'
  <2>1. Starting' \subseteq Starting
    BY <1>1, <1>2, <1>5, StartGoesOn
  <2>2. ASSUME NEW q \in Starting' PROVE Knows(q)'
    BY <1>2, <1>3, <1>4, <1>5, <2>1, <2>2, StartGoesOn
  <2> QED  BY <1>0, <2>1, <2>2
<1>6. ASSUME NEW r \in Requests, Arrive(r), \A q \in Requests \ {r} : job'[q] = job[q]
      PROVE  (\A p, q \in Starting' : p = q) /\ \A q \in Starting' : Knows(q)'
  <2>1. ~job'[r].fresh /\ disk' = disk
    BY <1>6, ArriveStart
  <2>2. CASE job'[r].op = "start"
    <3>1. Starting = {}
      BY <1>6, <2>2, ArriveStart
    <3>2. Starting' \subseteq {r}
      BY <1>1, <1>2, <1>6, <3>1
    <3> QED  BY <2>1, <3>2 DEF Knows
  <2>3. CASE job'[r].op # "start"
    <3>1. r \notin Starting'
      BY <2>3 DEF Starting
    <3>2. Starting' \subseteq Starting
      BY <1>1, <1>2, <1>6, <3>1
    <3>3. \A q \in Starting' : q # r /\ q \in Requests /\ job'[q] = job[q]
      BY <1>2, <1>6, <3>1
    <3> QED  BY <1>0, <2>1, <3>2, <3>3 DEF Knows
  <2> QED  BY <2>2, <2>3
<1>7. CASE Crash
  <2>1. Starting' = {}
    <3>1. ASSUME NEW q \in Starting' PROVE FALSE
      BY <1>7, <3>1, CrashFits DEF Starting, Over, AllFit, Fits
    <3> QED  BY <3>1
  <2> QED  BY <2>1
<1>8. CASE \A q \in Requests : job'[q] = job[q]
  <2>1. Starting' = Starting
    BY <1>1, <1>2, <1>8
  <2>2. ASSUME NEW q \in Starting' PROVE Knows(q)'
    BY <1>2, <1>3, <1>4, <1>8, <2>1, <2>2
  <2> QED  BY <1>0, <2>1, <2>2
<1> QED  BY <1>5, <1>6, <1>7, <1>8, JobMoves

\* A handler that deletes the next of its list is elsewhere afterwards.
LEMMA DeletingMoves ==
  ASSUME Typed, NEW r \in Requests, DeleteNext(r)
  PROVE  job'[r] # job[r]
<1>1. r \in Handlers /\ job[r].todo \in Seq(Items) /\ job[r].pc = "deleting" /\ Fits(job[r])
  BY DEF Typed, AllFit, JobType, Job, Items, Handlers, DeleteNext
<1>2. CASE Len(job[r].todo) > 1 /\ Works(r, "deleting", Tail(job[r].todo), job[r].after)
  <2> DEFINE s == job[r].todo
             t == Tail(s)
             n == Len(s)
  <2>1. Len(t) = n - 1 /\ n \in Nat
    BY <1>1, <1>2
  <2>2. n # n - 1
    BY <2>1
  <2>3. t = s => Len(t) = n
    OBVIOUS
  <2> HIDE DEF t, n
  <2>4. t # s
    BY <2>1, <2>2, <2>3
  <2> QED  BY <1>2, <2>4 DEF Works, t
<1>3. CASE Goes(r, job[r].after)
  BY <1>1, <1>3 DEF Goes, Fits
<1> QED  BY <1>1, <1>2, <1>3, ClearServes

\* While no two starts have overlapped, a stored project is destroyed only by the deletion
\* its owner asked for, or by the roll-back of the start that created it: the disk a start
\* found when it began is never on the list of its roll-back.
THEOREM WorkspaceDiskKept == Spec => DiskKeptUnlessRaced
<1>1. ASSUME Typed, Solo, [Next]_vars, NEW w \in Workspaces, Destroyed(w), ~raced
      PROVE  ByOwnerOrMaker(w)
  <2>0. disk \in [Workspaces -> Disk] /\ disk'[w] # disk[w] /\ disk[w].st = "bound"
        /\ disk'[w].st = "terminating"
    BY <1>1 DEF Typed, DiskType, Disk, Destroyed
  <2>1. DiskSteps(w)
    <3>1. PICK v \in Workspaces : DiskSteps(v)
      BY <1>1, <2>0, ClusterMoves
    <3>2. DiskGone(v) => DiskMoves(v, NoDisk)
      BY DEF DiskGone, DiskMoves
    <3>3. \E d : DiskMoves(v, d)
      BY <3>1, <3>2, Zenon DEF DiskSteps
    <3>4. v = w
      BY <2>0, <3>3 DEF DiskMoves
    <3> QED  BY <3>1, <3>4
  <2>2. ~DiskGone(w)
    BY <2>0 DEF DiskGone
  <2>3. \/ \E h \in Handlers : DeleteNext(h) /\ w = job[h].ws /\ Head(job[h].todo) = "disk"
        \/ \E r \in Requests : Erase(r) /\ w = job[r].ws
    BY <2>0, <2>1, <2>2, Zenon DEF DiskSteps
  <2>4. ASSUME NEW h \in Handlers, DeleteNext(h), w = job[h].ws, Head(job[h].todo) = "disk"
        PROVE  ByOwnerOrMaker(w)
    <3>1. job[h].pc = "deleting" /\ In("disk", job[h].todo)
      BY <1>1, <2>4, Deletes, Shorter DEF DeleteNext
    <3>2. h \in Requests /\ Fits(job[h])
      BY <1>1, <3>1 DEF Typed, AllFit, ReaperFits, Handlers
    <3>3. job[h].op = "start" /\ job[h].fresh /\ h \in Starting
      BY <3>1, <3>2 DEF Fits, Starting, Over
    <3>4. disk[w].by = h
      BY <1>1, <2>0, <2>4, <3>3 DEF Solo, Knows
    <3>5. job'[h] # job[h]
      BY <1>1, <2>4, <3>2, DeletingMoves
    <3> QED  BY <2>4, <3>2, <3>3, <3>4, <3>5 DEF ByOwnerOrMaker
  <2>5. ASSUME NEW r \in Requests, Erase(r), w = job[r].ws PROVE ByOwnerOrMaker(w)
    <3>1. job[r].pc = "erase" /\ job[r].op = "delete" /\ r \in Handlers /\ JobType
      BY <1>1, <2>5 DEF Typed, AllFit, Fits, Erase, Handlers
    <3>2. job[r].tries \in Nat
      BY <1>1, <3>1, ConstantsAssumption DEF Typed, JobType, Job
    <3>3. Go(r, "verify") => job'[r].pc = "verify"
      BY <3>1, GoesTo DEF Goes, Pcs
    <3>4. Retry(r) => job'[r].pc = "failed" \/ job'[r].tries = job[r].tries + 1
      BY <3>1 DEF Retry, Ended, Blank, JobType, Job
    <3>5. job'[r] # job[r]
      BY <2>5, <3>1, <3>2, <3>3, <3>4 DEF Erase
    <3> QED  BY <2>5, <3>1, <3>5 DEF ByOwnerOrMaker
  <2> QED  BY <2>3, <2>4, <2>5
<1>2. Typed /\ Solo /\ [Next]_vars
        => [\A w \in Workspaces : Destroyed(w) => raced \/ ByOwnerOrMaker(w)]_vars
  BY <1>1
<1>3. Spec => []Typed /\ []Solo
  BY InitType, NextType, InitSolo, NextSolo, PTL DEF Spec
<1> QED  BY <1>2, <1>3, PTL DEF Spec, DiskKeptUnlessRaced

-----------------------------------------------------------------------------
(* Nothing half built.                                                     *)

\* What r made and is alive, and where a start that is not over still has to answer for it.
DiskOf(r, w) == disk[w].st = "bound" /\ disk[w].by = r
PodOf(r, w)  == pod[w].by = r

Building(r)    == job[r].op = "start" /\ job[r].pc \in Ready \union {"creating"}
Undoing(r, o)  == job[r].op = "start" /\ job[r].pc = "deleting" /\ In(o, job[r].todo)
DiskOwed(r, w) == w = job[r].ws /\ job[r].fresh /\ (Building(r) \/ Undoing(r, "disk"))
PodOwed(r, w)  == w = job[r].ws /\ (Building(r) \/ Undoing(r, "pod"))
Kept(r)        == job[r].op = "start" /\ job[r].pc \in {"done", "lost"}

\* What a start made it keeps, or still has to answer for.
Answers(r, w) == /\ DiskOf(r, w) => Kept(r) \/ DiskOwed(r, w)
                 /\ PodOf(r, w) => Kept(r) \/ PodOwed(r, w)
AllAnswer     == slips = 0 => \A r \in Requests, w \in Workspaces : Answers(r, w)

\* The maker of what is there is the one that created it.
LEMMA DiskMaker ==
  ASSUME Typed, [Next]_vars, NEW r \in Requests, NEW w \in Workspaces, DiskOf(r, w)'
  PROVE  DiskOf(r, w) \/ (CreateNext(r) /\ w = job[r].ws /\ job[r].fresh /\ job[r].op = "start")
BY BoundNext DEF DiskOf, Starting

LEMMA PodMaker ==
  ASSUME Typed, [Next]_vars, NEW r \in Requests, NEW w \in Workspaces, PodOf(r, w)'
  PROVE  PodOf(r, w) \/ (CreateNext(r) /\ w = job[r].ws /\ job[r].op = "start")
<1>0. pod \in [Workspaces -> Pod] /\ Nil # r
  BY ConstantsAssumption DEF Typed, PodType, Pod
<1>1. ASSUME NEW v \in Workspaces, PodSteps(v), v # w PROVE pod'[w] = pod[w]
  <2>1. PodGone(v) => PodMoves(v, NoPod)
    BY DEF PodGone, PodMoves
  <2>2. Ages(v) => \E p : PodMoves(v, p)
    BY DEF Ages
  <2>3. \E p : PodMoves(v, p)
    BY <1>1, <2>1, <2>2, Zenon DEF PodSteps
  <2> QED  BY <1>0, <1>1, <2>3 DEF PodMoves
<1>2. CASE PodSteps(w)
  <2>1. ASSUME NEW p, PodMoves(w, p) PROVE pod'[w] = p
    BY <1>0, <2>1 DEF PodMoves
  <2>2. CASE PodMoves(w, DyingPod(pod[w]))
    <3>1. DyingPod(pod[w]) = pod[w] \/ DyingPod(pod[w]).by = Nil
      BY <1>0, NoPodTyped, Dying
    <3> QED  BY <1>0, <2>1, <2>2, <3>1 DEF PodOf
  <2>3. CASE PodGone(w)
    <3>1. PodMoves(w, NoPod) /\ NoPod.by = Nil
      BY <2>3 DEF PodGone, PodMoves, NoPod
    <3> QED  BY <1>0, <2>1, <3>1 DEF PodOf
  <2>4. CASE Ages(w)
    <3>1. PICK p \in Pod : PodMoves(w, p) /\ p.by = pod[w].by
      BY <2>4 DEF Ages
    <3> QED  BY <2>1, <3>1 DEF PodOf
  <2>5. ASSUME NEW q \in Requests, CreateNext(q), w = job[q].ws, Head(job[q].todo) = "pod", PodMoves(w, NewPod(q))
        PROVE  CreateNext(r) /\ w = job[r].ws /\ job[r].op = "start"
    <3>1. q = r
      <4>1. NewPod(q).by = q
        BY Made DEF Makers
      <4> QED  BY <2>1, <2>5, <4>1 DEF PodOf
    <3>2. job[q].pc = "creating" /\ Fits(job[q]) /\ In("pod", job[q].todo)
      <4>1. job[q].pc = "creating" /\ Fits(job[q]) /\ job[q].todo \in Seq(Items) /\ job[q].todo # <<>>
        BY <2>5 DEF Typed, AllFit, JobType, Handlers, Job, Items, CreateNext, Fits
      <4> QED  BY <2>5, <4>1, Shorter
    <3> QED  BY <2>5, <3>1, <3>2 DEF Fits
  <2> QED  BY <1>2, <2>2, <2>3, <2>4, <2>5, Zenon DEF PodSteps
<1> QED  BY <1>1, <1>2, ClusterMoves DEF PodOf

\* No pod, no maker.
Owned == \A w \in Workspaces : pod[w].phase = "none" => pod[w].by = Nil

LEMMA InitOwned == Init => Owned
<1> SUFFICES ASSUME Init, NEW w \in Workspaces PROVE pod[w].by = Nil
  BY DEF Owned
<1> DEFINE on == [NoPod EXCEPT !.phase = "running"]
<1>1. on.by = Nil /\ NoPod.by = Nil
  BY DEF NoPod
<1> HIDE DEF on
<1>2. pod[w] = on \/ pod[w] = NoPod
  BY DEF Init, on
<1> QED  BY <1>1, <1>2

LEMMA NextOwned == Typed /\ Owned /\ [Next]_vars => Owned'
<1> SUFFICES ASSUME Typed, Owned, [Next]_vars, NEW w \in Workspaces, pod'[w].phase = "none"
             PROVE  pod'[w].by = Nil
  BY DEF Owned
<1>0. pod \in [Workspaces -> Pod]
  BY DEF Typed, PodType, Pod
<1>1. ASSUME NEW v \in Workspaces, NEW p, PodMoves(v, p), p.phase = "none" => p.by = Nil
      PROVE  pod'[w].by = Nil
  BY <1>0, <1>1 DEF PodMoves, Owned
<1>2. ASSUME NEW v \in Workspaces, PodSteps(v)
      PROVE  \E p : PodMoves(v, p) /\ (p.phase = "none" => p.by = Nil)
  <2>1. ASSUME NEW q \in Requests PROVE NewPod(q).phase # "none"
    BY Made DEF Makers
  <2>2. DyingPod(pod[v]).phase = "none" => DyingPod(pod[v]).by = Nil
    BY <1>0, <1>2, NoPodTyped, Dying DEF Owned
  <2>3. NoPod.by = Nil /\ (PodGone(v) => PodMoves(v, NoPod))
    BY DEF NoPod, PodGone, PodMoves
  <2>4. Ages(v) => \E p : PodMoves(v, p) /\ (p.phase = "none" => p.by = Nil)
    BY DEF Ages, Owned
  <2> QED  BY <1>2, <2>1, <2>2, <2>3, <2>4, Zenon DEF PodSteps
<1> QED  BY <1>1, <1>2, ClusterMoves DEF Owned

\* Its next create: what it made it goes on with, or rolls back.
LEMMA BuildAnswers ==
  ASSUME Typed, [Next]_vars, NEW r \in Requests, CreateNext(r), NEW w \in Workspaces, Answers(r, w)
  PROVE  Answers(r, w)'
<1>0. job[r].pc = "creating" /\ Fits(job[r]) /\ job[r].fresh \in BOOLEAN
  BY DEF CreateNext, Typed, AllFit, JobType, Job, Handlers
<1>1. /\ DiskOf(r, w)' => w = job[r].ws /\ job[r].fresh /\ job[r].op = "start"
      /\ PodOf(r, w)' => w = job[r].ws /\ job[r].op = "start"
  <2>1. ~Kept(r)
    BY <1>0 DEF Kept
  <2>2. DiskOwed(r, w) => w = job[r].ws /\ job[r].fresh /\ job[r].op = "start"
    BY DEF DiskOwed, Building, Undoing
  <2>3. PodOwed(r, w) => w = job[r].ws /\ job[r].op = "start"
    BY DEF PodOwed, Building, Undoing
  <2> QED  BY <2>1, <2>2, <2>3, DiskMaker, PodMaker DEF Answers
<1>2. SUFFICES ASSUME job[r].op = "start", w = job[r].ws
               PROVE  (job[r].fresh => DiskOwed(r, w)') /\ PodOwed(r, w)'
  BY <1>1 DEF Answers
<1>3. CASE Works(r, "deleting", Rollback(r), "failed")
  <2>1. In("pod", Rollback(r)) /\ (job[r].fresh => In("disk", Rollback(r)))
    BY <1>0, <1>2, RollbackList
  <2> QED  BY <1>2, <1>3, <2>1 DEF Works, Goes, DiskOwed, PodOwed, Undoing, Over
<1>4. ASSUME NEW l \in {"creating", "awaitRunning"}, Goes(r, l)
      PROVE  (job[r].fresh => DiskOwed(r, w)') /\ PodOwed(r, w)'
  BY <1>2, <1>4 DEF Goes, DiskOwed, PodOwed, Building, Ready, Over
<1>5. job[r].after = "awaitRunning"
  BY <1>0, <1>2 DEF Fits
<1> QED  BY <1>3, <1>4, <1>5, BuildServes DEF Works

\* Its next delete, when none is lost: what it took away is not alive.
LEMMA ClearAnswers ==
  ASSUME Typed, [Next]_vars, NEW r \in Requests, DeleteNext(r), slips' = 0, ~CreateNext(r), Owned,
         NEW w \in Workspaces, Answers(r, w)
  PROVE  Answers(r, w)'
<1>0. /\ job[r].pc = "deleting" /\ Fits(job[r]) /\ r \in Handlers /\ slips \in Nat
      /\ job[r].todo \in Seq(Items) /\ job[r].todo # <<>>
      /\ disk \in [Workspaces -> Disk] /\ pod \in [Workspaces -> Pod]
  BY ConstantsAssumption
     DEF DeleteNext, Typed, AllFit, Handlers, JobType, Job, Items, Fits, DiskType, PodType, Disk, Pod, CountType
<1>1. /\ Head(job[r].todo) = "disk" => DiskMoves(job[r].ws, DyingDisk(disk[job[r].ws]))
      /\ Head(job[r].todo) = "pod" => PodMoves(job[r].ws, DyingPod(pod[job[r].ws]))
      /\ job[r].ws \in Workspaces
  <2>1. slips' # slips + 1
    BY <1>0
  <2> QED  BY <1>0, <2>1, Deletes
<1>2. Head(job[r].todo) = "disk" /\ w = job[r].ws => ~DiskOf(r, w)'
  <2>1. DyingDisk(disk[job[r].ws]).st # "bound"
    BY <1>0, <1>1, NoPodTyped, Dying
  <2> QED  BY <1>0, <1>1, <2>1 DEF DiskMoves, DiskOf
<1>3. Head(job[r].todo) = "pod" /\ w = job[r].ws => ~PodOf(r, w)'
  <2>1. DyingPod(pod[job[r].ws]).by = Nil
    BY <1>0, <1>1, NoPodTyped, Dying DEF Owned
  <2> QED  BY <1>0, <1>1, <2>1, ConstantsAssumption DEF PodMoves, PodOf, Owned
<1>4. ASSUME NEW o \in {"disk", "pod"}, Undoing(r, o), Head(job[r].todo) # o
      PROVE  Undoing(r, o)' /\ job'[r].fresh = job[r].fresh /\ job'[r].ws = job[r].ws
  <2>1. In(o, job[r].todo)
    BY <1>4 DEF Undoing
  <2>2. Len(job[r].todo) > 1 /\ In(o, Tail(job[r].todo))
    BY <1>0, <1>4, <2>1, Shorter
  <2> QED  BY <1>0, <1>4, <2>2, ClearServes DEF Works, Goes, Undoing, Over
<1>5. ~Kept(r) /\ ~Building(r)
  BY <1>0 DEF Kept, Building, Ready
<1>6. ASSUME DiskOf(r, w)' PROVE DiskOwed(r, w)'
  <2>1. DiskOwed(r, w) /\ Undoing(r, "disk")
    BY <1>5, <1>6, DiskMaker DEF Answers, DiskOwed
  <2>2. Head(job[r].todo) # "disk"
    BY <1>2, <1>6, <2>1 DEF DiskOwed
  <2> QED  BY <1>4, <2>1, <2>2 DEF DiskOwed
<1>7. ASSUME PodOf(r, w)' PROVE PodOwed(r, w)'
  <2>1. PodOwed(r, w) /\ Undoing(r, "pod")
    BY <1>5, <1>7, PodMaker DEF Answers, PodOwed
  <2>2. Head(job[r].todo) # "pod"
    BY <1>3, <1>7, <2>1 DEF PodOwed
  <2> QED  BY <1>4, <2>1, <2>2 DEF PodOwed
<1> QED  BY <1>6, <1>7 DEF Answers

LEMMA NextAnswers == Typed /\ Owned /\ AllAnswer /\ [Next]_vars => AllAnswer'
<1> SUFFICES ASSUME Typed, Owned, AllAnswer, [Next]_vars, slips' = 0, NEW r \in Requests, NEW w \in Workspaces
             PROVE  Answers(r, w)'
  BY DEF AllAnswer
<1>0. Answers(r, w) /\ Fits(job[r]) /\ job[r].fresh \in BOOLEAN
  BY Lasting DEF AllAnswer, Typed, AllFit, JobType, Job, Handlers
<1>1. CASE CreateNext(r)
  BY <1>0, <1>1, BuildAnswers
<1>2. CASE DeleteNext(r) /\ ~CreateNext(r)
  BY <1>0, <1>2, ClearAnswers
<1>3. CASE ~CreateNext(r) /\ ~DeleteNext(r)
  <2>1. /\ DiskOf(r, w)' => DiskOf(r, w)
        /\ PodOf(r, w)' => PodOf(r, w)
    BY <1>3, DiskMaker, PodMaker
  <2>2. CASE job'[r] = job[r]
    BY <1>0, <2>1, <2>2 DEF Answers, Kept, DiskOwed, PodOwed, Building, Undoing
  <2>3. CASE Arrive(r)
    <3>1. ~Kept(r) /\ ~DiskOwed(r, w) /\ ~PodOwed(r, w)
      BY <2>3, ArriveStart DEF Kept, DiskOwed, PodOwed, Building, Undoing, Ready
    <3> QED  BY <1>0, <2>1, <3>1 DEF Answers
  <2>4. CASE Crash /\ job'[r] # job[r]
    <3>1. job[r].pc \notin Over \union {"idle"} /\ job'[r].pc = "lost" /\ job'[r].op = job[r].op
      BY <2>4, CrashFits
    <3>2. DiskOwed(r, w) \/ PodOwed(r, w) => job[r].op = "start"
      BY DEF DiskOwed, PodOwed, Building, Undoing
    <3>3. ~Kept(r)
      BY <3>1 DEF Kept, Over
    <3> QED  BY <1>0, <2>1, <3>1, <3>2, <3>3 DEF Answers, Kept
  <2>5. CASE Serve(r)
    <3>1. ~Kept(r)
      BY <2>5, ServesLive DEF Kept, Over
    <3>2. CASE ~(job[r].op = "start" /\ job[r].pc \in Ready)
      <4>1. ~DiskOwed(r, w) /\ ~PodOwed(r, w)
        <5>1. CASE job[r].op # "start"
          BY <5>1 DEF DiskOwed, PodOwed, Building, Undoing
        <5>2. CASE job[r].op = "start"
          <6>1. Prepares(r)
            BY <1>3, <2>5, <3>2, <5>2, StartServes DEF Waits
          <6> QED  BY <6>1 DEF Prepares, Early, Ready, DiskOwed, PodOwed, Building, Undoing
        <5> QED  BY <5>1, <5>2
      <4> QED  BY <1>0, <2>1, <3>1, <4>1 DEF Answers
    <3>3. CASE job[r].op = "start" /\ job[r].pc \in Ready
      <4>1. Waits(r)
        BY <1>3, <2>5, <3>3, StartServes DEF Prepares, Early, Ready
      <4>2. /\ DiskOf(r, w)' => w = job[r].ws /\ job[r].fresh
            /\ PodOf(r, w)' => w = job[r].ws
        BY <1>0, <2>1, <3>1 DEF Answers, DiskOwed, PodOwed
      <4>3. CASE Goes(r, "seed") \/ Goes(r, "done")
        BY <3>3, <4>2, <4>3 DEF Goes, Over, Answers, Kept, DiskOwed, PodOwed, Building, Ready
      <4>4. CASE Works(r, "deleting", Rollback(r), "failed")
        <5>1. In("pod", Rollback(r)) /\ (job[r].fresh => In("disk", Rollback(r)))
          BY <1>0, <3>3, RollbackList
        <5> QED  BY <3>3, <4>2, <4>4, <5>1 DEF Works, Goes, Over, Answers, DiskOwed, PodOwed, Undoing
      <4> QED  BY <4>1, <4>3, <4>4 DEF Waits
    <3> QED  BY <3>2, <3>3
  <2> QED  BY <2>2, <2>3, <2>4, <2>5, OwnSteps
<1> QED  BY <1>1, <1>2, <1>3

\* A start that failed leaves neither a pod nor a disk of its own alive, whatever the other
\* requests, the sweep and restarts did meanwhile, if none of its deletes was lost: until it
\* is over it stands at its create, or has the object still on the list of its roll-back.
THEOREM WorkspaceNothingHalfBuilt == Spec => []NothingHalfBuilt
<1>1. Init => AllAnswer
  <2> SUFFICES ASSUME Init, NEW r \in Requests, NEW w \in Workspaces PROVE ~DiskOf(r, w) /\ ~PodOf(r, w)
    BY DEF AllAnswer, Answers
  <2>1. NewDisk(Nil).by = Nil /\ NoDisk.by = Nil
    BY DEF NewDisk, NoDisk
  <2>2. disk[w] \in {NoDisk, NewDisk(Nil)}
    BY DEF Init
  <2>3. pod[w].by = Nil
    <3> DEFINE on == [NoPod EXCEPT !.phase = "running"]
    <3>1. on.by = Nil /\ NoPod.by = Nil
      BY DEF NoPod
    <3> HIDE DEF on
    <3>2. pod[w] = on \/ pod[w] = NoPod
      BY DEF Init, on
    <3> QED  BY <3>1, <3>2
  <2> QED  BY <2>1, <2>2, <2>3, ConstantsAssumption DEF DiskOf, PodOf
<1>2. AllAnswer => NothingHalfBuilt
  <2> SUFFICES ASSUME AllAnswer, slips = 0, NEW r \in Requests, job[r].op = "start", job[r].pc = "failed",
                      NEW w \in Workspaces
               PROVE  ~DiskOf(r, w) /\ ~PodOf(r, w)
    BY DEF NothingHalfBuilt, DiskOf, PodOf
  <2>1. ~Kept(r) /\ ~DiskOwed(r, w) /\ ~PodOwed(r, w)
    BY DEF Kept, DiskOwed, PodOwed, Building, Undoing, Ready
  <2> QED  BY <2>1 DEF AllAnswer, Answers
<1>3. Spec => []Typed /\ []Owned
  BY InitType, NextType, InitOwned, NextOwned, PTL DEF Spec
<1> QED  BY <1>1, <1>2, <1>3, NextAnswers, PTL DEF Spec

-----------------------------------------------------------------------------
(* The limits.                                                             *)

Up(p) == p.phase \in {"pending", "running"} /\ ~p.doomed /\ ~p.expired

StatusOf(p) ==
  IF p.phase = "none" THEN "stopped"
  ELSE IF p.doomed THEN "failed"
  ELSE IF p.expired THEN "expired"
  ELSE CASE p.phase = "pending" -> "starting"
         [] p.phase = "running" -> "running"
         [] OTHER               -> "failed"

LEMMA UpIs ==
  ASSUME NEW p \in Pod
  PROVE  StatusOf(p) \in {"starting", "running"} <=> Up(p)
<1>0. p.doomed \in BOOLEAN /\ p.expired \in BOOLEAN /\ p.phase \in {"none", "pending", "running", "dead"}
  BY DEF Pod
<1>1. CASE p.phase = "none"
  BY <1>1 DEF StatusOf, Up
<1>2. CASE p.phase # "none" /\ p.doomed
  BY <1>0, <1>2 DEF StatusOf, Up
<1>3. CASE p.phase # "none" /\ ~p.doomed /\ p.expired
  BY <1>0, <1>3 DEF StatusOf, Up
<1>4. CASE p.phase # "none" /\ ~p.doomed /\ ~p.expired
  BY <1>0, <1>4 DEF StatusOf, Up
<1> QED  BY <1>0, <1>1, <1>2, <1>3, <1>4

LEMMA ActiveIs ==
  ASSUME pod \in [Workspaces -> Pod]
  PROVE  Active = {w \in Workspaces : Up(pod[w])}
<1>1. ASSUME NEW w \in Workspaces PROVE Status(w) \in {"starting", "running"} <=> Up(pod[w])
  <2>1. Status(w) = StatusOf(pod[w])
    BY DEF Status, StatusOf
  <2> QED  BY <2>1, UpIs
<1> QED  BY <1>1 DEF Active

LEMMA Counted ==
  /\ IsFiniteSet(Active) /\ Cardinality(Active) \in Nat
  /\ IsFiniteSet(Disks) /\ Cardinality(Disks) \in Nat
<1>1. Active \subseteq Workspaces /\ Disks \subseteq Workspaces
  BY DEF Active, Disks
<1> QED  BY <1>1, ConstantsAssumption, FS_Subset, FS_CardinalityType

\* A set that shrinks, or grows by one at most.
LEMMA CountedNext ==
  ASSUME NEW S, NEW T, IsFiniteSet(S)
  PROVE  /\ Cardinality(S) \in Nat
         /\ T \subseteq S => Cardinality(T) \in Nat /\ Cardinality(T) <= Cardinality(S)
         /\ \A x : T \subseteq S \union {x} => Cardinality(T) \in Nat /\ Cardinality(T) <= Cardinality(S) + 1
<1>1. Cardinality(S) \in Nat
  BY FS_CardinalityType
<1>2. ASSUME T \subseteq S PROVE Cardinality(T) \in Nat /\ Cardinality(T) <= Cardinality(S)
  BY <1>2, FS_Subset, FS_CardinalityType
<1>3. ASSUME NEW x, T \subseteq S \union {x}
      PROVE  Cardinality(T) \in Nat /\ Cardinality(T) <= Cardinality(S) + 1
  <2>1. /\ IsFiniteSet(S \union {x})
        /\ Cardinality(S \union {x}) = Cardinality(S) \/ Cardinality(S \union {x}) = Cardinality(S) + 1
    BY FS_AddElement
  <2>2. IsFiniteSet(T) /\ Cardinality(T) <= Cardinality(S \union {x}) /\ Cardinality(T) \in Nat
    BY <1>3, <2>1, FS_Subset, FS_CardinalityType
  <2> QED  BY <1>1, <2>1, <2>2
<1> QED  BY <1>1, <1>2, <1>3

\* Only a create adds to what is counted: nothing else starts a pod, or brings one back.
LEMMA ActiveNext ==
  ASSUME Typed, [Next]_vars, ~\E q \in Starting : CreateNext(q)
  PROVE  Active' \subseteq Active
<1>0. pod \in [Workspaces -> Pod]
  BY DEF Typed, PodType, Pod
<1>1. ASSUME NEW q \in Requests, CreateNext(q), Head(job[q].todo) = "pod" PROVE FALSE
  <2>1. job[q].pc = "creating" /\ Fits(job[q]) /\ job[q].todo \in Seq(Items) /\ job[q].todo # <<>>
    BY <1>1 DEF Typed, AllFit, JobType, Handlers, Job, Items, CreateNext, Fits
  <2>2. In("pod", job[q].todo)
    BY <1>1, <2>1, Shorter
  <2>3. q \in Starting
    BY <2>1, <2>2 DEF Fits, Starting, Over
  <2> QED  BY <1>1, <2>3
<1>2. ASSUME NEW v \in Workspaces, PodSteps(v)
      PROVE  \E p : PodMoves(v, p) /\ (Up(p) => Up(pod[v]))
  <2>1. ~Up(NoPod) /\ (PodGone(v) => PodMoves(v, NoPod))
    BY DEF NoPod, Up, PodGone, PodMoves
  <2>2. Up(DyingPod(pod[v])) => Up(pod[v])
    <3>1. DyingPod(pod[v]) = pod[v] \/ DyingPod(pod[v]).doomed
      BY <1>0, NoPodTyped, Dying
    <3> QED  BY <3>1 DEF Up
  <2>3. Ages(v) => \E p : PodMoves(v, p) /\ (Up(p) => Up(pod[v]))
    BY DEF Ages, Up
  <2> QED  BY <1>1, <1>2, <2>1, <2>2, <2>3, Zenon DEF PodSteps
<1>3. pod' = pod \/ \E v \in Workspaces : \E p : PodMoves(v, p) /\ (Up(p) => Up(pod[v]))
  BY <1>2, ClusterMoves
<1>4. \A w \in Workspaces : Up(pod'[w]) => Up(pod[w])
  BY <1>0, <1>3 DEF PodMoves
<1>5. Active' = {w \in Workspaces : Up(pod'[w])}
  <2>1. pod' \in [Workspaces -> Pod]
    BY NextType DEF Typed, PodType, Pod
  <2>2. ASSUME NEW w \in Workspaces PROVE Status(w)' \in {"starting", "running"} <=> Up(pod'[w])
    <3>1. Status(w)' = StatusOf(pod'[w])
      BY DEF Status, StatusOf
    <3> QED  BY <2>1, <3>1, UpIs
  <2> QED  BY <2>2 DEF Active
<1>6. Active = {w \in Workspaces : Up(pod[w])}
  BY <1>0, ActiveIs
<1> QED  BY <1>4, <1>5, <1>6

LEMMA DisksNext ==
  ASSUME Typed, [Next]_vars, ~\E q \in Starting : CreateNext(q)
  PROVE  Disks' \subseteq Disks
<1>0. disk \in [Workspaces -> Disk]
  BY DEF Typed, DiskType, Disk
<1>1. ASSUME NEW q \in Requests, CreateNext(q), Head(job[q].todo) = "disk" PROVE FALSE
  <2>1. job[q].pc = "creating" /\ Fits(job[q]) /\ job[q].todo \in Seq(Items) /\ job[q].todo # <<>>
    BY <1>1 DEF Typed, AllFit, JobType, Handlers, Job, Items, CreateNext, Fits
  <2>2. In("disk", job[q].todo)
    BY <1>1, <2>1, Shorter
  <2>3. q \in Starting
    BY <2>1, <2>2 DEF Fits, Starting, Over
  <2> QED  BY <1>1, <2>3
<1>2. ASSUME NEW v \in Workspaces, DiskSteps(v)
      PROVE  \E d : DiskMoves(v, d) /\ (d.st # "none" => disk[v].st # "none")
  <2>1. NoDisk.st = "none" /\ (DiskGone(v) => DiskMoves(v, NoDisk))
    BY DEF NoDisk, DiskGone, DiskMoves
  <2>2. DyingDisk(disk[v]).st # "none" => disk[v].st # "none"
    <3>1. DyingDisk(disk[v]) = disk[v] \/ disk[v].st = "bound"
      BY <1>0, NoPodTyped, Dying
    <3> QED  BY <3>1
  <2> QED  BY <1>1, <1>2, <2>1, <2>2, Zenon DEF DiskSteps
<1>3. disk' = disk \/ \E v \in Workspaces : \E d : DiskMoves(v, d) /\ (d.st # "none" => disk[v].st # "none")
  BY <1>2, ClusterMoves
<1> QED  BY <1>0, <1>3 DEF DiskMoves, Disks

\* What a start still has to make, and the room that its counts found.
FullList == <<"disk", "pod", "egress">>
PodList  == <<"pod", "egress">>
LastList == <<"egress">>

Room(r) ==
  /\ job[r].pc = "creating" => job[r].todo \in {FullList, PodList, LastList}
  /\ job[r].pc = "countDisks" \/ (job[r].pc = "creating" /\ job[r].todo \in {FullList, PodList})
       => Cardinality(Active) < MaxConcurrent
  /\ job[r].pc = "creating" /\ job[r].todo = FullList => Cardinality(Disks) < MaxWorkspaces

InLimits == Cardinality(Active) <= MaxConcurrent /\ Cardinality(Disks) <= MaxWorkspaces

Roomy == ~raced => InLimits /\ \A r \in Starting : Room(r)

LEMMA StartLists ==
  /\ StartOrder(TRUE) = FullList /\ StartOrder(FALSE) = PodList
  /\ Head(FullList) = "disk" /\ Tail(FullList) = PodList /\ Len(FullList) > 1
  /\ Head(PodList) = "pod" /\ Tail(PodList) = LastList /\ Len(PodList) > 1
  /\ Head(LastList) = "egress" /\ ~(Len(LastList) > 1)
  /\ FullList # PodList /\ FullList # LastList /\ PodList # LastList
<1>1. StartOrder(TRUE) = FullList
  <2> DEFINE one == <<"disk">>
             two == <<"pod", "egress">>
  <2>1. one \in Seq(Items) /\ two \in Seq(Items) /\ Len(one) = 1 /\ Len(two) = 2
        /\ one[1] = "disk" /\ two[1] = "pod" /\ two[2] = "egress"
    BY DEF Items, Extras
  <2>2. /\ FullList \in Seq(Items) /\ Len(FullList) = 3
        /\ FullList[1] = "disk" /\ FullList[2] = "pod" /\ FullList[3] = "egress"
    BY DEF FullList, Items, Extras
  <2>3. StartOrder(TRUE) = one \o two
    BY DEF StartOrder
  <2> HIDE DEF one, two
  <2>4. one \o two \in Seq(Items) /\ Len(one \o two) = 3
        /\ (one \o two)[1] = "disk" /\ (one \o two)[2] = "pod" /\ (one \o two)[3] = "egress"
    <3>1. /\ one \o two \in Seq(Items) /\ Len(one \o two) = Len(one) + Len(two)
          /\ \A i \in 1 .. Len(one) : (one \o two)[i] = one[i]
          /\ \A i \in 1 .. Len(two) : (one \o two)[Len(one) + i] = two[i]
      BY <2>1, Concat, Zenon
    <3>2. 1 \in 1 .. Len(one) /\ 1 \in 1 .. Len(two) /\ 2 \in 1 .. Len(two)
      BY <2>1
    <3>3. Len(one) + 1 = 2 /\ Len(one) + 2 = 3 /\ Len(one) + Len(two) = 3
      BY <2>1
    <3> QED  BY <2>1, <3>1, <3>2, <3>3, Zenon
  <2> DEFINE both == one \o two
  <2> HIDE DEF both
  <2>5. \A i \in 1 .. 3 : both[i] = FullList[i]
    BY <2>2, <2>4 DEF both
  <2>6. both = FullList
    BY <2>2, <2>4, <2>5 DEF both
  <2> QED  BY <2>3, <2>6 DEF both
<1>2. StartOrder(FALSE) = PodList
  BY DEF StartOrder, PodList
<1>3. Head(FullList) = "disk" /\ Len(FullList) = 3 /\ Head(PodList) = "pod" /\ Len(PodList) = 2
      /\ Head(LastList) = "egress" /\ Len(LastList) = 1
  BY DEF FullList, PodList, LastList
<1>4. Tail(FullList) = PodList
  BY DEF FullList, PodList
<1>5. Tail(PodList) = LastList
  BY DEF PodList, LastList
<1>6. FullList # PodList /\ FullList # LastList /\ PodList # LastList
  BY <1>3
<1>7. Len(FullList) > 1 /\ Len(PodList) > 1 /\ ~(Len(LastList) > 1)
  BY <1>3
<1> QED  BY <1>1, <1>2, <1>3, <1>4, <1>5, <1>6, <1>7, Zenon

\* While no two have overlapped, a start that is in progress is the one that was, or has
\* just arrived.
LEMMA StartingNext ==
  ASSUME Typed, [Next]_vars, ~raced', NEW r \in Starting'
  PROVE  \/ r \in Starting /\ (job'[r] = job[r] \/ Serve(r))
         \/ Starting = {} /\ job'[r].pc = "readDisk"
<1>0. r \in Requests /\ job'[r].op = "start" /\ job'[r].pc \notin Over
  BY DEF Starting
<1>1. CASE job'[r] = job[r]
  BY <1>0, <1>1 DEF Starting
<1>2. CASE Serve(r)
  BY <1>0, <1>2, StartGoesOn
<1>3. CASE Arrive(r)
  BY <1>0, <1>3, ArriveStart
<1>4. CASE Crash /\ job'[r] # job[r]
  BY <1>0, <1>4, CrashFits DEF Over
<1> QED  BY <1>0, <1>1, <1>2, <1>3, <1>4, OwnSteps

\* The start that makes its next object, within the room that it found.
LEMMA BuildRoom ==
  ASSUME Typed, [Next]_vars, NEW r \in Starting, CreateNext(r), InLimits, Room(r)
  PROVE  InLimits' /\ Room(r)'
<1>0. /\ r \in Requests /\ job[r].op = "start" /\ job[r].pc = "creating" /\ Fits(job[r])
      /\ job[r].after = "awaitRunning" /\ job[r].todo \in {FullList, PodList, LastList}
      /\ disk \in [Workspaces -> Disk] /\ pod \in [Workspaces -> Pod] /\ job[r].ws \in Workspaces
  BY DEF Starting, CreateNext, Typed, AllFit, Fits, Room, DiskType, PodType, Disk, Pod
<1> DEFINE w == job[r].ws
<1>1. \/ UNCHANGED <<disk, pod>>
      \/ Head(job[r].todo) = "disk" /\ DiskMoves(w, NewDisk(r)) /\ pod' = pod
      \/ Head(job[r].todo) = "pod" /\ PodMoves(w, NewPod(r)) /\ disk' = disk
      \/ Head(job[r].todo) \notin {"disk", "pod"} /\ disk' = disk /\ pod' = pod
  BY <1>0, Creates DEF cluster
<1>2. disk' = disk => Disks' = Disks
  BY DEF Disks
<1>3. pod' = pod => Active' = Active
  BY DEF Active, Status
<1>4. DiskMoves(w, NewDisk(r)) => Disks' \subseteq Disks \union {w}
  BY <1>0 DEF DiskMoves, Disks
<1>5. PodMoves(w, NewPod(r)) => Active' \subseteq Active \union {w}
  <2>1. ASSUME PodMoves(w, NewPod(r)), NEW v \in Workspaces, v # w PROVE Status(v)' = Status(v)
    <3>1. pod'[v] = pod[v]
      BY <1>0, <2>1 DEF PodMoves
    <3> QED  BY <3>1 DEF Status
  <2> QED  BY <2>1 DEF Active
<1>6. /\ Cardinality(Disks) \in Nat /\ Cardinality(Active) \in Nat
      /\ \A x : Disks' \subseteq Disks \union {x} => Cardinality(Disks') <= Cardinality(Disks) + 1
      /\ \A x : Active' \subseteq Active \union {x} => Cardinality(Active') <= Cardinality(Active) + 1
      /\ \A x : Disks' \subseteq Disks \union {x} => Cardinality(Disks') \in Nat
      /\ \A x : Active' \subseteq Active \union {x} => Cardinality(Active') \in Nat
  BY Counted, CountedNext
<1>7. InLimits'
  <2>1. CASE job[r].todo = FullList
    <3>1. /\ Active' = Active
          /\ Disks' = Disks \/ Disks' \subseteq Disks \union {w}
      BY <1>1, <1>2, <1>3, <1>4, <2>1, StartLists
    <3>2. Cardinality(Disks') <= MaxWorkspaces
      BY <1>0, <1>6, <2>1, <3>1, ConstantsAssumption DEF Room
    <3> QED  BY <3>1, <3>2 DEF InLimits
  <2>2. CASE job[r].todo = PodList
    <3>1. /\ Disks' = Disks
          /\ Active' = Active \/ Active' \subseteq Active \union {w}
      BY <1>1, <1>2, <1>3, <1>5, <2>2, StartLists
    <3>2. Cardinality(Active) < MaxConcurrent
      BY <1>0, <2>2 DEF Room
    <3>3. Active' \subseteq Active \union {w}
          => Cardinality(Active') \in Nat /\ Cardinality(Active') <= Cardinality(Active) + 1
      BY <1>6
    <3>4. Cardinality(Active') <= MaxConcurrent
      BY <1>6, <3>1, <3>2, <3>3, ConstantsAssumption
    <3> QED  BY <3>1, <3>4 DEF InLimits
  <2>3. CASE job[r].todo = LastList
    BY <1>1, <1>2, <1>3, <2>3, StartLists DEF InLimits
  <2> QED  BY <1>0, <2>1, <2>2, <2>3
<1>8. CASE Works(r, "deleting", Rollback(r), "failed")
  BY <1>7, <1>8 DEF Works, Goes, Room
<1>9. CASE /\ Proceed(r)
           /\ \/ Len(job[r].todo) > 1 /\ Works(r, "creating", Tail(job[r].todo), job[r].after)
              \/ ~(Len(job[r].todo) > 1) /\ Goes(r, job[r].after)
  <2>1. CASE job[r].todo = FullList
    <3>1. job'[r].pc = "creating" /\ job'[r].todo = PodList
      BY <1>9, <2>1, StartLists DEF Works, Goes
    <3>2. Active' = Active /\ Cardinality(Active) < MaxConcurrent
      BY <1>0, <1>1, <1>3, <2>1, StartLists DEF Room
    <3> QED  BY <1>7, <3>1, <3>2, StartLists DEF Room
  <2>2. CASE job[r].todo = PodList
    <3>1. job'[r].pc = "creating" /\ job'[r].todo = LastList
      BY <1>9, <2>2, StartLists DEF Works, Goes
    <3> QED  BY <1>7, <3>1, StartLists DEF Room
  <2>3. CASE job[r].todo = LastList
    <3>1. job'[r].pc = "awaitRunning"
      BY <1>0, <1>9, <2>3, StartLists DEF Goes
    <3> QED  BY <1>7, <3>1 DEF Room
  <2> QED  BY <1>0, <2>1, <2>2, <2>3
<1> QED  BY <1>0, <1>8, <1>9, BuildServes, Zenon

\* The start that counts, or does anything else but make an object.
LEMMA CountRoom ==
  ASSUME Typed, [Next]_vars, NEW r \in Starting, r \in Starting', Serve(r), ~CreateNext(r), Room(r),
         Active' \subseteq Active, Disks' \subseteq Disks
  PROVE  Room(r)'
<1>0. r \in Requests /\ job[r].op = "start" /\ Fits(job[r]) /\ r \in Handlers
  BY DEF Starting, Typed, AllFit, Handlers
<1>1. /\ Cardinality(Active) \in Nat /\ Cardinality(Disks) \in Nat
      /\ Cardinality(Active') \in Nat /\ Cardinality(Disks') \in Nat
      /\ Cardinality(Active') <= Cardinality(Active) /\ Cardinality(Disks') <= Cardinality(Disks)
  BY Counted, CountedNext
<1>2. ASSUME NEW l, Goes(r, l), l \notin {"creating", "countDisks"} PROVE Room(r)'
  BY <1>2 DEF Goes, Room
<1>3. ASSUME NEW s, NEW a, Works(r, "deleting", s, a) PROVE Room(r)'
  BY <1>3 DEF Works, Goes, Room
<1>4. ~PodLimitReached => Cardinality(Active') < MaxConcurrent
  BY <1>1, ConstantsAssumption DEF PodLimitReached
<1>5. ~(Cardinality(Disks) >= MaxWorkspaces) => Cardinality(Disks') < MaxWorkspaces
  BY <1>1, ConstantsAssumption
<1>6. CASE Prepares(r)
  <2>1. CASE job'[r].pc = "readPod"
    BY <2>1 DEF Room
  <2>2. CASE ~PodLimitReached /\ Goes(r, "countDisks")
    BY <1>4, <2>2 DEF Goes, Room
  <2>3. CASE ~PodLimitReached /\ Works(r, "creating", StartOrder(FALSE), "awaitRunning")
    BY <1>4, <2>3, StartLists DEF Works, Goes, Room
  <2>4. CASE /\ job[r].pc = "countDisks" /\ ~(Cardinality(Disks) >= MaxWorkspaces)
             /\ Works(r, "creating", StartOrder(TRUE), "awaitRunning")
    <3>1. Cardinality(Active) < MaxConcurrent
      BY <2>4 DEF Room
    <3>2. Cardinality(Active') < MaxConcurrent /\ Cardinality(Disks') < MaxWorkspaces
      BY <1>1, <1>5, <2>4, <3>1, ConstantsAssumption
    <3>3. job'[r].todo = FullList
      BY <2>4, StartLists DEF Works
    <3> QED  BY <2>4, <3>2, <3>3 DEF Works, Goes, Room
  <2>5. CASE \E l \in {"count", "touch", "failed", "done"} : Goes(r, l)
    BY <1>2, <2>5
  <2>6. CASE Works(r, "deleting", StopOrder, "awaitGone")
    BY <1>3, <2>6
  <2> QED  BY <1>6, <2>1, <2>2, <2>3, <2>4, <2>5, <2>6, Zenon DEF Prepares
<1>7. CASE Waits(r)
  BY <1>2, <1>3, <1>7 DEF Waits
<1>8. CASE DeleteNext(r)
  <2>1. job[r].after \in {"awaitGone", "failed"}
    BY <1>0, <1>8 DEF DeleteNext, Fits
  <2> QED  BY <1>0, <1>2, <1>3, <1>8, <2>1, ClearServes
<1> QED  BY <1>0, <1>6, <1>7, <1>8, StartServes

LEMMA NextRoomy == Typed /\ Solo /\ Roomy /\ [Next]_vars => Roomy'
<1> SUFFICES ASSUME Typed, Solo, Roomy, [Next]_vars, ~raced'
             PROVE  InLimits' /\ \A r \in Starting' : Room(r)'
  BY DEF Roomy
<1>0. InLimits /\ (\A r \in Starting : Room(r)) /\ \A p, q \in Starting : p = q
  BY Lasting DEF Roomy, Solo
<1>1. ASSUME NEW q \in Starting, CreateNext(q) PROVE InLimits' /\ \A r \in Starting' : Room(r)'
  <2>1. \A r \in Starting' : r = q
    BY <1>0, <1>1, StartingNext
  <2> QED  BY <1>0, <1>1, <2>1, BuildRoom
<1>2. CASE ~\E q \in Starting : CreateNext(q)
  <2>1. Active' \subseteq Active /\ Disks' \subseteq Disks
    BY <1>2, ActiveNext, DisksNext
  <2>2. /\ Cardinality(Active) \in Nat /\ Cardinality(Disks) \in Nat
        /\ Cardinality(Active') \in Nat /\ Cardinality(Disks') \in Nat
        /\ Cardinality(Active') <= Cardinality(Active) /\ Cardinality(Disks') <= Cardinality(Disks)
    BY <2>1, Counted, CountedNext
  <2>3. InLimits'
    BY <1>0, <2>2, ConstantsAssumption DEF InLimits
  <2>4. ASSUME NEW r \in Starting' PROVE Room(r)'
    <3>1. CASE Starting = {} /\ job'[r].pc = "readDisk"
      BY <3>1 DEF Room
    <3>2. CASE r \in Starting /\ Serve(r)
      BY <1>0, <1>2, <2>1, <2>4, <3>2, CountRoom
    <3>3. CASE r \in Starting /\ job'[r] = job[r]
      BY <1>0, <2>2, <3>3, ConstantsAssumption DEF Room
    <3> QED  BY <2>4, <3>1, <3>2, <3>3, StartingNext
  <2> QED  BY <2>3, <2>4
<1> QED  BY <1>1, <1>2

\* TERMINAL_MAX_CONCURRENT and TERMINAL_MAX_WORKSPACES hold as long as no two starts have
\* overlapped: nothing but a start adds to what either counts, so the room that it found
\* is still there when it creates, several awaits later.
THEOREM WorkspaceLimits == Spec => []LimitsUnlessRaced
<1>1. Init => Roomy
  <2> SUFFICES ASSUME Init PROVE InLimits /\ Starting = {}
    BY DEF Roomy
  <2>1. Starting = {}
    BY DEF Init, Starting, Blank, Handlers
  <2>2. PICK up \in SUBSET {w \in Workspaces : disk[w].st = "bound"} :
          /\ Cardinality(up) <= MaxConcurrent
          /\ pod = [w \in Workspaces |-> IF w \in up THEN [NoPod EXCEPT !.phase = "running"] ELSE NoPod]
    BY DEF Init
  <2>3. Active \subseteq up
    <3>1. ASSUME NEW w \in Workspaces, w \notin up PROVE w \notin Active
      <4>1. pod[w].phase = "none"
        BY <2>2, <3>1 DEF NoPod
      <4> QED  BY <4>1 DEF Active, Status
    <3> QED  BY <3>1 DEF Active
  <2>4. IsFiniteSet(up) /\ Cardinality(up) \in Nat
    BY ConstantsAssumption, FS_Subset, FS_CardinalityType
  <2>5. Cardinality(Active) \in Nat /\ Cardinality(Active) <= Cardinality(up)
    BY <2>3, <2>4, FS_Subset, FS_CardinalityType
  <2>6. Cardinality(Active) <= MaxConcurrent
    BY <2>2, <2>4, <2>5, ConstantsAssumption
  <2>7. Cardinality(Disks) <= MaxWorkspaces
    BY DEF Init
  <2> QED  BY <2>1, <2>6, <2>7 DEF InLimits
<1>2. Roomy => LimitsUnlessRaced
  BY DEF Roomy, LimitsUnlessRaced, InLimits, WithinLimit
<1>3. Spec => []Typed /\ []Solo
  BY InitType, NextType, InitSolo, NextSolo, PTL DEF Spec
<1> QED  BY <1>1, <1>2, <1>3, NextRoomy, PTL DEF Spec
==============================================================================
