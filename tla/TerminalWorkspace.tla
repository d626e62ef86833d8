--------------------------- MODULE TerminalWorkspace ---------------------------
(***************************************************************************)
(* The life of terminal workspaces: a disk (PVC) per project that outlives *)
(* its pod, the pod itself, and the objects around it.  All of it lives in *)
(* Kubernetes; the Executor keeps only two maps in memory.  The HTTP        *)
(* requests of terminal.service.ts and the sweep of                        *)
(* terminal-reaper.service.ts run concurrently: one step of a handler is    *)
(* what happens up to and including one await.                             *)
(***************************************************************************)
EXTENDS Naturals, FiniteSets, Sequences

CONSTANTS
  Workspaces,      \* workspace ids (one project each)
  Requests,        \* HTTP requests; each is one call of one operation
  Reaper,          \* the cron sweep
  Nil,             \* no request (the maker of what exists at the start), no workspace
  Ops,             \* operations the requests may ask for
  Mishaps,         \* what may befall a pod: it "dies", "expires", "idles"
  MaxConcurrent,   \* TERMINAL_MAX_CONCURRENT
  MaxWorkspaces,   \* TERMINAL_MAX_WORKSPACES
  EraseAttempts,   \* attempts of deletePvcOrThrow
  MaxErrors,       \* bound: API calls that throw, or are accepted and do nothing
  MaxSlips,        \* bound: best-effort API calls whose failure is swallowed
  MaxCrashes       \* bound: restarts of the Executor

AllOps == {"start", "stop", "delete", "use", "exec", "expose"}

ASSUME ConstantsAssumption ==
  /\ IsFiniteSet(Workspaces) /\ Nil \notin Workspaces
  /\ Reaper \notin Requests /\ Nil \notin Requests
  /\ Ops \subseteq AllOps
  /\ Mishaps \subseteq {"dies", "expires", "idles"}
  /\ MaxConcurrent \in Nat \ {0} /\ MaxWorkspaces \in Nat \ {0}
  /\ EraseAttempts \in Nat \ {0}
  /\ MaxErrors \in Nat /\ MaxSlips \in Nat /\ MaxCrashes \in Nat

VARIABLES
  disk,     \* workspace -> its PVC
  pod,      \* workspace -> its pod
  extra,    \* workspace -> the other objects that carry its name
  busy,     \* workspaces with a command in progress (memory)
  touched,  \* workspaces whose activity was noted less than 60 s ago (memory)
  job,      \* handler -> where it is
  errors, slips, crashes,   \* how much of each bound is used
  raced,    \* history: two starts have been in progress at once
  wiped     \* history: a stopPod took the busy mark of a command in progress

cluster == <<disk, pod, extra>>
memory  == <<busy, touched>>
history == <<raced, wiped>>
budget  == <<errors, slips, crashes, history>>
vars    == <<cluster, memory, job, budget>>

Handlers == Requests \union {Reaper}
Makers   == Requests \union {Nil}
Extras   == {"route", "service", "ingress", "egress"}
Over     == {"done", "failed", "lost"}

NoDisk == [st |-> "none", by |-> Nil]
NoPod  == [phase |-> "none", by |-> Nil,
           doomed |-> FALSE, expired |-> FALSE, idle |-> FALSE]
Blank  == [pc |-> "idle", op |-> "none", ws |-> Nil,
           fresh |-> FALSE, todo |-> <<>>, after |-> "done", tries |-> 0,
           prey |-> {}]

NewDisk(h) == [st |-> "bound", by |-> h]
NewPod(h)  == [NoPod EXCEPT !.phase = "pending", !.by = h]

\* With a deletionTimestamp: who made it, and what its annotations say, no longer matters.
DyingDisk(d) == IF d.st = "bound" THEN [st |-> "terminating", by |-> Nil] ELSE d
DyingPod(p)  == IF p.phase = "none" THEN p ELSE [NoPod EXCEPT !.phase = p.phase, !.doomed = TRUE]

-----------------------------------------------------------------------------
(* What the API server answers.                                            *)

\* A pod being deleted still reports Running; statusOf calls it failed.  Its
\* conditions overlap: the first that holds decides.
Status(w) ==
  IF pod[w].phase = "none" THEN "stopped"
  ELSE IF pod[w].doomed THEN "failed"
  ELSE IF pod[w].expired THEN "expired"
  ELSE CASE pod[w].phase = "pending" -> "starting"
         [] pod[w].phase = "running" -> "running"
         [] OTHER                    -> "failed"

\* listRunningPods: what counts towards TERMINAL_MAX_CONCURRENT.
Active == {w \in Workspaces : Status(w) \in {"starting", "running"}}

\* The listing for TERMINAL_MAX_WORKSPACES counts PVCs being deleted too.
Disks == {w \in Workspaces : disk[w].st # "none"}

\* Mutant: lets one pod too many in.
PodLimitOffByOne == Cardinality(Active) > MaxConcurrent

PodLimitReached == Cardinality(Active) >= MaxConcurrent

Exists(o, w) ==
  \/ o = "disk" /\ disk[w].st # "none"
  \/ o = "pod" /\ pod[w].phase # "none"
  \/ o \in extra[w]

\* What the catch of expose deletes, and stopPod deletes first.
UndoOrder == <<"route", "service", "ingress">>

\* The order of stopPod: what carries traffic first, the pod last, then the two
\* entries in memory.  (Where nothing is exposed, the first calls find nothing.)
StopOrder ==
  (IF "expose" \in Ops THEN UndoOrder ELSE <<>>) \o <<"egress", "pod", "memory">>

\* A start builds these; expose builds those.
StartOrder(fresh) == (IF fresh THEN <<"disk">> ELSE <<>>) \o <<"pod", "egress">>
PublishOrder      == <<"service", "ingress", "route">>

\* Mutant: gives up the disk whether or not this start created it.
RollbackAll(h) ==
  IF job[h].op = "expose" THEN UndoOrder ELSE StopOrder \o <<"disk">>

\* Mutant: leaves the new disk behind.
RollbackPodOnly(h) == IF job[h].op = "expose" THEN UndoOrder ELSE StopOrder

\* What a handler deletes when a step of its try block fails: a start also
\* gives up its disk, if its own reading of the PVC found none.
Rollback(h) ==
  IF job[h].op = "expose" THEN UndoOrder
  ELSE StopOrder \o (IF job[h].fresh THEN <<"disk">> ELSE <<>>)

-----------------------------------------------------------------------------
(* Building blocks of a handler's step.                                    *)

\* What a request leaves behind once it has answered.
Ended(h, l) == [Blank EXCEPT !.pc = l, !.op = job[h].op, !.ws = job[h].ws]

Go(h, l) ==
  job' = [job EXCEPT ![h] = IF l \in Over THEN Ended(h, l)
                                 ELSE [@ EXCEPT !.pc = l, !.todo = <<>>]]

Create(h, list, then) ==
  job' = [job EXCEPT ![h].pc = "creating", ![h].todo = list, ![h].after = then]

\* The next of a list of calls; after the last, on to what comes then.
Proceed(h) ==
  IF Len(job[h].todo) > 1 THEN job' = [job EXCEPT ![h].todo = Tail(@)]
  ELSE Go(h, job[h].after)

Delete(h, list, then) ==
  job' = [job EXCEPT ![h].pc = "deleting", ![h].todo = list, ![h].after = then]

\* An API call goes wrong and the handler is told, or will see; or it fails and the
\* wrapper only logs it.
Errs   == errors < MaxErrors /\ errors' = errors + 1 /\ UNCHANGED <<slips, crashes, history>>
Slips  == slips < MaxSlips /\ slips' = slips + 1 /\ UNCHANGED <<errors, crashes, history>>

\* A handler outside its try block fails with the error of the API call.
ThrowAt(h, l) ==
  job[h].pc = l /\ Errs /\ Go(h, "failed") /\ UNCHANGED <<cluster, memory>>

\* The starts, and the commands of a workspace, that are in progress.
Starting == {r \in Requests : job[r].op = "start" /\ job[r].pc \notin Over}

Commands(w) ==
  {r \in Requests : job[r].op = "exec" /\ job[r].ws = w
                      /\ job[r].pc \in {"require", "touch", "work"}}

-----------------------------------------------------------------------------
(* A request arrives.  exec looks at busy and takes it before its first     *)
(* await; stop and delete begin with stopPod.                               *)

FirstStep(op) ==
  CASE op = "start"            -> "readDisk"
    [] op \in {"stop", "delete"} -> "deleting"
    [] OTHER                   -> "require"

\* Mutant: nobody looks at busy.
RefusesNothing(op, w) == FALSE

Refused(op, w) == op = "exec" /\ w \in busy

Arrive(r) ==
  \E op \in Ops, w \in Workspaces :
    /\ job[r].pc = "idle"
    /\ job' = [job EXCEPT ![r] =
         [Blank EXCEPT !.op = op, !.ws = w,
            !.pc    = IF Refused(op, w) THEN "failed" ELSE FirstStep(op),
            !.todo  = IF op \in {"stop", "delete"} THEN StopOrder ELSE <<>>,
            !.after = IF op = "delete" THEN "erase" ELSE "done"]]
    /\ busy' = IF op = "exec" THEN busy \union {w} ELSE busy
    /\ raced' = (raced \/ (op = "start" /\ Starting # {}))
    /\ UNCHANGED <<cluster, touched, errors, slips, crashes, wiped>>

-----------------------------------------------------------------------------
(* start                                                                   *)

\* readPvcOrNull: a PVC that is being deleted still counts as there.
ReadDisk(r) ==
  /\ job[r].pc = "readDisk"
  /\ job' = [job EXCEPT ![r].pc = "readPod",
                        ![r].fresh = disk[job[r].ws].st = "none"]
  /\ UNCHANGED <<cluster, memory, budget>>

\* Running or starting: note the activity and answer with it.  Anything else
\* that is still there has to go first.
ReadPod(r) ==
  LET s == Status(job[r].ws) IN
  /\ job[r].pc = "readPod"
  /\ CASE s = "stopped" -> Go(r, "count")
       [] s \in {"starting", "running"} -> Go(r, "touch")
       [] OTHER -> Delete(r, StopOrder, "awaitGone")
  /\ UNCHANGED <<cluster, memory, budget>>

\* waitForPodGone: gone, or the 30 s are over (or a read failed).
AwaitGone(r) ==
  /\ job[r].pc = "awaitGone"
  /\ \/ pod[job[r].ws].phase = "none" /\ Go(r, "count")
     \/ pod[job[r].ws].phase # "none" /\ Go(r, "failed")
  /\ UNCHANGED <<cluster, memory, budget>>

CountPods(r) ==
  /\ job[r].pc = "count"
  /\ IF PodLimitReached THEN Go(r, "failed")
     ELSE IF job[r].fresh THEN Go(r, "countDisks")
     ELSE Create(r, StartOrder(FALSE), "awaitRunning")
  /\ UNCHANGED <<cluster, memory, budget>>

CountDisks(r) ==
  /\ job[r].pc = "countDisks"
  /\ IF Cardinality(Disks) >= MaxWorkspaces THEN Go(r, "failed")
     ELSE Create(r, StartOrder(TRUE), "awaitRunning")
  /\ UNCHANGED <<cluster, memory, budget>>

\* waitForPodRunning looks at the phase alone: Running answers, a finished or
\* missing pod throws, a pod that stays Pending runs out of its 120 s.
AwaitRunning(r) ==
  /\ job[r].pc = "awaitRunning"
  /\ \/ pod[job[r].ws].phase = "running" /\ Go(r, IF job[r].fresh THEN "seed" ELSE "done")
     \/ pod[job[r].ws].phase # "running" /\ Delete(r, Rollback(r), "failed")
  /\ UNCHANGED <<cluster, memory, budget>>

\* writeFiles into a new disk: there may be none, and the exec may fail.
Seed(r) ==
  /\ job[r].pc = "seed"
  /\ \/ Go(r, "done")
     \/ Delete(r, Rollback(r), "failed")
  /\ UNCHANGED <<cluster, memory, budget>>

-----------------------------------------------------------------------------
(* The try block of start and of expose: one object after another, each     *)
(* create refused (409) if its name is taken.  A create that throws may have *)
(* taken effect.                                                            *)

CreateNext(r) ==
  LET w == job[r].ws  o == Head(job[r].todo) IN
  /\ job[r].pc = "creating"
  /\ \/ /\ ~Exists(o, w)
        /\ disk' = [disk EXCEPT ![w] = IF o = "disk" THEN NewDisk(r) ELSE @]
        /\ pod' = [pod EXCEPT ![w] = IF o = "pod" THEN NewPod(r) ELSE @]
        /\ extra' = [extra EXCEPT ![w] = @ \union ({o} \intersect Extras)]
        /\ \/ Proceed(r) /\ UNCHANGED budget
           \/ Errs /\ Delete(r, Rollback(r), "failed")
     \/ Exists(o, w) /\ Delete(r, Rollback(r), "failed") /\ UNCHANGED <<cluster, budget>>
     \/ Errs /\ Delete(r, Rollback(r), "failed") /\ UNCHANGED cluster
  /\ UNCHANGED memory

-----------------------------------------------------------------------------
(* stopPod, the undo of expose and the clean-up of start: deletes that never *)
(* throw, one await each.  Deleting a pod or a PVC only marks it.            *)

DeleteNext(h) ==
  LET w == job[h].ws  o == Head(job[h].todo) IN
  /\ job[h].pc = "deleting" /\ Proceed(h)
  /\ \/ /\ disk' = [disk EXCEPT ![w] = IF o = "disk" THEN DyingDisk(@) ELSE @]
        /\ pod' = [pod EXCEPT ![w] = IF o = "pod" THEN DyingPod(@) ELSE @]
        /\ extra' = [extra EXCEPT ![w] = @ \ {o}]
        /\ busy' = IF o = "memory" THEN busy \ {w} ELSE busy
        /\ touched' = IF o = "memory" THEN touched \ {w} ELSE touched
        /\ wiped' = (wiped \/ (o = "memory" /\ Commands(w) # {}))
        /\ UNCHANGED <<errors, slips, crashes, raced>>
     \/ Exists(o, w) /\ Slips /\ UNCHANGED <<cluster, memory>>

-----------------------------------------------------------------------------
(* deletePvcOrThrow, after stopPod: ask, then read back; another attempt if  *)
(* either fails or the PVC is still alive.                                   *)

\* Mutant: one attempt too many.
RetryOffByOne(r) ==
  job' = [job EXCEPT ![r] =
            IF @.tries >= EraseAttempts THEN Ended(r, "failed")
            ELSE [job[r] EXCEPT !.pc = "erase", !.tries = @ + 1]]

Retry(r) ==
  job' = [job EXCEPT ![r] =
            IF @.tries + 1 >= EraseAttempts THEN Ended(r, "failed")
            ELSE [job[r] EXCEPT !.pc = "erase", !.tries = @ + 1]]

\* The delete is accepted, with effect or without; or it throws, perhaps after it
\* took effect.
Erase(r) ==
  LET dying == [disk EXCEPT ![job[r].ws] = DyingDisk(@)] IN
  /\ job[r].pc = "erase"
  /\ \/ disk' = dying /\ Go(r, "verify") /\ UNCHANGED budget
     \/ UNCHANGED disk /\ Go(r, "verify") /\ Errs
     \/ disk' \in {disk, dying} /\ Retry(r) /\ Errs
  /\ UNCHANGED <<pod, extra, memory>>

\* Mutant: a delete that was accepted is believed.
VerifyBelieves(r) ==
  /\ job[r].pc = "verify"
  /\ \/ Go(r, "done") /\ UNCHANGED budget
     \/ Retry(r) /\ Errs
  /\ UNCHANGED <<cluster, memory>>

\* readPvc: gone, going, or still alive; or it throws.
Verify(r) ==
  /\ job[r].pc = "verify"
  /\ \/ disk[job[r].ws].st # "bound" /\ Go(r, "done") /\ UNCHANGED budget
     \/ disk[job[r].ws].st = "bound" /\ Retry(r) /\ UNCHANGED budget
     \/ Retry(r) /\ Errs
  /\ UNCHANGED <<cluster, memory>>

-----------------------------------------------------------------------------
(* exec, and every other use of a running pod.                             *)

\* Mutant: an error leaves the workspace busy.
ReleaseNothing(r) == UNCHANGED busy

\* The finally of exec releases busy, whoever holds it by now.
Release(r) == busy' = IF job[r].op = "exec" THEN busy \ {job[r].ws} ELSE busy

\* requireRunningPod, with an API error as one more way to fail.
Require(r) ==
  /\ job[r].pc = "require"
  /\ \/ /\ Status(job[r].ws) = "running"
        /\ Go(r, "touch") /\ UNCHANGED <<busy, budget>>
     \/ /\ Status(job[r].ws) # "running"
        /\ Go(r, "failed") /\ Release(r) /\ UNCHANGED budget
     \/ Errs /\ Go(r, "failed") /\ Release(r)
  /\ UNCHANGED <<cluster, touched>>

\* touchActivity: the memory is set before the patch, and a patch that fails is
\* only logged.
Touch(r) ==
  LET w == job[r].ws IN
  /\ job[r].pc = "touch"
  /\ Go(r, CASE job[r].op = "start" -> "done"
             [] job[r].op = "expose" -> "listed"
             [] OTHER -> "work")
  /\ touched' = touched \union {w}
  /\ \/ w \notin touched /\ pod[w].phase # "none"
        /\ pod' = [pod EXCEPT ![w].idle = FALSE] /\ UNCHANGED budget
     \/ (w \in touched \/ pod[w].phase = "none") /\ UNCHANGED <<pod, budget>>
     \/ w \notin touched /\ Slips /\ UNCHANGED pod
  /\ UNCHANGED <<disk, extra, busy>>

\* The command (or transfer, request, listing) ends, well or badly.
Work(r) ==
  /\ job[r].pc = "work"
  /\ \E l \in {"done", "failed"} : Go(r, l)
  /\ Release(r)
  /\ UNCHANGED <<cluster, touched, budget>>

\* expose: a workspace with a Service is already published; otherwise look for
\* the build and start the static server in the pod, which may fail.
Listed(r) ==
  /\ job[r].pc = "listed"
  /\ \/ "service" \notin extra[job[r].ws] /\ Create(r, PublishOrder, "done")
     \/ Go(r, "failed")
  /\ UNCHANGED <<cluster, memory, budget>>

-----------------------------------------------------------------------------
(* The reaper.                                                             *)

\* Mutant: a pod whose time is over does not count.
CondemnedIdle == {w \in Workspaces : Status(w) = "running" /\ pod[w].idle}

\* What one listing condemns: expired, failed, or running and idle.  A pod that
\* is being deleted is not listed.
Condemned ==
  {w \in Workspaces : /\ pod[w].phase # "none" /\ ~pod[w].doomed
                      /\ \/ Status(w) \in {"expired", "failed"}
                         \/ Status(w) = "running" /\ pod[w].idle}

\* A sweep that finds nothing changes nothing.
Sweep ==
  /\ job[Reaper].pc = "idle"
  /\ job' = IF Condemned = {} THEN job
            ELSE [job EXCEPT ![Reaper].pc = "sweep", ![Reaper].prey = Condemned]
  /\ UNCHANGED <<cluster, memory, budget>>

ReapNext ==
  /\ job[Reaper].pc = "sweep"
  /\ \E w \in job[Reaper].prey :
       job' = [job EXCEPT ![Reaper] =
                 [job[Reaper] EXCEPT !.ws = w, !.prey = @ \ {w}, !.pc = "deleting",
                                     !.todo = StopOrder, !.after = "sweep"]]
  /\ UNCHANGED <<cluster, memory, budget>>

ReapEnd ==
  /\ job[Reaper].pc = "sweep" /\ job[Reaper].prey = {}
  /\ job' = [job EXCEPT ![Reaper] = Blank]
  /\ UNCHANGED <<cluster, memory, budget>>

-----------------------------------------------------------------------------
(* The cluster and the clock.                                              *)

\* A pod is scheduled only onto a disk that is there and not being deleted.
PodStarts(w) ==
  /\ pod[w].phase = "pending" /\ ~pod[w].doomed /\ disk[w].st = "bound"
  /\ pod' = [pod EXCEPT ![w].phase = "running"]
  /\ UNCHANGED <<disk, extra, memory, job, budget>>

\* restartPolicy Never: a container that dies leaves a Failed pod, which everybody
\* treats like an expired one.
PodDies(w) ==
  /\ "dies" \in Mishaps /\ pod[w].phase = "running"
  /\ pod' = [pod EXCEPT ![w] = [@ EXCEPT !.phase = "dead", !.expired = FALSE, !.idle = FALSE]]
  /\ UNCHANGED <<disk, extra, memory, job, budget>>

PodGone(w) ==
  /\ pod[w].doomed
  /\ pod' = [pod EXCEPT ![w] = NoPod]
  /\ UNCHANGED <<disk, extra, memory, job, budget>>

\* The protection finalizer holds a PVC while a pod runs on it.
DiskGone(w) ==
  /\ disk[w].st = "terminating" /\ pod[w].phase # "running"
  /\ disk' = [disk EXCEPT ![w] = NoDisk]
  /\ UNCHANGED <<pod, extra, memory, job, budget>>

\* The time in the pod's expiry annotation passes; of a pod that is dead or being
\* deleted nobody asks any more.
Expire(w) ==
  /\ "expires" \in Mishaps /\ Status(w) \in {"starting", "running"}
  /\ pod' = [pod EXCEPT ![w].expired = TRUE]
  /\ UNCHANGED <<disk, extra, memory, job, budget>>

\* 60 s since the activity was noted.
ThrottleLapses(w) ==
  /\ "idles" \in Mishaps /\ w \in touched
  /\ touched' = touched \ {w}
  /\ UNCHANGED <<cluster, busy, job, budget>>

\* The annotation grows older than the idle timeout, which is far longer than
\* the throttle.
GoIdle(w) ==
  /\ "idles" \in Mishaps /\ pod[w].phase = "running" /\ ~pod[w].idle /\ w \notin touched
  /\ pod' = [pod EXCEPT ![w].idle = TRUE]
  /\ UNCHANGED <<disk, extra, memory, job, budget>>

\* The Executor restarts: handlers and memory are lost, the cluster is not.
Crash ==
  /\ crashes < MaxCrashes /\ crashes' = crashes + 1
  /\ job' = [h \in Handlers |->
               IF h = Reaper THEN Blank
               ELSE IF job[h].pc \in Over \union {"idle"} THEN job[h]
               ELSE Ended(h, "lost")]
  /\ busy' = {} /\ touched' = {}
  /\ UNCHANGED <<cluster, errors, slips, history>>

-----------------------------------------------------------------------------

Serve(r) ==
  \/ ReadDisk(r) \/ ReadPod(r) \/ AwaitGone(r) \/ CountPods(r) \/ CountDisks(r)
  \/ CreateNext(r) \/ AwaitRunning(r) \/ Seed(r)
  \/ DeleteNext(r) \/ Erase(r) \/ Verify(r)
  \/ Require(r) \/ Touch(r) \/ Work(r) \/ Listed(r)
  \/ \E l \in {"readDisk", "readPod", "count", "countDisks", "listed"} : ThrowAt(r, l)

Reap == Sweep \/ ReapNext \/ ReapEnd \/ DeleteNext(Reaper)

Environment ==
  \E w \in Workspaces :
    PodStarts(w) \/ PodDies(w) \/ PodGone(w) \/ DiskGone(w) \/ Expire(w)
      \/ ThrottleLapses(w) \/ GoIdle(w)

\* A project may have been stored, or be running, when the model starts.
Init ==
  /\ disk \in [Workspaces -> {NoDisk, NewDisk(Nil)}]
  /\ \E up \in SUBSET {w \in Workspaces : disk[w].st = "bound"} :
       /\ Cardinality(up) <= MaxConcurrent
       /\ pod = [w \in Workspaces |->
                   IF w \in up THEN [NoPod EXCEPT !.phase = "running"] ELSE NoPod]
       /\ extra = [w \in Workspaces |-> IF w \in up THEN {"egress"} ELSE {}]
  /\ Cardinality(Disks) <= MaxWorkspaces
  /\ busy = {} /\ touched = {}
  /\ job = [h \in Handlers |-> Blank]
  /\ errors = 0 /\ slips = 0 /\ crashes = 0
  /\ raced = FALSE /\ wiped = FALSE

Next ==
  \/ \E r \in Requests : Arrive(r) \/ Serve(r)
  \/ Reap
  \/ Environment
  \/ Crash

\* Handlers are run by the event loop and their API calls end (every wait has a
\* deadline, every command its watchdog); the cron keeps firing; Kubernetes
\* finishes deletions; time passes.  No request has to arrive and no pod to start.
Fairness ==
  /\ \A r \in Requests : WF_vars(Serve(r))
  /\ WF_vars(Reap)
  /\ \A w \in Workspaces :
       /\ WF_vars(PodGone(w))
       /\ WF_vars(pod[w].phase \in {"none", "dead"} /\ DiskGone(w))
       /\ WF_vars(Expire(w))

Spec == Init /\ [][Next]_vars /\ Fairness

-----------------------------------------------------------------------------
(* Properties.                                                             *)

Job == [pc : {"idle", "readDisk", "readPod", "awaitGone", "count", "countDisks",
              "creating", "awaitRunning", "seed", "deleting", "erase", "verify",
              "require", "touch", "work", "listed", "sweep"} \union Over,
        op : AllOps \union {"none"}, ws : Workspaces \union {Nil}, fresh : BOOLEAN,
        todo : Seq(Extras \union {"disk", "pod", "memory"}),
        after : {"done", "failed", "awaitGone", "awaitRunning", "erase", "sweep"},
        tries : 0 .. EraseAttempts - 1, prey : SUBSET Workspaces]

\* Every variable has its type.
TypeOK ==
  /\ disk \in [Workspaces -> [st : {"none", "bound", "terminating"}, by : Makers]]
  /\ pod \in [Workspaces -> [phase : {"none", "pending", "running", "dead"}, by : Makers,
                             doomed : BOOLEAN, expired : BOOLEAN, idle : BOOLEAN]]
  /\ extra \in [Workspaces -> SUBSET Extras]
  /\ busy \subseteq Workspaces /\ touched \subseteq Workspaces
  /\ job \in [Handlers -> Job]
  /\ errors \in 0 .. MaxErrors /\ slips \in 0 .. MaxSlips /\ crashes \in 0 .. MaxCrashes
  /\ raced \in BOOLEAN /\ wiped \in BOOLEAN

\* "Solo un pod de terminal corre A LA VEZ (TERMINAL_MAX_CONCURRENT)": the count
\* is taken several awaits before the pod is created.
WithinLimit == Cardinality(Active) <= MaxConcurrent

\* The limits hold as long as no two starts have overlapped, whatever stops,
\* deletions, sweeps, failures and restarts come between the count and the create.
LimitsUnlessRaced ==
  ~raced => WithinLimit /\ Cardinality(Disks) <= MaxWorkspaces

\* A disk is destroyed at the request of its owner (deleteWorkspace), or by a
\* failed start that created it itself -- "uno que ya existia de antes se conserva
\* siempre".
ByOwnerOrMaker(w) ==
  \E r \in Requests :
    /\ job[r].ws = w /\ job'[r] # job[r]
    /\ \/ job[r].op = "delete" /\ job[r].pc = "erase"
       \/ job[r].op = "start" /\ disk[w].by = r

Destroyed(w) == disk[w].st = "bound" /\ disk'[w].st = "terminating"

DiskKept == [][\A w \in Workspaces : Destroyed(w) => ByOwnerOrMaker(w)]_vars

\* The same as long as no two starts have overlapped.
DiskKeptUnlessRaced ==
  [][\A w \in Workspaces : Destroyed(w) => raced \/ ByOwnerOrMaker(w)]_vars

\* "Nada a medias": when a start has failed, neither a pod nor a disk that it
\* created is still alive -- unless one of the best-effort deletes was lost.
NothingHalfBuilt ==
  slips = 0 =>
    \A r \in Requests : job[r].op = "start" /\ job[r].pc = "failed" =>
      \A w \in Workspaces :
        /\ disk[w].by = r => disk[w].st # "bound"
        /\ pod[w].by = r => pod[w].doomed

\* A deletion that was answered with success did erase the disk: one from before
\* the model started cannot still be alive (deletePvcOrThrow reads it back).
DeletionIsReal ==
  \A r \in Requests : job[r].op = "delete" /\ job[r].pc = "done" =>
    disk[job[r].ws].st # "bound" \/ disk[job[r].ws].by # Nil

\* busy never outlives its command, so exec cannot be refused for ever.
BusyHasCommand == \A w \in busy : Commands(w) # {}

\* "Un comando a la vez por proyecto".
OneCommand == \A w \in Workspaces : Cardinality(Commands(w)) <= 1

\* That holds until a stopPod takes the mark of a command that still runs: the
\* finally of that command then releases the mark of a later one.
OneCommandUnlessWiped == ~wiped => OneCommand

\* No pod outlives its usefulness: one that expired or died is removed by some
\* later sweep, although each sweep works from a listing and its deletes may be
\* lost, and although the Executor may restart in the middle.
Reclaimed ==
  \A w \in Workspaces :
    (pod[w].expired \/ pod[w].phase = "dead") ~> (pod[w].phase = "none")

\* A disk being deleted is released in the end, also when the deletion of its pod
\* was lost or a start put a new pod on it.
DiskReleased ==
  \A w \in Workspaces : disk[w].st = "terminating" ~> disk[w].st # "terminating"
=============================================================================
