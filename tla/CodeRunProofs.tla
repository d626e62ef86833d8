---------------------------- MODULE CodeRunProofs ----------------------------
(***************************************************************************)
(* What holds of POST /execute whatever the number of runs, of failed calls *)
(* and of restarts.                                                         *)
(***************************************************************************)
EXTENDS CodeRun, TLAPS

-----------------------------------------------------------------------------
(* Types.                                                                  *)

Results == {"none", "ok", "error", "timeout"}
Run     == [st : Stages, res : Results, seen : 0 .. MaxFailures, lost : BOOLEAN]

\* The type invariant, part by part, without the promises that the cache could keep once
\* they are rejected; what it says of resolving takes a count that is
\* exact, or a resolution that ends could make it negative.
RunType     == run \in [Runs -> Run]
PodType     == pod \in [Runs -> {"none", "running", "ended", "gone"}]
BoxType     == box \in [Runs -> {"none", "up", "gone"}]
ModalType   == /\ app \in {"none", "pending", "ready"}
               /\ image \in {"none", "naming", "building", "publishing", "ready"}
               /\ image # "none" => app = "ready"
NamedType   == named \in BOOLEAN
FailureType == failures \in 0 .. MaxFailures
OneAtATime  == resolving = IF InProgress THEN 1 ELSE 0

Typed == RunType /\ PodType /\ BoxType /\ ModalType /\ NamedType /\ FailureType /\ OneAtATime

\* The parts imply the type invariant of the module.
LEMMA Parted == Typed => TypeOK
<1> SUFFICES ASSUME Typed PROVE TypeOK
  OBVIOUS
<1>1. resolving \in Nat
  BY DEF Typed, OneAtATime
<1> QED  BY <1>1 DEF Typed, TypeOK, RunType, PodType, BoxType, ModalType, NamedType, FailureType,
                   Run, Results

\* The initial states have their types.
LEMMA InitType == Init => Typed
<1> SUFFICES ASSUME Init PROVE Typed
  OBVIOUS
<1>1. NewRun \in Run
  BY ConstantsAssumption DEF NewRun, Run, Stages, Results
<1>2. RunType /\ PodType /\ BoxType
  BY <1>1 DEF Init, RunType, PodType, BoxType
<1>3. NamedType
  BY Zenon DEF Init, NamedType
<1>4. ModalType /\ FailureType /\ OneAtATime
  BY ConstantsAssumption DEF Init, ModalType, FailureType, OneAtATime, InProgress
<1> QED  BY <1>2, <1>3, <1>4 DEF Typed

\* A call that fails is within the bound.
LEMMA FailType ==
  ASSUME FailureType, Fails
  PROVE  FailureType' /\ failures < failures'
BY ConstantsAssumption DEF FailureType, Fails

\* What a step leaves alone stays typed.
LEMMA Rest ==
  /\ RunType /\ UNCHANGED run => RunType'
  /\ PodType /\ UNCHANGED pod => PodType'
  /\ BoxType /\ UNCHANGED box => BoxType'
  /\ ModalType /\ UNCHANGED <<app, image>> => ModalType'
  /\ NamedType /\ UNCHANGED named => NamedType'
  /\ FailureType /\ UNCHANGED failures => FailureType'
  /\ OneAtATime /\ UNCHANGED <<image, resolving>> => OneAtATime'
  /\ UNCHANGED modal => UNCHANGED <<app, image>> /\ UNCHANGED <<image, resolving>> /\ UNCHANGED named
BY DEF RunType, PodType, BoxType, ModalType, NamedType, FailureType, OneAtATime, InProgress, modal

\* A run goes to a stage, with its result or with another.
LEMMA GoType ==
  ASSUME RunType, NEW r \in Runs, NEW st \in Stages, NEW res \in Results, NEW l \in BOOLEAN,
         Go(r, st) \/ To(r, st, res) \/ Over(r, res, l)
  PROVE  RunType'
<1>1. run[r] \in Run
  BY DEF RunType
<1>2. /\ [run[r] EXCEPT !.st = st] \in Run
      /\ [run[r] EXCEPT !.st = st, !.res = res] \in Run
      /\ [run[r] EXCEPT !.st = "over", !.res = res, !.lost = l] \in Run
  BY <1>1 DEF Run, Stages
<1>3. CASE Go(r, st)
  BY <1>2, <1>3 DEF RunType, Go
<1>4. CASE To(r, st, res)
  BY <1>2, <1>4 DEF RunType, To
<1>5. CASE Over(r, res, l)
  BY <1>2, <1>5 DEF RunType, Over
<1> QED  BY <1>3, <1>4, <1>5

\* Those who wait for a promise that is rejected hold it.
LEMMA RejectType ==
  ASSUME RunType, NEW st, Reject(st)
  PROVE  RunType'
<1>1. ASSUME NEW r \in Runs PROVE [run[r] EXCEPT !.st = "rejected"] \in Run
  BY DEF RunType, Run, Stages
<1> QED  BY <1>1 DEF RunType, Reject

\* A run that begins, and one that takes the place of one that is over.
LEMMA BeginType ==
  ASSUME Typed, NEW r \in Runs, Begin(r) \/ Again(r)
  PROVE  Typed'
<1> USE DEF Typed
<1>1. CASE Begin(r)
  <2>1. PICK st \in {"create", "app"} :
          run' = [run EXCEPT ![r] = [NewRun EXCEPT !.st = st, !.seen = failures]]
    BY <1>1 DEF Begin
  <2>2. [NewRun EXCEPT !.st = st, !.seen = failures] \in Run
    BY DEF NewRun, Run, Stages, Results, FailureType
  <2>3. RunType'
    BY <2>1, <2>2 DEF RunType
  <2> QED  BY <2>3, <1>1, Rest DEF Begin
<1>2. CASE Again(r)
  <2>1. NewRun \in Run
    BY ConstantsAssumption DEF NewRun, Run, Stages, Results
  <2>2. RunType' /\ PodType' /\ BoxType'
    BY <1>2, <2>1 DEF Again, RunType, PodType, BoxType
  <2> QED  BY <2>2, <1>2, Rest DEF Again
<1> QED  BY <1>1, <1>2

\* The steps of a run in a pod, and those of the pod.
PodStep(r) ==
  \/ CreatePod(r) \/ CreatePodFails(r) \/ PodEnds(r) \/ PodSeen(r) \/ PodTimesOut(r)
  \/ ReadLogs(r) \/ ReadFails(r) \/ DeletePod(r) \/ DeletePodSlips(r)

\* The steps of a run in a sandbox, and those of the sandbox.
BoxStep(r) ==
  \/ GetApp(r) \/ GetImage(r) \/ Hears(r) \/ CreateBox(r) \/ CreateBoxFails(r)
  \/ Exec(r) \/ ExecFails(r) \/ BoxExpires(r) \/ Terminate(r) \/ TerminateFails(r)

LEMMA PodStepType ==
  ASSUME Typed, NEW r \in Runs, PodStep(r)
  PROVE  Typed'
<1> USE DEF Typed
<1>1. UNCHANGED <<box, modal>>
  BY DEF PodStep, CreatePod, CreatePodFails, PodEnds, PodSeen, PodTimesOut, ReadLogs, ReadFails,
         DeletePod, DeletePodSlips
<1>2. FailureType'
  BY FailType, Rest DEF PodStep, CreatePod, CreatePodFails, PodEnds, PodSeen, PodTimesOut,
         ReadLogs, ReadFails, DeletePod, DeletePodSlips
<1>3. PodType'
  BY DEF PodType, PodStep, CreatePod, CreatePodFails, PodEnds, PodSeen, PodTimesOut, ReadLogs,
         ReadFails, DeletePod, DeletePodSlips
<1>4. run[r].res \in Results
  BY DEF RunType, Run
<1>5. RunType'
  <2>1. CASE \E st \in Stages : Go(r, st)
    BY <2>1, GoType DEF Results
  <2>2. CASE \E st \in Stages, res \in Results : To(r, st, res)
    BY <2>2, GoType
  <2>3. CASE Over(r, run[r].res, TRUE)
    BY <2>3, <1>4, GoType DEF Stages
  <2>4. CASE UNCHANGED run
    BY <2>4, Rest
  <2>5. \/ \E st \in Stages : Go(r, st)
        \/ \E st \in Stages, res \in Results : To(r, st, res)
        \/ Over(r, run[r].res, TRUE)
        \/ UNCHANGED run
    BY DEF PodStep, CreatePod, CreatePodFails, PodEnds, PodSeen, PodTimesOut, ReadLogs, ReadFails,
           DeletePod, DeletePodSlips, Stages, Results
  <2> QED  BY <2>1, <2>2, <2>3, <2>4, <2>5
<1> QED  BY <1>1, <1>2, <1>3, <1>5, Rest

LEMMA BoxStepType ==
  ASSUME Typed, NEW r \in Runs, BoxStep(r)
  PROVE  Typed'
<1> USE DEF Typed
<1>1. UNCHANGED pod /\ UNCHANGED named
  BY DEF BoxStep, GetApp, GetImage, Gets, Hears, CreateBox, CreateBoxFails, Exec, ExecFails, BoxExpires,
         Terminate, TerminateFails, modal
<1>2. FailureType'
  BY FailType, Rest DEF BoxStep, GetApp, GetImage, Gets, Hears, CreateBox, CreateBoxFails, Exec, ExecFails,
         BoxExpires, Terminate, TerminateFails
<1>3. BoxType'
  BY DEF BoxType, BoxStep, GetApp, GetImage, Gets, Hears, CreateBox, CreateBoxFails, Exec, ExecFails,
         BoxExpires, Terminate, TerminateFails
<1>4. ModalType' /\ OneAtATime'
  <2>1. CASE GetApp(r)
    BY <2>1 DEF GetApp, ModalType, OneAtATime, InProgress
  <2>2. CASE GetImage(r)
    BY <2>2 DEF GetImage, ModalType, OneAtATime, InProgress
  <2>3. CASE UNCHANGED modal
    BY <2>3, Rest
  <2> QED  BY <2>1, <2>2, <2>3 DEF BoxStep, Hears, CreateBox, CreateBoxFails, Exec, ExecFails,
                BoxExpires, Terminate, TerminateFails
<1>5. RunType'
  <2>1. CASE \E st \in Stages : Go(r, st)
    BY <2>1, GoType DEF Results
  <2>2. CASE \E st \in Stages, res \in Results : To(r, st, res)
    BY <2>2, GoType
  <2>3. CASE Over(r, "error", TRUE)
    BY <2>3, GoType DEF Stages, Results
  <2>4. CASE UNCHANGED run
    BY <2>4, Rest
  <2>5. \/ \E st \in Stages : Go(r, st)
        \/ \E st \in Stages, res \in Results : To(r, st, res)
        \/ Over(r, "error", TRUE)
        \/ UNCHANGED run
    BY DEF BoxStep, GetApp, GetImage, Gets, Hears, CreateBox, CreateBoxFails, Exec, ExecFails, BoxExpires,
           Terminate, TerminateFails, Stages, Results
  <2> QED  BY <2>1, <2>2, <2>3, <2>4, <2>5
<1> QED  BY <1>1, <1>2, <1>3, <1>4, <1>5, Rest

\* The promises that runs share, and the restart.
SharedStep ==
  AppResolves \/ AppFails \/ ImageNamed \/ ImageBuilt \/ ImagePublished \/ ImageFails \/ Restart

LEMMA SharedType ==
  ASSUME Typed, SharedStep
  PROVE  Typed'
<1> USE DEF Typed
<1>1. UNCHANGED pod /\ UNCHANGED box
  BY DEF SharedStep, AppResolves, AppFails, ImageNamed, ImageBuilt, ImagePublished, ImageFails, Restart
<1>2. FailureType'
  BY FailType, Rest
     DEF SharedStep, AppResolves, AppFails, ImageNamed, ImageBuilt, ImagePublished, ImageFails, Restart
<1>3. ModalType'
  BY DEF ModalType, InProgress, Resolved,
         SharedStep, AppResolves, AppFails, ImageNamed, ImageBuilt, ImagePublished, ImageFails, Restart
<1>4. OneAtATime'
  <2>1. CASE AppResolves \/ AppFails \/ ImageBuilt
    BY <2>1 DEF OneAtATime, InProgress, AppResolves, AppFails, ImageBuilt
  <2>2. CASE ImageNamed
    BY <2>2 DEF OneAtATime, InProgress, ImageNamed, Resolved
  <2>3. CASE ImagePublished
    BY <2>3 DEF OneAtATime, InProgress, ImagePublished, Resolved
  <2>4. CASE ImageFails
    <3>1. InProgress /\ image' = "none" /\ resolving' = resolving - 1
      BY <2>4 DEF ImageFails
    <3> QED  BY <3>1 DEF OneAtATime, InProgress
  <2>5. CASE Restart
    <3>1. image' = "none" /\ resolving' = 0
      BY <2>5 DEF Restart
    <3> QED  BY <3>1 DEF OneAtATime, InProgress
  <2> QED  BY <2>1, <2>2, <2>3, <2>4, <2>5 DEF SharedStep
<1>5. NamedType'
  <2>1. named' = named \/ named' = TRUE
    BY DEF SharedStep, AppResolves, AppFails, ImageNamed, ImageBuilt, ImagePublished, ImageFails, Restart
  <2> QED  BY <2>1, Zenon DEF NamedType
<1>6. RunType'
  <2>1. CASE Restart
    <3>1. ASSUME NEW r \in Runs PROVE [run[r] EXCEPT !.st = "dropped"] \in Run
      BY DEF RunType, Run, Stages
    <3> QED  BY <3>1, <2>1 DEF RunType, Restart
  <2>2. CASE UNCHANGED run
    BY <2>2, Rest
  <2>3. CASE \E st \in Stages : Reject(st)
    BY <2>3, RejectType
  <2> QED  BY <2>1, <2>2, <2>3
      DEF SharedStep, AppResolves, AppFails, ImageNamed, ImageBuilt, ImagePublished, ImageFails, Stages
<1> QED  BY <1>1, <1>2, <1>3, <1>4, <1>5, <1>6, Rest

\* Every step of a run is of one of the groups.
LEMMA Steps ==
  Next <=> \/ \E r \in Runs : Begin(r) \/ Again(r) \/ PodStep(r) \/ BoxStep(r)
           \/ SharedStep
BY DEF Next, PodStep, BoxStep, SharedStep

\* Every step keeps the types.
LEMMA NextType == Typed /\ [Next]_vars => Typed'
<1> SUFFICES ASSUME Typed, [Next]_vars PROVE Typed'
  OBVIOUS
<1>1. CASE UNCHANGED vars
  BY <1>1, Rest DEF Typed, vars, modal
<1>2. CASE Next
  BY <1>2, Steps, BeginType, PodStepType, BoxStepType, SharedType
<1> QED  BY <1>1, <1>2

\* Every variable keeps its type, an image is looked for only in an application that is
\* there, and one resolution of the image is in progress when the cache says so.
THEOREM CodeTypes == Spec => []TypeOK
<1>1. Spec => []Typed
  BY InitType, NextType, PTL DEF Spec
<1> QED  BY <1>1, Parted, PTL

-----------------------------------------------------------------------------
(* Nothing is left.                                                        *)

\* What a run may have at each of its stages: neither a pod nor a sandbox before it has
\* created one, never one of each, and none once it was answered.  The property is the
\* last clause; the others are what its steps need: terminate, say, only clears the
\* sandbox, so that the pod must have been cleared, or never have been.
Clean(r) ==
  /\ run[r].st \in {"new", "create", "app", "appwait", "imagewait", "rejected"} => pod[r] = "none" /\ box[r] = "none"
  /\ run[r].st \in {"wait", "logs", "delete"} => box[r] = "none"
  /\ run[r].st \in {"exec", "terminate"} => pod[r] = "none"
  /\ run[r].st = "over" /\ ~run[r].lost => pod[r] \in {"none", "gone"} /\ box[r] # "up"

AllClean == \A r \in Runs : Clean(r)

LEMMA CleanInit == Init => AllClean
BY DEF Init, AllClean, Clean, NewRun

\* A step of one run leaves the others what they are and have.
LEMMA Others ==
  ASSUME Typed, NEW r \in Runs, Begin(r) \/ Again(r) \/ PodStep(r) \/ BoxStep(r)
  PROVE  \A q \in Runs \ {r} : run'[q] = run[q] /\ pod'[q] = pod[q] /\ box'[q] = box[q]
<1> USE DEF Typed, RunType, PodType, BoxType
<1>1. CASE Begin(r) \/ Again(r)
  BY <1>1 DEF Begin, Again
<1>2. CASE PodStep(r)
  BY <1>2 DEF PodStep, CreatePod, CreatePodFails, PodEnds, PodSeen, PodTimesOut, ReadLogs, ReadFails,
       DeletePod, DeletePodSlips, Go, To, Over
<1>3. CASE BoxStep(r)
  BY <1>3 DEF BoxStep, GetApp, GetImage, Gets, Hears, CreateBox, CreateBoxFails, Exec, ExecFails, BoxExpires,
       Terminate, TerminateFails, Go, To, Over
<1> QED  BY <1>1, <1>2, <1>3

\* A step keeps its own run clean.
LEMMA OwnClean ==
  ASSUME Typed, NEW r \in Runs, Clean(r), Begin(r) \/ Again(r) \/ PodStep(r) \/ BoxStep(r)
  PROVE  Clean(r)'
<1> USE DEF Typed, RunType, PodType, BoxType, Run, At, Go, To, Over, Clean
<1>1. CASE Begin(r) \/ Again(r)
  BY <1>1 DEF Begin, Again, NewRun
<1>2. CASE CreatePod(r) \/ CreatePodFails(r) \/ PodEnds(r) \/ PodSeen(r) \/ PodTimesOut(r)
  BY <1>2 DEF CreatePod, CreatePodFails, PodEnds, PodSeen, PodTimesOut
<1>3. CASE ReadLogs(r) \/ ReadFails(r) \/ DeletePod(r) \/ DeletePodSlips(r)
  BY <1>3 DEF ReadLogs, ReadFails, DeletePod, DeletePodSlips
<1>4. CASE GetApp(r) \/ GetImage(r) \/ Hears(r) \/ CreateBox(r) \/ CreateBoxFails(r)
  BY <1>4 DEF GetApp, GetImage, Gets, Hears, CreateBox, CreateBoxFails
<1>5. CASE Exec(r) \/ ExecFails(r) \/ BoxExpires(r) \/ Terminate(r) \/ TerminateFails(r)
  BY <1>5 DEF Exec, ExecFails, BoxExpires, Terminate, TerminateFails
<1> QED  BY <1>1, <1>2, <1>3, <1>4, <1>5 DEF PodStep, BoxStep

\* What a step of the shared promises does to a run: nothing, a failure that rejects what
\* it waits for, or the restart that drops it.
LEMMA SharedShape ==
  ASSUME Typed, SharedStep, NEW r \in Runs
  PROVE  \/ run'[r] = run[r]
         \/ /\ run[r].st \in {"appwait", "imagewait"} /\ failures < failures'
            /\ run'[r] = [run[r] EXCEPT !.st = "rejected"]
         \/ run'[r] = [run[r] EXCEPT !.st = "dropped"]
<1>1. CASE Restart
  BY <1>1 DEF Restart
<1>2. CASE AppFails \/ ImageFails
  BY <1>2, FailType DEF AppFails, ImageFails, Reject, Waiting, Typed
<1> QED  BY <1>1, <1>2 DEF SharedStep, AppResolves, ImageNamed, ImageBuilt, ImagePublished

LEMMA SharedClean ==
  ASSUME Typed, AllClean, SharedStep
  PROVE  AllClean'
<1> SUFFICES ASSUME NEW r \in Runs PROVE Clean(r)'
  BY DEF AllClean
<1>1. Clean(r) /\ run[r] \in Run
  BY DEF AllClean, Typed, RunType
<1>2. UNCHANGED <<pod, box>>
  BY DEF SharedStep, AppResolves, AppFails, ImageNamed, ImageBuilt, ImagePublished, ImageFails, Restart
<1>3. CASE run'[r] = run[r]
  BY <1>1, <1>2, <1>3 DEF Clean
<1>4. CASE /\ run[r].st \in {"appwait", "imagewait"}
           /\ run'[r] = [run[r] EXCEPT !.st = "rejected"]
  BY <1>1, <1>2, <1>4 DEF Clean, Run
<1>5. CASE run'[r] = [run[r] EXCEPT !.st = "dropped"]
  BY <1>1, <1>2, <1>5 DEF Clean, Run
<1> QED  BY <1>3, <1>4, <1>5, SharedShape

LEMMA CleanNext == Typed /\ AllClean /\ [Next]_vars => AllClean'
<1> SUFFICES ASSUME Typed, AllClean, [Next]_vars PROVE AllClean'
  OBVIOUS
<1>1. CASE UNCHANGED vars
  BY <1>1 DEF vars, AllClean, Clean
<1>2. CASE \E r \in Runs : Begin(r) \/ Again(r) \/ PodStep(r) \/ BoxStep(r)
  <2>1. PICK r \in Runs : Begin(r) \/ Again(r) \/ PodStep(r) \/ BoxStep(r)
    BY <1>2
  <2>2. Clean(r)'
    BY <2>1, OwnClean DEF AllClean
  <2>3. ASSUME NEW q \in Runs \ {r} PROVE Clean(q)'
    <3>1. run'[q] = run[q] /\ pod'[q] = pod[q] /\ box'[q] = box[q]
      BY <2>1, Others
    <3> QED  BY <3>1 DEF AllClean, Clean
  <2> QED  BY <2>2, <2>3 DEF AllClean
<1>3. CASE SharedStep
  BY <1>3, SharedClean
<1> QED  BY <1>1, <1>2, <1>3, Steps

\* "SIEMPRE lo destruye": a run that was answered has left neither a pod nor a sandbox,
\* whatever failed on its way, but for the call that cleans up and the one whose answer
\* names the sandbox.
THEOREM CodeNothingLeft == Spec => []NothingLeft
<1>1. AllClean => NothingLeft
  BY DEF AllClean, Clean, NothingLeft
<1>2. Typed /\ AllClean /\ [Next]_vars => (Typed /\ AllClean)'
  BY NextType, CleanNext
<1>3. Init => Typed /\ AllClean
  BY InitType, CleanInit
<1> QED  BY <1>1, <1>2, <1>3, PTL DEF Spec

-----------------------------------------------------------------------------
(* The cache.                                                              *)

\* A run has seen no failure that is yet to come, and an error it ends with came after
\* it began, as did the rejection of the promise it holds; one that waits, waits for a
\* promise that is kept.
Told(r) ==
  /\ run[r].seen <= failures
  /\ run[r].st \in {"delete", "terminate", "over"} /\ run[r].res = "error" => run[r].seen < failures
  /\ run[r].st = "rejected" => run[r].seen < failures
  /\ run[r].st = "appwait" => app # "none"
  /\ run[r].st = "imagewait" => image # "none"

AllTold == \A r \in Runs : Told(r)

LEMMA ToldInit == Init => AllTold
BY DEF Init, AllTold, Told, NewRun

\* Failures are only ever added.
LEMMA FailuresGrow ==
  ASSUME Typed, Next
  PROVE  failures \in Nat /\ failures' \in Nat /\ failures <= failures'
<1>1. failures' = failures \/ Fails
  BY DEF Next, Begin, Again, CreatePod, CreatePodFails, PodEnds, PodSeen, PodTimesOut, ReadLogs,
         ReadFails, DeletePod, DeletePodSlips, GetApp, GetImage, Gets, Hears, CreateBox, CreateBoxFails, Exec,
         ExecFails, BoxExpires, Terminate, TerminateFails, AppResolves, AppFails, ImageNamed,
         ImageBuilt, ImagePublished, ImageFails, Restart
<1> QED  BY <1>1, ConstantsAssumption DEF Fails, Typed, FailureType

\* No step of a run takes a promise away.
LEMMA PromisesStay ==
  ASSUME Typed, NEW r \in Runs, Begin(r) \/ Again(r) \/ PodStep(r) \/ BoxStep(r)
  PROVE  (app # "none" => app' # "none") /\ (image # "none" => image' # "none")
BY DEF PodStep, BoxStep, Begin, Again, CreatePod, CreatePodFails, PodEnds, PodSeen, PodTimesOut,
       ReadLogs, ReadFails, DeletePod, DeletePodSlips, GetApp, GetImage, Hears, CreateBox,
       CreateBoxFails, Exec, ExecFails, BoxExpires, Terminate, TerminateFails, modal

\* A step keeps its own run told right.
LEMMA OwnTold ==
  ASSUME Typed, NEW r \in Runs, Told(r), Begin(r) \/ Again(r) \/ PodStep(r) \/ BoxStep(r)
  PROVE  Told(r)'
<1> USE DEF At, Go, To, Over, Told
<1>0. run[r] \in Run /\ run \in [Runs -> Run] /\ failures \in Nat
  BY DEF Typed, RunType, FailureType
<1>1. CASE Begin(r)
  <2>1. PICK st \in {"create", "app"} : run'[r] = [NewRun EXCEPT !.st = st, !.seen = failures]
    BY <1>0, <1>1 DEF Begin
  <2>2. run'[r].seen = failures /\ run'[r].res = "none" /\ run'[r].st \in {"create", "app"}
    BY <2>1 DEF NewRun
  <2>3. failures' = failures
    BY <1>1 DEF Begin
  <2> QED  BY <1>0, <2>2, <2>3
<1>7. CASE Again(r)
  <2>1. run'[r] = NewRun /\ failures' = failures
    BY <1>0, <1>7 DEF Again
  <2> QED  BY <1>0, <2>1 DEF NewRun
<1>2. CASE CreatePod(r) \/ PodEnds(r) \/ PodSeen(r) \/ PodTimesOut(r) \/ ReadLogs(r) \/ DeletePod(r)
  BY <1>0, <1>2 DEF Run, CreatePod, PodEnds, PodSeen, PodTimesOut, ReadLogs, DeletePod, modal
<1>3. CASE CreatePodFails(r) \/ ReadFails(r) \/ DeletePodSlips(r)
  <2>1. failures' = failures + 1
    BY <1>3 DEF CreatePodFails, ReadFails, DeletePodSlips, Fails
  <2>2. run'[r].seen = run[r].seen /\ run'[r].st \in {"delete", "over"}
    BY <1>0, <1>3 DEF Run, CreatePodFails, ReadFails, DeletePodSlips
  <2> QED  BY <1>0, <2>1, <2>2 DEF Run
<1>4. CASE Hears(r) \/ Exec(r) \/ BoxExpires(r) \/ Terminate(r) \/ CreateBox(r)
  BY <1>0, <1>4 DEF Run, Hears, Exec, BoxExpires, Terminate, CreateBox, modal
<1>8. CASE GetApp(r)
  <2>1. run'[r] = [run[r] EXCEPT !.st = "appwait"] /\ failures' = failures
    BY <1>0, <1>8 DEF GetApp, Gets, Typed, ModalType
  <2>2. app' # "none"
    BY <1>8 DEF GetApp
  <2> QED  BY <1>0, <2>1, <2>2 DEF Run
<1>5. CASE GetImage(r)
  <2>1. run'[r] = [run[r] EXCEPT !.st = "imagewait"] /\ failures' = failures
    BY <1>0, <1>5 DEF GetImage, Gets, Typed, ModalType
  <2>2. image' # "none"
    BY <1>5 DEF GetImage
  <2> QED  BY <1>0, <2>1, <2>2 DEF Run
<1>6. CASE CreateBoxFails(r) \/ ExecFails(r) \/ TerminateFails(r)
  <2>1. failures' = failures + 1
    BY <1>6 DEF CreateBoxFails, ExecFails, TerminateFails, Fails
  <2>2. run'[r].seen = run[r].seen /\ run'[r].st \in {"terminate", "over"}
    BY <1>0, <1>6 DEF Run, CreateBoxFails, ExecFails, TerminateFails
  <2> QED  BY <1>0, <2>1, <2>2 DEF Run
<1> QED  BY <1>1, <1>2, <1>3, <1>4, <1>5, <1>6, <1>7, <1>8 DEF PodStep, BoxStep

\* Nobody waits for a resolution that has failed.
LEMMA SharedTold ==
  ASSUME Typed, AllTold, SharedStep
  PROVE  AllTold'
<1> SUFFICES ASSUME NEW r \in Runs PROVE Told(r)'
  BY DEF AllTold
<1>1. Told(r) /\ run[r] \in Run
  BY DEF AllTold, Typed, RunType
<1>2. failures \in Nat /\ failures' \in Nat /\ failures <= failures'
  BY FailuresGrow, Steps
<1>3. CASE run'[r] = run[r]
  <2>1. ASSUME run[r].st = "appwait" PROVE app' # "none"
    <3>1. ~AppFails /\ ~Restart
      BY <1>1, <1>3, <2>1 DEF AppFails, Restart, Reject, Waiting, Run
    <3>2. CASE AppResolves
      BY <3>2 DEF AppResolves
    <3>3. CASE UNCHANGED app
      BY <1>1, <2>1, <3>3 DEF Told
    <3> QED  BY <3>1, <3>2, <3>3 DEF SharedStep, ImageNamed, ImageBuilt, ImagePublished, ImageFails
  <2>2. ASSUME run[r].st = "imagewait" PROVE image' # "none"
    <3>1. ~ImageFails /\ ~Restart
      BY <1>1, <1>3, <2>2 DEF ImageFails, Restart, Reject, Waiting, Run
    <3>2. CASE AppResolves \/ AppFails
      BY <1>1, <2>2, <3>2 DEF Told, AppResolves, AppFails
    <3>3. CASE ImageNamed \/ ImageBuilt \/ ImagePublished
      BY <3>3 DEF ImageNamed, ImageBuilt, ImagePublished, Resolved
    <3> QED  BY <3>1, <3>2, <3>3 DEF SharedStep
  <2> QED  BY <1>1, <1>2, <1>3, <2>1, <2>2 DEF Told, Run
<1>4. CASE /\ failures < failures'
           /\ run'[r] = [run[r] EXCEPT !.st = "rejected"]
  <2>1. run'[r].seen = run[r].seen /\ run'[r].st = "rejected"
    BY <1>1, <1>4 DEF Run
  <2> QED  BY <1>1, <1>2, <1>4, <2>1 DEF Told, Run
<1>5. CASE run'[r] = [run[r] EXCEPT !.st = "dropped"]
  <2>1. run'[r].seen = run[r].seen /\ run'[r].st = "dropped"
    BY <1>1, <1>5 DEF Run
  <2> QED  BY <1>1, <1>2, <2>1 DEF Told, Run
<1> QED  BY <1>3, <1>4, <1>5, SharedShape

LEMMA ToldNext == Typed /\ AllTold /\ [Next]_vars => AllTold'
<1> SUFFICES ASSUME Typed, AllTold, [Next]_vars PROVE AllTold'
  OBVIOUS
<1>1. CASE UNCHANGED vars
  BY <1>1 DEF vars, modal, AllTold, Told
<1>2. CASE \E r \in Runs : Begin(r) \/ Again(r) \/ PodStep(r) \/ BoxStep(r)
  <2>1. PICK r \in Runs : Begin(r) \/ Again(r) \/ PodStep(r) \/ BoxStep(r)
    BY <1>2
  <2>2. Told(r)'
    BY <2>1, OwnTold DEF AllTold
  <2>3. ASSUME NEW q \in Runs \ {r} PROVE Told(q)'
    <3>1. run'[q] = run[q]
      BY <2>1, Others
    <3>2. failures \in Nat /\ failures' \in Nat /\ failures <= failures'
      BY <2>1, FailuresGrow, Steps
    <3>3. Told(q) /\ run[q] \in Run
      BY DEF AllTold, Typed, RunType
    <3>4. (app # "none" => app' # "none") /\ (image # "none" => image' # "none")
      BY <2>1, PromisesStay
    <3> QED  BY <3>1, <3>2, <3>3, <3>4 DEF Told, Run
  <2> QED  BY <2>2, <2>3 DEF AllTold
<1>3. CASE SharedStep
  BY <1>3, SharedTold
<1> QED  BY <1>1, <1>2, <1>3, Steps

\* A run holds no rejected promise and is told of no error that failed before it began, the
\* image is resolved once at a time, and whoever waits, waits for a promise that is still
\* to be settled or has its value.
THEOREM CodeCacheSound == Spec => []CacheSound
<1>1. Typed /\ AllTold => CacheSound
  <2> SUFFICES ASSUME Typed, AllTold PROVE CacheSound
    OBVIOUS
  <2>1. resolving <= 1
    BY DEF Typed, OneAtATime
  <2>2. /\ Waiting("appwait") # {} => app \in {"pending", "ready"}
        /\ Waiting("imagewait") # {} => InProgress \/ image = "ready"
    BY DEF Typed, ModalType, AllTold, Told, Waiting, InProgress
  <2> QED  BY <2>1, <2>2 DEF AllTold, Told, CacheSound
<1>2. Typed /\ AllTold /\ [Next]_vars => (Typed /\ AllTold)'
  BY NextType, ToldNext
<1>3. Init => Typed /\ AllTold
  BY InitType, ToldInit
<1> QED  BY <1>1, <1>2, <1>3, PTL DEF Spec
=============================================================================
