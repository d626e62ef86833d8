------------------------------- MODULE CodeRun -------------------------------
(***************************************************************************)
(* POST /execute: PodLifecycleService.run, which takes TypeScript to a pod  *)
(* of its own and Python to a sandbox of Modal (ModalService.runRemote).    *)
(* Runs share two promises that ModalService keeps, the application and     *)
(* the image; everything else is of one run.  A step is what runs between   *)
(* two awaits.  Any call may fail, before or after it took effect, and the  *)
(* Executor may restart.                                                    *)
(***************************************************************************)
EXTENDS Integers, FiniteSets

CONSTANTS
  Runs,
  MaxFailures   \* bound: calls that fail, and restarts

ASSUME ConstantsAssumption == MaxFailures \in Nat

VARIABLES
  run,        \* run -> its stage and its result
  pod,        \* run -> its pod
  box,        \* run -> its sandbox
  app,        \* appPromise: none, pending, ready, or rejected and kept
  image,      \* imagePromise, the same, and how far the resolution has come
  named,      \* Modal has an image of that name
  resolving,  \* resolutions of the image in progress (history)
  failures    \* calls that have failed (history)

vars   == <<run, pod, box, app, image, named, resolving, failures>>
modal  == <<app, image, named, resolving>>

\* seen: the failures before it came; lost: a call that was to clean up, or whose answer
\* named what there is to clean up, failed.
NewRun == [st |-> "new", res |-> "none", seen |-> 0, lost |-> FALSE]

Init ==
  /\ run = [r \in Runs |-> NewRun]
  /\ pod = [r \in Runs |-> "none"] /\ box = [r \in Runs |-> "none"]
  /\ app = "none" /\ image = "none" /\ named \in BOOLEAN
  /\ resolving = 0 /\ failures = 0

-----------------------------------------------------------------------------

At(r, st)    == run[r].st = st
Go(r, st)    == run' = [run EXCEPT ![r].st = st]
To(r, st, res) == run' = [run EXCEPT ![r].st = st, ![r].res = res]
Over(r, res, lost) == run' = [run EXCEPT ![r].st = "over", ![r].res = res, ![r].lost = lost]

Fails == failures < MaxFailures /\ failures' = failures + 1

\* The language decides where it runs.
Begin(r) ==
  /\ At(r, "new")
  /\ \E st \in {"create", "app"} :
       run' = [run EXCEPT ![r] = [NewRun EXCEPT !.st = st, !.seen = failures]]
  /\ UNCHANGED <<pod, box, modal, failures>>

\* Another run, with an id of its own.
Again(r) ==
  /\ run[r].st \in {"over", "dropped"}
  /\ run' = [run EXCEPT ![r] = NewRun]
  /\ pod' = [pod EXCEPT ![r] = "none"] /\ box' = [box EXCEPT ![r] = "none"]
  /\ UNCHANGED <<modal, failures>>

-----------------------------------------------------------------------------
(* run, in a pod.                                                          *)

CreatePod(r) ==
  /\ At(r, "create")
  /\ pod' = [pod EXCEPT ![r] = "running"]
  /\ Go(r, "wait")
  /\ UNCHANGED <<box, modal, failures>>

\* Mutant: the pod is created outside of the try.
CreatePodOutside(r) ==
  /\ At(r, "create") /\ Fails
  /\ pod' \in {pod, [pod EXCEPT ![r] = "running"]}
  /\ To(r, "over", "error")
  /\ UNCHANGED <<box, modal>>

\* createPod throws, and the pod may be there all the same.
CreatePodFails(r) ==
  /\ At(r, "create") /\ Fails
  /\ pod' \in {pod, [pod EXCEPT ![r] = "running"]}
  /\ To(r, "delete", "error")
  /\ UNCHANGED <<box, modal>>

\* The code ends, or activeDeadlineSeconds ends it.
PodEnds(r) ==
  /\ pod[r] = "running"
  /\ pod' = [pod EXCEPT ![r] = "ended"]
  /\ UNCHANGED <<run, box, modal, failures>>

\* waitForPod reads a phase that is final, or its deadline has passed.
PodSeen(r) ==
  /\ At(r, "wait") /\ pod[r] = "ended"
  /\ Go(r, "logs")
  /\ UNCHANGED <<pod, box, modal, failures>>

PodTimesOut(r) ==
  /\ At(r, "wait")
  /\ To(r, "delete", "timeout")
  /\ UNCHANGED <<pod, box, modal, failures>>

ReadLogs(r) ==
  /\ At(r, "logs")
  /\ To(r, "delete", "ok")
  /\ UNCHANGED <<pod, box, modal, failures>>

\* readPod or getPodLogs throws.
ReadFails(r) ==
  /\ run[r].st \in {"wait", "logs"} /\ Fails
  /\ To(r, "delete", "error")
  /\ UNCHANGED <<pod, box, modal>>

\* The finally.
DeletePod(r) ==
  /\ At(r, "delete")
  /\ pod' = [pod EXCEPT ![r] = IF @ = "none" THEN @ ELSE "gone"]
  /\ Go(r, "over")
  /\ UNCHANGED <<box, modal, failures>>

\* deletePod swallows what its call throws: the answer is the same.
DeletePodSlips(r) ==
  /\ At(r, "delete") /\ Fails
  /\ Over(r, run[r].res, TRUE)
  /\ UNCHANGED <<pod, box, modal>>

-----------------------------------------------------------------------------
(* runRemote: the application and the image.                               *)

Waiting(st) == {r \in Runs : run[r].st = st}

\* Who waits for a promise that is rejected holds a rejected promise.
Reject(st) == run' = [r \in Runs |-> IF r \in Waiting(st) THEN [run[r] EXCEPT !.st = "rejected"]
                                    ELSE run[r]]

\* await throws what the promise was rejected with: the answer is an error.
Hears(r) ==
  /\ At(r, "rejected")
  /\ To(r, "over", "error")
  /\ UNCHANGED <<pod, box, modal, failures>>

\* A run asks for a cached promise, and gets it whatever has become of it.
Gets(r, promise, st) == Go(r, IF promise = "rejected" THEN "rejected" ELSE st)

\* Mutant: the image is asked for at once, in an application yet to come.
GetAppAndImage(r) ==
  /\ At(r, "app")
  /\ app' = IF app = "none" THEN "pending" ELSE app
  /\ image' = IF image = "none" THEN "naming" ELSE image
  /\ resolving' = resolving + (IF image = "none" THEN 1 ELSE 0)
  /\ Go(r, "appwait")
  /\ UNCHANGED <<pod, box, named, failures>>

GetApp(r) ==
  /\ At(r, "app")
  /\ app' = IF app = "none" THEN "pending" ELSE app
  /\ Gets(r, app, "appwait")
  /\ UNCHANGED <<pod, box, image, named, resolving, failures>>

AppResolves ==
  /\ app = "pending" /\ app' = "ready"
  /\ UNCHANGED <<run, pod, box, image, named, resolving, failures>>

\* Mutant: the cache keeps the promise that was rejected.
AppFailsKept ==
  /\ app = "pending" /\ app' = "rejected"
  /\ Fails /\ Reject("appwait")
  /\ UNCHANGED <<pod, box, image, named, resolving>>

\* The catch clears the cache, and then the promise of those who wait is rejected.
AppFails ==
  /\ app = "pending" /\ app' = "none"
  /\ Fails /\ Reject("appwait")
  /\ UNCHANGED <<pod, box, image, named, resolving>>

\* The image is asked for, unless it has been.
GetImage(r) ==
  /\ At(r, "appwait") /\ app = "ready"
  /\ image' = IF image = "none" THEN "naming" ELSE image
  /\ resolving' = resolving + (IF image = "none" THEN 1 ELSE 0)
  /\ Gets(r, image, "imagewait")
  /\ UNCHANGED <<pod, box, app, named, failures>>

Resolved == image' = "ready" /\ resolving' = resolving - 1

\* fromName: the image there is, or NotFoundError and it is built.
ImageNamed ==
  /\ image = "naming"
  /\ IF named THEN Resolved ELSE image' = "building" /\ UNCHANGED resolving
  /\ UNCHANGED <<run, pod, box, app, named, failures>>

ImageBuilt ==
  /\ image = "building" /\ image' = "publishing"
  /\ UNCHANGED <<run, pod, box, app, named, resolving, failures>>

ImagePublished ==
  /\ image = "publishing" /\ Resolved
  /\ named' = TRUE
  /\ UNCHANGED <<run, pod, box, app, failures>>

InProgress == image \in {"naming", "building", "publishing"}

\* Any of the calls throws, and the catch clears the cache; the publication may have taken
\* effect.
ImageFails ==
  /\ InProgress /\ image' = "none" /\ resolving' = resolving - 1
  /\ named' \in IF image = "publishing" THEN {named, TRUE} ELSE {named}
  /\ Fails /\ Reject("imagewait")
  /\ UNCHANGED <<pod, box, app>>

-----------------------------------------------------------------------------
(* runRemote: the sandbox.                                                 *)

CreateBox(r) ==
  /\ At(r, "imagewait") /\ image = "ready"
  /\ box' = [box EXCEPT ![r] = "up"]
  /\ Go(r, "exec")
  /\ UNCHANGED <<pod, modal, failures>>

\* It throws: a sandbox that is there all the same has no handle to be terminated by.
CreateBoxFails(r) ==
  /\ At(r, "imagewait") /\ image = "ready" /\ Fails
  /\ box' \in {box, [box EXCEPT ![r] = "up"]}
  /\ Over(r, "error", TRUE)
  /\ UNCHANGED <<pod, modal>>

Exec(r) ==
  /\ At(r, "exec")
  /\ To(r, "terminate", "ok")
  /\ UNCHANGED <<pod, box, modal, failures>>

ExecFails(r) ==
  /\ At(r, "exec") /\ Fails
  /\ To(r, "terminate", "error")
  /\ UNCHANGED <<pod, box, modal>>

\* timeoutMs.
BoxExpires(r) ==
  /\ box[r] = "up"
  /\ box' = [box EXCEPT ![r] = "gone"]
  /\ UNCHANGED <<run, pod, modal, failures>>

Terminate(r) ==
  /\ At(r, "terminate")
  /\ box' = [box EXCEPT ![r] = "gone"]
  /\ Go(r, "over")
  /\ UNCHANGED <<pod, modal, failures>>

\* What terminate throws takes the place of the result.
TerminateFails(r) ==
  /\ At(r, "terminate") /\ Fails
  /\ Over(r, "error", TRUE)
  /\ UNCHANGED <<pod, box, modal>>

-----------------------------------------------------------------------------

\* The Executor restarts: its runs are dropped, and what they had stays.
Restart ==
  /\ Fails
  /\ run' = [r \in Runs |-> IF run[r].st \in {"new", "over"} THEN run[r]
                            ELSE [run[r] EXCEPT !.st = "dropped"]]
  /\ app' = "none" /\ image' = "none" /\ resolving' = 0
  /\ UNCHANGED <<pod, box, named>>

Next ==
  \/ \E r \in Runs :
       \/ Begin(r) \/ Again(r)
       \/ CreatePod(r) \/ CreatePodFails(r) \/ PodEnds(r) \/ PodSeen(r) \/ PodTimesOut(r)
       \/ ReadLogs(r) \/ ReadFails(r) \/ DeletePod(r) \/ DeletePodSlips(r)
       \/ GetApp(r) \/ GetImage(r) \/ Hears(r) \/ CreateBox(r) \/ CreateBoxFails(r)
       \/ Exec(r) \/ ExecFails(r) \/ BoxExpires(r) \/ Terminate(r) \/ TerminateFails(r)
  \/ AppResolves \/ AppFails \/ ImageNamed \/ ImageBuilt \/ ImagePublished \/ ImageFails
  \/ Restart

Spec == Init /\ [][Next]_vars

-----------------------------------------------------------------------------
(* Properties.                                                             *)

Stages == {"new", "create", "wait", "logs", "delete", "app", "appwait", "imagewait", "rejected",
           "exec", "terminate", "over", "dropped"}

\* Every variable has its type, and an image is only looked for or built in an
\* application that has been resolved.
TypeOK ==
  /\ run \in [Runs -> [st : Stages, res : {"none", "ok", "error", "timeout"},
                       seen : 0 .. MaxFailures, lost : BOOLEAN]]
  /\ pod \in [Runs -> {"none", "running", "ended", "gone"}]
  /\ box \in [Runs -> {"none", "up", "gone"}]
  /\ app \in {"none", "pending", "ready", "rejected"}
  /\ image \in {"none", "naming", "building", "publishing", "ready", "rejected"}
  /\ named \in BOOLEAN /\ resolving \in Nat /\ failures \in 0 .. MaxFailures
  /\ image # "none" => app = "ready"

\* "SIEMPRE lo destruye (exito, fallo, o timeout)": a run that was answered left neither a
\* pod nor a sandbox, on whatever path it went and whichever call failed, unless it was
\* the call that cleans up or the one that creates the sandbox.
NothingLeft ==
  \A r \in Runs : run[r].st = "over" /\ ~run[r].lost => pod[r] \in {"none", "gone"} /\ box[r] # "up"

\* "si la resolucion falla, se limpia el cache para permitir reintento en la siguiente
\* llamada": a run that holds a rejected promise, or is answered with an error, met a
\* failure that happened while it ran, never one kept from before; the cache keeps runs
\* from resolving the image, which may be to build it, twice at the same time; and
\* whoever waits, waits for a promise that is still to be settled or has its value.
CacheSound ==
  /\ \A r \in Runs :
       (run[r].st = "rejected" \/ (run[r].st = "over" /\ run[r].res = "error"))
         => run[r].seen < failures
  /\ resolving <= 1
  /\ Waiting("appwait") # {} => app \in {"pending", "ready"}
  /\ Waiting("imagewait") # {} => InProgress \/ image = "ready"
=============================================================================
