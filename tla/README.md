# Jin_Executor in TLA+

Jin_Executor is the process that runs things for Jin_Core: it starts and stops pods in
a Kubernetes namespace, runs commands in them and streams what they print, publishes
demos, and keeps demos on GitHub. It has no database. What outlives a request is in
Kubernetes; a few maps in memory are lost at every restart. Every operation is a
sequence of `await`s on API calls that may fail, and any number of requests, a cron
sweep, websocket callbacks and timers interleave at those awaits. That is what these
modules model: **one step is what runs between two awaits** (or one callback).

Paths below are relative to `src/` of the repository, line numbers are of this commit.
`PROJECT.json` maps every definition to the lines it stands for.

## 1. Inventory

| Component (source) | State it keeps | Operations | Model |
|---|---|---|---|
| terminal workspaces (`terminal/terminal.service.ts`) | per project: PVC, pod, egress policy, publication (Service, policy, route) in Kubernetes; `busy`, `lastTouch` in memory | `start`, `stopPod`, `deleteWorkspace`, `exec`, `expose`, transfers, `fs*`, services, `list` | `TerminalWorkspace` |
| terminal reaper (`terminal/terminal-reaper.service.ts`) | none; one listing per sweep | `reapExpired` | `TerminalWorkspace` |
| interactive terminals (`terminal/terminal-pty.service.ts`) | `sessions`, `byWorkspace`, listener, backlog and timers of each session, all in memory | `open`, `subscribe`, `write`, `resize`, `close`, shutdown, idle and linger timers | `TerminalPty` |
| streamed commands (`terminal.service.ts` `exec`, `k8s.service.ts` `execInPod`, `terminal.controller.ts`) | `busy`; per call: bytes sent, flags, handle, watchdog | output, exit status, abort, close | `TerminalExec` |
| preview services (`preview-service/preview-service.service.ts`) | pod, Service, route, two policies, Secret per service, expiry in an annotation; nothing in memory | `start`, `extend`, `stop`, `list`, `exportFiles` | `PreviewService` |
| preview reaper (`preview-service/preview-service-reaper.service.ts`) | none; one listing per sweep | `reapExpired` | `PreviewService` |
| Kubernetes gateway (`k8s/k8s.service.ts`) | none | creates that throw, deletes that never do, `deletePvcOrThrow`, waits, `execInPod`, `openPty` | as steps of its callers |
| run-to-completion pods (`pod-lifecycle/`), `execute` endpoint | the pod of one run | `run` | `CodeRun` |
| Modal client (`modal/`) | `appPromise`, `imagePromise` in memory; an image and sandboxes at Modal | `runRemote` | `CodeRun` |
| GitHub demos (`github/`) | token cache in memory; a clone per save; the branch at GitHub | `save`, `list` | `GithubDemos` |
| in-pod scripts (`terminal/terminal-scripts.ts`) | files on the disk; pid files and process groups in the pod | write, mkdir, delete, import; start and stop of a server; a command | `PodScripts` |
| RBAC, manifests, config, controllers, filters | none, or read once at the start | lookups, pure builders, validation | not modelled |

**Interactions.** Controllers call the services; the services call the Kubernetes
gateway; the two reapers call the services' own `list` and `stop`. Components share
state only through the cluster (objects found *by name* or *by label*) and through the
maps in memory. Two interactions cross a component: `stopPod` clears the `busy` mark
that `exec` set, and kills the pod under commands and interactive terminals, which learn
of it only when their socket breaks. `TerminalExec` has both sides of the first,
`TerminalWorkspace` and `TerminalPty` one each of the second. What a file operation, a server
or a command does once it is inside the pod is `PodScripts`: to the Executor it is one call, to
the pod it is a process among others.

**What is hard here**, and where (the whole list, with lines, is `hazards` in
`PROJECT.json`):

* counts and checks made several awaits before what they allow (limits, `isNewWorkspace`,
  the expiry that `extend` reads, the pod that `expose` looked at);
* clean-up by name, which finds what somebody else made;
* deletes that swallow their errors, and whose only retry is a later sweep;
* a restart between any two steps;
* callbacks in any order: output before the handle to abort with exists, an end that is
  reported twice or late, a client that leaves before anybody listens for it;
* marks and reservations that must be released on every path, once, and by their owner;
* programs inside the pod that look at a file, a pid file or a process and act on what they
  saw, with nothing to keep two of them apart;
* a token, a promise or a clone that is used some calls after it was obtained.

**What makes each component correct.**

* *Terminal workspaces*: a disk is never destroyed except by its owner's request or by
  the failed start that created it; a failed start leaves nothing; success of a deletion
  is real; limits hold; everything expired or dead goes in the end; `busy` excludes a
  second command and is never left behind.
* *Interactive terminals*: one session per project; the reservation is exact; what Core
  reads is what the shell wrote, in order, once; who waits will be told.
* *Streamed commands*: one final event; output that was cut is announced; the cap; an
  answer in the end.
* *Preview services*: the limit and the cap on a life; all objects or none; Secrets tied
  to their pod; what has expired goes; an extension that was granted stands.
* *Runs of code*: no run leaves a pod or a sandbox, whichever call fails; a failure is
  told once and not kept; the image is built once.
* *GitHub demos*: what was saved stays in the history of the branch; a repeated save adds
  nothing; a token outlives its use.
* *In-pod scripts*: a write replaces only what its client had read; no torn or temporary file
  is left; a server can be found and stopped, whole; a command takes its children with it.

## 2. Modules

`MC*` modules only add symmetry; every `.cfg` instantiates one of them.

### TerminalWorkspace

| Model | Code |
|---|---|
| `disk`, `pod`, `extra` | PVC (`bound`, `terminating`), pod (phase, deletionTimestamp, expired, idle), the other objects under the project's name |
| `busy`, `touched` | `busy`, `lastTouch` (`terminal.service.ts:160-163`) |
| `job[h]` | where a handler is: a request, or the reaper's sweep |
| `by` of a disk or pod | history: which start created it |
| `ReadDisk` .. `Seed`, `CreateNext` | `start`, one step per await |
| `DeleteNext` | `stopPod`, the undo of `expose`, the rollback of `start`: one delete per step, each may be lost (`Slips`) |
| `Erase`, `Verify`, `Retry` | `deletePvcOrThrow` |
| `Require`, `Touch`, `Work`, `Listed` | `exec`, `expose` and the other uses of a running pod |
| `Sweep`, `ReapNext`, `ReapEnd` | `reapExpired` |
| `PodStarts` .. `GoIdle`, `Crash` | kubelet, PVC protection, clock, restart |

Names are unique in Kubernetes: a create of what exists is refused (409), and that sends
`start` into its catch, where it deletes *by name*. A call may go wrong in each way that
the code distinguishes: it throws without effect, it throws although it took effect (a
create, a delete of a disk), it is accepted and does nothing (a delete of a disk, which is what
`deletePvcOrThrow` reads back for: `k8s.service.ts:512-518`), or its failure is swallowed
(`Slips`). The first three share the bound `MaxErrors`.

### TerminalPty and ExclusiveSessions

`TerminalPty` has the two maps, each session's stage (`opening`, `connected`, `live`,
`ended`, `gone`, `failed`), listener, backlog and the idle flag, and each subscriber.
`Settle`, `Close`, `Shutdown`, `CheckIdle` and `SubscribeSlow` all go through `Finish`, as in
the code, where `finish` acts only on the first call. `seen`, `out`, `cut` are history: what
the shell wrote, what was handed over, whether something was given up.

`ExclusiveSessions` is the promise in three actions: a session takes a workspace nobody
has, and gives it back once and for all. `TerminalPty` implements it under
`owns <- Owns, spent <- Spent` (`KeepsPromise`).

### TerminalExec

One workspace (commands of different ones share nothing). `req[r]` has the stage of
`exec`, its socket (`conn`), what `exitCode` settled to, bytes counted and given, the
events of the stream. `held` is what the `StringDecoder` of each stream keeps of a character that
is not complete (at most three bytes, from any chunk: `Withheld`); a chunk that completes nothing is
not emitted, and nobody calls `end()` on the decoders. `up` says if the workspace has a pod that
`requireRunningPod` accepts; `Connect` does not look at it, as the exec is asked for
by name several awaits later, so that a command may also be connected to a later pod, or to
one that is being deleted. `stop` is a `stopPod` between its delete and its `busy.delete`.

### PreviewService

`pod`, `objs`, `bound` are the cluster; `now` the clock against which the expiry annotation
is read. A service is named after the request that starts it (`randomUUID`); `Older` is one
that an earlier run of the process left running. `CreateNext` / `CreateFails` are the try
block of `start` (a call that throws may have taken effect), `GiveUp` its catch, which is
`stop`; `Read` / `Patch` are `extend`, whose patch may also throw after it took effect (`CallFails`); `DeleteNext` is `stop` for requests, rollbacks and the
sweep; `Collect` is the garbage collector, which takes an owned Secret after its pod.
`Parts` chooses which objects are told apart: the ones left out are created and deleted
one after another exactly like those that stay.

### PodScripts

| Model | Code (`terminal/terminal-scripts.ts`) |
|---|---|
| `file`, `temp` | one path of the disk, named by who wrote it (`Torn`: in part), and the `.jin-tmp-*` beside it |
| `meta`, `group`, `port` | the pid file of one port, the process group of each start or command (leader and others), who listens |
| `call[c]` | a script in the pod: its operation and the system call it is at |
| `Looks` .. `WriteAnswers`, `Mkdir`, `Delete` | `FS_SCRIPT`: lstat, hash, temporary file, rename, lstat |
| `ImportOpens`, `ImportFills` | `WRITE_FILES_SCRIPT`: `writeFileSync` empties, then fills, or fails halfway (`:100`) |
| `OwnerWrites` | the owner's commands and servers write or remove the same file, at any time |
| `StartLooks` .. `Unfiles` | `SERVICE_SCRIPT`, `start` and `stop` |
| `RunSpawns`, `RunTimesOut`, `RunEnds` | `RUN_SCRIPT` |
| `LeaderExits`, `OthersExit`, `Listens`, `NextPod` | the owner's processes, and the end of the pod |

A process that dies while the script that spawned it runs is reaped by node; later its parent is
PID 1, which is `tail` (`terminal-pod-spec.builder.ts:148-157`) and reaps nobody: it stays a
zombie, which `kill(pid, 0)` takes for alive. Two variables are history: `overlapped` (another
script of the same kind ran at the same time, or the owner's processes worked on the file) and
`stale` (the writes whose file was changed by anybody else after they had decided to replace it:
after the comparison at `:259`, before the rename at `:271`).

### CodeRun

`run[r]` is where `PodLifecycleService.run` or `ModalService.runRemote` is; `pod` and `box` are
what it made; `app` and `image` are the two promises that all Python runs share, the second with
how far `resolveDataScienceImage` has come. A promise that is rejected and stays in the cache is a
value of both (`"rejected"`): whoever asks for it then (`Gets`) holds a rejected promise and
will hear its error (`Hears`). The catch of `getApp` and of `getDataScienceImage` is what keeps that
value out. Every call may fail (`Fails`), a create or a publish
after it took effect. `lost` is history: what failed was the clean-up, or the answer
that named what there is to clean up.

### GithubDemos

`save[s]` is where `save` is, the files it exported, its token and the commit it works on; `head`
is the branch, `commit` the commits with their files and ancestors; `cache` the token of the
repository, by the time it expires. `Push` succeeds only from the commit the branch is
at (git refuses the rest without `--force`), and its answer may be lost. `Tick` cannot pass the
timeout of a call in progress (`Deadline`), which is what makes lifetimes mean something.

## 3. What is checked

| Run | Instance | Shows |
|---|---|---|
| `lifecycle` | 2 projects, 2 requests of start/stop/delete, reaper, limits 1, expiry, 2 calls that throw or do nothing, 1 lost delete, 1 restart | `LimitsUnlessRaced`, `NothingHalfBuilt`, `DeletionIsReal`, `DiskKeptUnlessRaced` |
| `recovery` | 1 project, 2 requests of start/delete, expiry, death, 1 lost delete, 1 restart | liveness: `Reclaimed`, `DiskReleased` |
| `session` | 1 project, 2 requests of start/use/exec/expose, expiry, death, idleness | `BusyHasCommand`, `OneCommandUnlessWiped` |
| `pty` | 1 project, 2 sessions, 2 subscribers, 3 chunks of size 1 or 3, backlog of 2 | all of the PTY's, and the refinement |
| `exec` | 2 commands, 2 streams each, cap of 2 bytes, 4 bytes that arrive one by one | `OneAnswer`, `CutIsSaid`, `OutputCapped`; liveness: `Answered` |
| `preview` | `Older` and 2 requests, 2 objects, 1 tick, 1 trouble of any kind | `LimitUnlessRaced`, `TtlCapped`, `AllOrNothing`, `SecretTied` |
| `expiry` | `Older` and 1 request, 3 objects, 2 ticks, lifetimes above the cap | `AllOrNothing`; liveness: `ExpiredGoes` |
| `pod` | 3 calls of any operation, 1 path, 1 port, the owner's processes on that path, pods that end | `ReplacesWhatItRead`, `TidyDisk`, `StopIsReal`, `ServerTracked`, `CommandGone` |
| `code` | 3 runs, each any number of times, 2 failures or restarts | `NothingLeft`, `CacheSound` |
| `github` | 3 saves, 1 other commit, 2 files, a token of 5 ticks with a margin of 3, restarts | `SavedStays`, `TokenOutlives` |

Two properties, each stated by a comment of the code, fail; each has a run that ends with
the counterexample (`findings` quotes the comments):

| Run | Fails | What happens |
|---|---|---|
| `race_disk` | `DiskKept` | two starts of a new project: the loser of the 409 deletes the winner's disk |
| `lost_extension` | `ExtensionKept` | two extensions at once: the later patch brings the expiry forward |

The passing runs say how much is left. `DiskKeptUnlessRaced` and the two limits hold until two
starts have overlapped (`raced`), which nothing in the code prevents. In the same way
`AllOrNothing` excepts the services whose stop met their own start (`cut`), a restart and a
lost delete: what is left then belongs to no pod, and the sweep, which lists pods, never
finds it.

Other conditions in the properties are also the code's, each of them a behaviour that the
models have and the property has to allow for:

* `OneCommandUnlessWiped`: a `stopPod` whose delete of the pod was lost clears `busy` all the
  same (`terminal.service.ts:404`), and a second command may then join the first.
* `Answered`: a client that leaves before `execInPod` answers is not noticed, as the
  listener is added to a signal that has already fired (`terminal.service.ts:477`); its
  command ends by itself or by the watchdog.
* `ListenerAnswered`: a subscriber that was replaced is never told of the end
  (`terminal-pty.service.ts:190`); the property is about the one that took its place.
* `ReplacesWhatItRead`: any other script and the owner's processes may change the file at any time, and
  what they did before the comparison is found. What happens to the file between the comparison
  and the rename (`terminal-scripts.ts:259`, `:271`) is overwritten unseen, although
  `terminal-scripts.ts:184-185` claims a conflict "si el archivo cambió desde que se leyó": the
  property excepts `stale` writes, and without the exception TLC finds a write that renames over the
  torn file of an import that opened it meanwhile, eight states from the start. A file that was
  deleted since it was read is created again without a conflict (`:254`).
* `TidyDisk`: an import writes in place (`:100`). One that finds the disk full answers with an
  error and leaves a part of the file; one that is killed leaves it without an answer.
* `CutIsSaid`: the decoders of `exec` are never ended (`terminal.service.ts:454`), so that up to three
  bytes of each stream, of a character that the command did not complete, are lost while the final
  event says `truncated: false`. The property counts them (`held`) and allows nothing else to be
  missing unsaid.
* `DeletionIsReal`: a deletion that answers with an error may have taken effect; one that
  answers well is real, whatever the API server accepted without doing it.
* `StopIsReal`: a `stop` that finds the leader reaped sends no SIGKILL (`:454`), and
  what ignores SIGTERM survives it. That takes a leader that exits while its own `start` still
  polls; later it would be a zombie. Nothing else is excepted: that other starts and stops
  overlap the stop does not matter. The other side of zombies is that a server that
  crashed counts as `already-running` until somebody stops it (`:417`).
* `ServerTracked`: the pid file of a port is emptied, written and removed without regard to
  who wrote it (`:431`, `:440`, `:455`): of two starts at once, one server may be in no file.
* `NothingLeft`: a delete that fails (`k8s.service.ts:200-209`), a `terminate` that throws and a
  create of a sandbox whose answer is lost leave the pod to `activeDeadlineSeconds` and the
  sandbox to `timeoutMs`.

**Bounds, and why they are enough.** The interesting cases take two actors on one
project, or one actor and the sweep; two requests and the reaper are three actors. Two
projects matter only for the limits. One failed call puts a handler on its error path
and one lost delete makes the clean-up incomplete; `preview` and `expiry` share a single
budget (`MaxTroubles`) among failures, lost deletes and restarts. `lifecycle` has two errors, so that
both attempts of a deletion (`EraseAttempts`) can go wrong, each in its own way.
In `exec`, chunks of one byte against a cap of 2 give output below, at and above it; four bytes pass the
cap, and go on arriving after it, while a decoder may hold three of them; longer chunks only take
several of these steps at once. In `pty`, sizes 1 and 3 are below and above a backlog of 2; three
chunks fill it, overflow it and leave one for a second reader. In `preview`, `egress`,
`ingress` and `route` are left out; `expiry` has `egress`, the one object that `stop` must
find although only some services have it. One tick makes every lifetime of that run
expire; two ticks let an extension come between creation and expiry. In `pod`, three calls
are two that race and the one whose work they race over (a start that a stop
and another start meet; a write between two imports); calls on other paths and ports share
nothing with them. In `code`, two failures are one in a call and one in its clean-up, or one
that rejects a promise and a restart; runs repeat without bound. In `github`, three saves are
two that race and one that repeats either; five ticks are the whole life of a token, so that
it can be reused, be refused for the margin, and expire. Every bound is named in
its module, and the bounds on failures only make the model stop failing.

**Time in `GithubDemos`.** A unit is a git timeout of 60 s, and the margin of 5 min is at
least the three calls of the network that follow a token (`ConstantsAssumption`). What git
does in the working copy takes no time there. Each of those local commands has a timeout of
60 s of its own, and together they could outlast the margin; the property is of the calls
that a slow network delays. `fetch` is given no timeout by the code: `FetchTimeout` stands for
the default of the HTTP client. If GitHub names no expiry the code assumes 50 min from the
answer, which is less than the token has, and is left out.

**Fairness.** The event loop runs what is due, and an API call ends: weak fairness of
each request's steps (`Serve`; in `TerminalExec`, each step of `exec` that the code itself
takes). The cron fires again: weak fairness of `Reap`. Kubernetes finishes a deletion:
`PodGone`, `DiskGone`, `Collect`. Nothing else is fair: no request need arrive, no pod need
start, no command need end (that is what the watchdog is for), no client need stay. The
restart and the lost deletes are bounded, as `Reclaimed` and `ExpiredGoes` cannot hold if
every delete is lost for ever. `CHECK_DEADLOCK FALSE` is only in the `pty` run: when both
sessions are over and both subscribers have been, nothing is left to do.

## 4. What is proved

Every invariant that a run checks, the refinement of `ExclusiveSessions` and
`DiskKeptUnlessRaced` are theorems: they hold for any number of projects, requests, sessions,
scripts, runs and saves, any limits, sizes and lengths of time, and any number of failures and
restarts. Two more action properties are only proved (`ExecAnswerStays`, `GithubOnlyForward`). The
assumptions are the `ConstantsAssumption` of each module and nothing else: limits, sizes and
periods are positive; `Nil`, the reaper and the like are none of the ids; the projects of
`TerminalWorkspace` are finitely many (they are rows of a table of Core, and the limit on disks counts
them). TLC evaluates each assumption in the runs of its module.

Each proof module starts with the types, split into named parts so that the proof of an action
only opens the part it disturbs (`Typed`), goes on with one lemma per action or per group of
actions of one shape, and ends each property with a three-line theorem. TLC checked each
inductive invariant before it was proved.

### TerminalWorkspaceProofs

| Theorem | Inductive invariant, beside the types |
|---|---|
| `WorkspaceTypes` (`TypeOK`) | `AllFit`: a request stays on the path of its operation, and what is on its list and where it goes next are what that path has |
| `WorkspaceDeletionIsReal` | the property itself, over `DiskMoves`: only the read-back ends a deletion well, and who makes a disk later has another name |
| `WorkspaceBusyHasCommand` | the property itself, over the shapes of a step (`Goes`, `Works`) |
| `WorkspaceOneCommand` | `Held`: until a stop takes a mark, a command holds its mark and is alone |
| `WorkspaceDiskKept` | `Solo`: until two starts overlap there is one, and if it found no disk, a disk that is bound is its own (`Knows`) |
| `WorkspaceNothingHalfBuilt` | `AllAnswer`: what a start made it keeps (it ended well, or was lost), stands at, or has on the list of its roll-back; `Owned`: no pod, no maker |
| `WorkspaceLimits` | `Roomy`: the limits hold, and the room that a start found by its counts is still there until it has used it |

`AllFit` is most of it: that a roll-back may list a disk only if `fresh` holds, that a stop never lists
one, or that the create list of a start is one of three, are facts about long paths that every other
invariant needs.

### TerminalPtyProofs

* `PtyTypes`, `PtyReservation`, `PtyExclusive`: the inductive invariant is
  `Reserved == TypeOK /\ Seated /\ ReservationExact`. `ReservationExact` alone is not inductive:
  `finish` frees the workspace its session *remembers*, and without `Seated` (a session that holds is
  seated at a workspace) that could be `Nil`. `OneSessionPerWorkspace` follows, as two sessions that
  hold one workspace are both the value of one function there.
* `PtyKeepsPromise`: `Spec => KeepsPromise`. `StepShape` reduces the seventeen actions to
  four shapes (reserve, progress, free one, free all at shutdown); each maps to a step of
  `ExclusiveSessions` or to a stutter.
* `PtyListenerAnswered`: `Answering`. That whoever waits is remembered (`Waits`) needs the converse
  (`Remembers`): whom a session remembers waits for *it*, so that the end it tells goes to nobody
  who has been told.
* `PtyOutputFaithful`, `PtyBacklogBounded`: `Streams`. A session with a listener keeps nothing; what
  was handed out followed by what is kept rises, within what was written, and is all of it unless
  something was given up (`Faithful`); `Bounded`. The trimmed backlog is a suffix (`TrimSuffix`), and
  a suffix of what rises, rises. The `while` loop of `handleData` is written as the first index at
  which it stops, and that there is a first one is `Smallest`: the least-number principle, shown by
  counting (a set of numbers below `n` cannot be mapped one to one onto more), as the induction
  theorems are out of reach. `Bytes` is a recursive function.

### PreviewServiceProofs

* `PreviewTypes`, which includes that an owner is written only on a Secret that exists (`bound`):
  the guard `Untied` and the removal of the owner in `Delete` and `Collect` are what it rests on.
* `PreviewTtlCapped`: `CreateNext` and `Patch` write an expiry that was reckoned awaits ago, from a
  clock and a pod that may have changed. `Capped` adds what is pending: a start has at most
  `now + MaxTtl` in hand (`StartsCapped`); an extension has at most the cap of the pod *that is
  there* (`PatchesCapped`), which cannot be another than the one it read, as a service whose pod was
  never created has none (`UnbornHaveNone`) and once created it is never created again.
* `PreviewLimit`: `Room`. Each step only shrinks what counts (`Shrinks`), or is a count that found
  room, or the creation of a pod by the one start that counted. The listed services are finitely
  many at every moment, whatever the requests.
* `PreviewSecretTied` and `PreviewAllOrNothing` have one invariant, `Fine(s)` of each service: a start
  has its last calls left, in their order (`Making`), so that once `own` is behind it the Secret is
  tied (`Tied`); nobody else knows of a service before its pod is listed (`Aimed`, `Fresh`); a start
  that no stop met is alone and has made exactly what it has called (`InOrder`); what a stop has
  deleted stays deleted (`Deleted`), so that when the last one is through nothing is left
  (`Whole`). `UntouchedFine` and `Elsewhere` say that a step leaves every service alone that it is
  not about; the others are one lemma each.

### TerminalExecProofs

`ExecTypes`, `ExecOutputCapped`, `ExecCutIsSaid`, `ExecOneAnswer` follow from `IInv`, whose core is
`Sound` of each request: before exec has its handle there is no final event; until the output is cut, what was
given and what the decoders hold is all that arrived; once it is cut the handle is aborted, or
will be when it comes; the last event of a request that is done is its only final one and says of a
cut that it was one (`Closes`). A decoder never holds more than three bytes, whatever the sizes of
the chunks.
`ExecAnswerStays` (an action property): nothing that still happens to a request that was answered
changes its answer.

### PodScriptsProofs

| Theorem | Inductive invariant, beside the types |
|---|---|
| `PodTypes` | `Filed`, `Fresh`: the pid file names a start that wrote it; a call that has not begun was not overlapped |
| `PodTidyDisk` | `TempTidy`, `TornTidy`: a temporary file has a write between its creation and its rename, or one that was killed; a torn file has an import that runs, was killed, failed or was mixed with another writer |
| `PodCommandGone` | the property itself, as a group only loses processes (`Fades`) |
| `PodStopIsReal` | `Targets`, `Empty`, `Stopped`: a stop's target was started, a group without a leader is empty, and a stop past its kill has left nothing, if the leader is not reaped |
| `PodReplacesWhatItRead` | `Faithful`: on its way from its decision to the rename, a write whose file nobody else has changed since (`stale`) finds what its client read, or nothing |
| `PodServerTracked` | `Pairs` (of two service scripts that run both are overlapped) and `Tracked`: from the moment a start opens the pid file until its leader is dead the file is its own, and a stop that runs is on its way to kill this very server |

### CodeRunProofs and GithubDemosProofs

* `CodeTypes` (with `OneAtATime`: the count of resolutions is exact), `CodeNothingLeft` (`Clean`: what
  a run may have made at each of its stages; `terminate` only clears the sandbox, so that
  there must not be a pod), `CodeCacheSound` (`Told`: the rejection that a run holds, or the error it
  was told of, came after it began; who waits, waits for a promise that is kept. That the cache
  holds no rejected promise is part of the types, `ModalType`).
* `GithubTypes`, `GithubTokenOutlives` (`Budget`: at each stage a save has a token for the calls that are
  left), `GithubSavedStays` (`Settled`, `Grown`: nothing in the history of the branch is written again,
  a save works on a commit of that history, and its commit has its base's history).
  `GithubOnlyForward`: no step takes a commit out of the history, or changes one in it.

### What the proofs changed in the models

* `Status` of `TerminalWorkspace` was a `CASE` with overlapping arms, which TLA+ lets mean any of them;
  TLC took the first, as the code's `if` chain does. It is now that chain.
* `StopIsReal` excepted stops that were overlapped. The proof never used it, and it is gone.
* `Trim`, `Bytes`, `Output`, `Retry` and a few updates were rewritten without changing what they mean
  (folds, nested `@`, unparenthesised `SUBSET` differences that the two parsers read differently).
* The assumptions of `PodScripts` and `TerminalWorkspace` now say what was meant: the contents `Nil`,
  `Old`, `Torn` and `Dir` of a path are four different values and none is a call; `Nil` is no project.

### What is only model-checked

Liveness under fairness: `Reclaimed`, `DiskReleased`, `Answered`, `ExpiredGoes`. Their proofs need
`ENABLED` and induction over the number of failures that are left, which are out of the prover's
reach. `race_disk` and `lost_extension` are counterexamples.

## 5. What is not modelled

* What the owner's commands and builds do, beyond the processes they leave, the port they
  listen on and the one file that the scripts also work on (there they write it whole or remove
  it; they make no directories of it). Symbolic links, sizes and contents of files, non-empty directories, the reuse of
  pids and the log and working directory of a server are left out of `PodScripts`.
* A script whose call was given up (`collectExec`'s watchdog, a broken connection) goes on in the
  pod: there it is a call like any other, and that its client no longer listens is not told.
* `FS_SCRIPT` list and read, `EXPORT_FILES_SCRIPT`, `SERVICE_SCRIPT` list and logs: they change
  nothing. The static server of `expose`: a fixed program that is started and probed once.
* `GithubDemosService.list`: it reads the branches, and to the token cache it is a save that
  ends after `ls-remote`. Branches that somebody deletes or rewrites at GitHub.
* `resize`, `exportFiles`, `list`, `proxyToPod`: they change no state of the Executor.
* Manifests, labels, slugs, archives, error texts: only what the life cycle depends on
  (names, annotations, `restartPolicy`, owner) is in the models.
* The running counter `backlogBytes` of a PTY (`terminal-pty.service.ts:242`): the model takes the sum
  of what is kept (`Bytes`) each time. The code changes the counter only together with the
  array (`:163-174`, `:242-248`); a drift of the counter from
  the sum cannot be seen here.
* RBAC, schemas and configuration: static; the models start after them.
* Sweeps that overlap themselves: a sweep's steps are deletes by name, and a second one
  at the same time does nothing a request of `stop` does not.
* An API server that accepts a connection and never answers: nothing in the code limits
  such a wait (the waits for pods poll with a deadline, the watchdog of `exec` starts once
  it is connected), and under the fairness above a call ends.

## 6. Plan

In this order, the most important first. Items 1 to 12 are done.

1. `TerminalWorkspace`: disks and pods, the heart of the terminal (runs `lifecycle`,
   `recovery`, `session`).
2. `TerminalPty` over `ExclusiveSessions` (run `pty`).
3. `TerminalPtyProofs`: types, exclusivity, refinement.
4. `TerminalExec`: the stream of one command (run `exec`).
5. `PreviewService` and its sweep (runs `preview`, `expiry`).
6. `PreviewServiceProofs`: types and `TtlCapped`.
7. `PodScripts`: files, servers and commands inside a pod (run `pod`).
8. `CodeRun`: runs in a pod or at Modal, and the promises they share (run `code`).
9. `GithubDemos`: saves, tokens and the branch (run `github`).
10. `CodeRunProofs` and `GithubDemosProofs`: all their properties.
11. `PodScriptsProofs`, `TerminalExecProofs`, `TerminalWorkspaceProofs`: all safety properties.
12. The rest of `TerminalPtyProofs` and of `PreviewServiceProofs`.
13. More refinements to prove: a preview service seen by its owner (announced, whole, gone), the
    branch as a history that only grows (`GithubOnlyForward` is its step).
14. The hazards that have no property yet: a publication that lands on a later pod, and two
    publications of one project.
