------------------------------ MODULE PodScripts ------------------------------
(***************************************************************************)
(* terminal-scripts.ts: the programs that the Executor runs inside the pod  *)
(* of a workspace, one process for each call.  FS_SCRIPT and                *)
(* WRITE_FILES_SCRIPT work on the disk, SERVICE_SCRIPT on the servers that  *)
(* outlive their call, RUN_SCRIPT is a command of the owner; servers and    *)
(* commands work on the same disk.  Nothing keeps two of them apart: they   *)
(* interleave at every system call that another one can notice.  A call     *)
(* that the Executor gives up (collectExec's watchdog, a broken connection) *)
(* goes on in the pod, and is not told apart here.                          *)
(*                                                                          *)
(* One path of the disk and one port: calls on others share nothing.        *)
(***************************************************************************)
CONSTANTS
  Calls,      \* the calls there are; they also name what they leave: contents, groups
  Ops,        \* the operations that are called
  Nil,        \* nothing there
  Old,        \* the content the file had before
  Torn,       \* a file of which a part is written, whichever part
  Dir         \* a directory

FileOps    == {"write", "import", "mkdir", "delete"}
ServiceOps == {"start", "stop"}

ASSUME ConstantsAssumption ==
  /\ Ops \subseteq FileOps \union ServiceOps \union {"run"}
  /\ Nil \notin {Old, Torn, Dir} /\ Old \notin {Torn, Dir} /\ Torn # Dir
  /\ {Nil, Old, Torn, Dir} \intersect Calls = {}

VARIABLES
  file,     \* what is at the path: a content is named by the call that wrote it
  stale,    \* writes whose file changed after they had decided to replace it (history)
  temp,     \* calls whose temporary file is on the disk
  meta,     \* the pid file of the port: the start it names
  group,    \* start or run -> its process group: the leader, the others
  port,     \* the group that listens on the port
  call      \* call -> its operation, its stage and its result

vars == <<file, stale, temp, meta, group, port, call>>
path == <<file, stale>>
disk == <<path, temp>>
pod  == <<meta, group, port>>

\* read: what the client had read when it asked; over: what its rename replaced;
\* target: the start whose group a stop stops; overlapped: a script of the same kind
\* ran at the same time, or the owner's processes worked on the file (history).
NewCall == [op |-> "none", st |-> "new", read |-> Nil, force |-> FALSE, over |-> Nil,
            target |-> Nil, res |-> "none", overlapped |-> FALSE]

\* zombie: dead, but its parent, by then the pod's PID 1 (tail), never asks for it.
NoGroup == [leader |-> "none", rest |-> FALSE]

Init ==
  /\ file \in {Nil, Old} /\ stale = {} /\ temp = {}
  /\ meta = Nil /\ port = Nil
  /\ group = [c \in Calls |-> NoGroup]
  /\ call = [c \in Calls |-> NewCall]

-----------------------------------------------------------------------------
(* Calls.                                                                  *)

Ended(c)   == call[c].st \in {"over", "killed"}
Running(c) == call[c].st \notin {"new", "asked", "over", "killed"}
Kind(op)   == IF op \in FileOps THEN "file" ELSE IF op \in ServiceOps THEN "service" ELSE "command"

\* A client asks, with the hash of what it has just read if it is to replace just that.
Ask(c) ==
  /\ call[c].st = "new"
  /\ \E op \in Ops, e \in {Nil, file} \ {Dir}, f \in BOOLEAN :
       /\ op # "write" => e = Nil
       /\ op # "write" \/ e # Nil => ~f
       /\ call' = [call EXCEPT ![c] = [NewCall EXCEPT !.op = op, !.st = "asked", !.read = e, !.force = f]]
  /\ UNCHANGED <<disk, pod>>

\* The script starts and comes to its first decision: it goes on as st, or ends with res.
Begun(c, st, res) ==
  LET beside == {d \in Calls \ {c} : Running(d) /\ Kind(call[d].op) = Kind(call[c].op)}
      now    == [call EXCEPT ![c].st = st, ![c].res = res, ![c].overlapped = beside # {}]
  IN [d \in Calls |-> IF d \in beside THEN [now[d] EXCEPT !.overlapped = TRUE] ELSE now[d]]

Begin(c, st, res) == call' = Begun(c, st, res)

Go(c, st)   == call' = [call EXCEPT ![c].st = st]
End(c, res) == call' = [call EXCEPT ![c].st = "over", ![c].res = res]

\* The pod ends and another one takes its place: its processes and its /tmp are lost,
\* the disk stays.
NextPod ==
  /\ call' = [c \in Calls |-> IF Running(c) THEN [call[c] EXCEPT !.st = "killed"] ELSE call[c]]
  /\ meta' = Nil /\ port' = Nil
  /\ group' = [c \in Calls |-> NoGroup]
  /\ UNCHANGED disk

-----------------------------------------------------------------------------
(* FS_SCRIPT.                                                              *)

Asked(c, op) == call[c].st = "asked" /\ call[c].op = op
At(c, op, st) == call[c].st = st /\ call[c].op = op
Content == Calls \union {Old, Torn}

\* A write that has made up its mind: it looks at the file no more until it replaces it.
Decided(c) == call[c].op = "write" /\ call[c].st \in {"temp", "rename"}

\* c (Nil: none of the scripts) makes f of the file: what the others have decided was
\* decided about another one.
Put(c, f) ==
  /\ file' = f
  /\ stale' = IF f = file THEN stale ELSE stale \union {d \in Calls \ {c} : Decided(d)}

\* Mutant: force is taken from who has an expectation.
LooksForced(c) ==
  CASE file = Nil     -> Begin(c, "temp", "none")
    [] file = Dir     -> Begin(c, "over", "not_file")
    [] file \in Content /\ (call[c].read # Nil \/ call[c].force)  -> Begin(c, "temp", "none")
    [] file \in Content /\ ~(call[c].read # Nil \/ call[c].force) -> Begin(c, "over", "exists")

\* lstat: what is there decides if there is a hash to compare.
Looks(c) ==
  CASE file = Nil     -> Begin(c, "temp", "none")
    [] file = Dir     -> Begin(c, "over", "not_file")
    [] file \in Content /\ call[c].read # Nil -> Begin(c, "hash", "none")
    [] file \in Content /\ call[c].read = Nil ->
         IF call[c].force THEN Begin(c, "temp", "none") ELSE Begin(c, "over", "exists")

WriteLooks(c) == Asked(c, "write") /\ Looks(c) /\ UNCHANGED <<disk, pod>>

\* The content is read for its hash: by now it may be another, or none.
WriteCompares(c) ==
  /\ At(c, "write", "hash")
  /\ CASE file = call[c].read                      -> Go(c, "temp")
       [] file \in {Nil, Dir}                      -> End(c, "failed")
       [] file \in Content /\ file # call[c].read -> End(c, "conflict")
  /\ UNCHANGED <<disk, pod>>

\* The temporary file is written, or it cannot be and is removed.
WriteTemp(c) ==
  /\ At(c, "write", "temp")
  /\ \/ temp' = temp \union {c} /\ Go(c, "rename")
     \/ UNCHANGED temp /\ End(c, "failed")
  /\ UNCHANGED <<path, pod>>

\* Mutant: what is at the path is removed first, whatever it is.
WriteRemovesFirst(c) ==
  /\ At(c, "write", "rename")
  /\ Put(c, c) /\ temp' = temp \ {c}
  /\ call' = [call EXCEPT ![c].st = "stat", ![c].over = file]
  /\ UNCHANGED pod

\* rename replaces whatever file is there now; a directory it does not.
WriteRenames(c) ==
  /\ At(c, "write", "rename")
  /\ temp' = temp \ {c}
  /\ IF file = Dir THEN End(c, "failed") /\ UNCHANGED path
     ELSE Put(c, c) /\ call' = [call EXCEPT ![c].st = "stat", ![c].over = file]
  /\ UNCHANGED pod

\* The lstat of the answer fails if somebody has deleted the file.
WriteAnswers(c) ==
  /\ At(c, "write", "stat")
  /\ End(c, IF file = Nil THEN "failed" ELSE "ok")
  /\ UNCHANGED <<disk, pod>>

MkdirLooks(c) ==
  /\ Asked(c, "mkdir")
  /\ IF file \in Content THEN Begin(c, "over", "exists") ELSE Begin(c, "make", "none")
  /\ UNCHANGED <<disk, pod>>

Mkdir(c) ==
  /\ At(c, "mkdir", "make")
  /\ IF file \in Content THEN End(c, "failed") /\ UNCHANGED path ELSE End(c, "ok") /\ Put(c, Dir)
  /\ UNCHANGED <<temp, pod>>

DeleteLooks(c) ==
  /\ Asked(c, "delete")
  /\ CASE file = Nil        -> Begin(c, "over", "not_found")
       [] file = Dir        -> Begin(c, "rmdir", "none")
       [] file \in Content -> Begin(c, "unlink", "none")
  /\ UNCHANGED <<disk, pod>>

\* rmdir removes no file, unlink no directory.
Delete(c) ==
  /\ call[c].op = "delete" /\ call[c].st \in {"unlink", "rmdir"}
  /\ IF (call[c].st = "rmdir" /\ file = Dir) \/ (call[c].st = "unlink" /\ file \in Content)
     THEN End(c, "ok") /\ Put(c, Nil)
     ELSE End(c, "failed") /\ UNCHANGED path
  /\ UNCHANGED <<temp, pod>>

-----------------------------------------------------------------------------
(* WRITE_FILES_SCRIPT: it writes over the file where it is.                *)

\* It cannot be opened, or it is, which empties it.
ImportOpens(c) ==
  /\ Asked(c, "import")
  /\ \/ Begin(c, "over", "failed") /\ UNCHANGED path
     \/ file # Dir /\ Begin(c, "fill", "none") /\ Put(c, Torn)
  /\ UNCHANGED <<temp, pod>>

\* Mutant: a write that fails is not told from one that succeeds.
ImportFillsSilently(c) ==
  LET mine == file \in Content /\ ~(file \in Calls /\ call[file].op = "write")
  IN /\ At(c, "import", "fill")
     /\ \E f \in IF mine THEN {c, Torn} ELSE {file} : Put(c, f)
     /\ End(c, "ok")
     /\ UNCHANGED <<temp, pod>>

\* What it has open may have been removed or replaced meanwhile; if it is what is at the
\* path, and only it wrote there, the whole content is there in the end, or the part that
\* was written when the disk was full; if others wrote there too, it may be of both.
ImportFills(c) ==
  LET mine == file \in Content /\ ~(file \in Calls /\ call[file].op = "write")
      both == IF call[c].overlapped THEN {Torn, file} ELSE {}
  IN /\ At(c, "import", "fill")
     /\ \/ (\E f \in IF mine THEN {c} \union both ELSE {file} : Put(c, f)) /\ End(c, "ok")
        \/ (\E f \in IF mine THEN {Torn} \union both ELSE {file} : Put(c, f)) /\ End(c, "failed")
     /\ UNCHANGED <<temp, pod>>

-----------------------------------------------------------------------------
(* Processes, as the system runs them.                                     *)

Dead(g)  == g.leader # "up" /\ ~g.rest

\* Mutant: a zombie is told from a process.
AliveReally(d) == group[d].leader = "up"

\* alive: kill(pid, 0) succeeds on a zombie too.
Alive(d) == group[d].leader \in {"up", "zombie"}

\* node asks for its children while the script that started them runs.
Died(d) == IF Running(d) THEN "reaped" ELSE "zombie"

\* The group is now g: if it listened, it may do so no more.
Becomes(d, g) ==
  /\ group' = [group EXCEPT ![d] = g]
  /\ port' \in IF port # d THEN {port} ELSE IF Dead(g) THEN {Nil} ELSE {d, Nil}

LeaderExits(d) ==
  /\ group[d].leader = "up"
  /\ Becomes(d, [group[d] EXCEPT !.leader = Died(d)])
  /\ UNCHANGED <<disk, meta, call>>

OthersExit(d) ==
  /\ group[d].rest
  /\ Becomes(d, [group[d] EXCEPT !.rest = FALSE])
  /\ UNCHANGED <<disk, meta, call>>

Listens(d) ==
  /\ port = Nil /\ ~Dead(group[d])
  /\ port' = d
  /\ UNCHANGED <<disk, meta, group, call>>

\* SIGKILL to the group; SIGTERM, to which each process ends or does not.
Killed(d)     == [leader |-> IF group[d].leader = "up" THEN Died(d) ELSE group[d].leader,
                  rest |-> FALSE]
Terminated(d) == [leader : {group[d].leader, Killed(d).leader}, rest : {group[d].rest, FALSE}]

-----------------------------------------------------------------------------
(* SERVICE_SCRIPT.                                                         *)

Unfile == meta' = Nil

StartLooks(c) ==
  /\ Asked(c, "start")
  /\ IF meta \in Calls /\ Alive(meta) THEN Begin(c, "over", "already-running")
     ELSE Begin(c, "spawn", "none")
  /\ UNCHANGED <<disk, pod>>

StartSpawns(c) ==
  /\ At(c, "start", "spawn")
  /\ \E others \in BOOLEAN : group' = [group EXCEPT ![c] = [leader |-> "up", rest |-> others]]
  /\ Go(c, "open")
  /\ UNCHANGED <<disk, meta, port>>

\* The pid file is opened, which empties it, then written.
StartOpensMeta(c) ==
  /\ At(c, "start", "open")
  /\ meta' = Torn
  /\ Go(c, "name")
  /\ UNCHANGED <<disk, group, port>>

\* Another script may have removed it since, or be writing it too.
StartNames(c) ==
  /\ At(c, "start", "name")
  /\ meta' \in IF meta = Nil THEN {Nil} ELSE IF call[c].overlapped THEN {c, Torn} ELSE {c}
  /\ Go(c, "poll")
  /\ UNCHANGED <<disk, group, port>>

\* Somebody listens on the port.
StartListening(c) ==
  /\ At(c, "start", "poll") /\ port # Nil
  /\ End(c, "listening")
  /\ UNCHANGED <<disk, pod>>

StartExited(c) ==
  /\ At(c, "start", "poll") /\ group[c].leader = "reaped"
  /\ call' = [call EXCEPT ![c].st = "unfile", ![c].res = "exited"]
  /\ UNCHANGED <<disk, pod>>

\* Mutant: a server that did not answer in time is struck off.
StartTimesOutUnfiled(c) ==
  /\ At(c, "start", "poll")
  /\ End(c, "timeout") /\ Unfile
  /\ UNCHANGED <<disk, group, port>>

\* 45 s have passed.
StartTimesOut(c) ==
  /\ At(c, "start", "poll")
  /\ End(c, "timeout")
  /\ UNCHANGED <<disk, pod>>

StopLooks(c) ==
  /\ Asked(c, "stop")
  /\ IF meta \in Calls THEN call' = [Begun(c, "term", "none") EXCEPT ![c].target = meta]
     ELSE Begin(c, "over", "nothing")
  /\ UNCHANGED <<disk, pod>>

StopTerminates(c) ==
  LET d == call[c].target IN
  /\ At(c, "stop", "term")
  /\ \E g \in Terminated(d) : Becomes(d, g)
  /\ Go(c, "wait")
  /\ UNCHANGED <<disk, meta>>

\* The leader is gone, or two seconds have passed and the group is killed.
StopKills(c) ==
  LET d == call[c].target IN
  /\ At(c, "stop", "wait")
  /\ IF Alive(d) THEN Becomes(d, Killed(d)) ELSE UNCHANGED <<group, port>>
  /\ call' = [call EXCEPT ![c].st = "unfile", ![c].res = "stopped"]
  /\ UNCHANGED <<disk, meta>>

\* The pid file of the port is removed, whoever wrote it.
Unfiles(c) ==
  /\ call[c].op \in ServiceOps /\ call[c].st = "unfile"
  /\ End(c, call[c].res) /\ Unfile
  /\ UNCHANGED <<disk, group, port>>

-----------------------------------------------------------------------------
(* RUN_SCRIPT.                                                             *)

RunSpawns(c) ==
  /\ Asked(c, "run")
  /\ \E others \in BOOLEAN : group' = [group EXCEPT ![c] = [leader |-> "up", rest |-> others]]
  /\ Begin(c, "running", "none")
  /\ UNCHANGED <<disk, meta, port>>

\* The timer fires: the group is killed, and the exit of the child will be heard.
RunTimesOut(c) ==
  /\ At(c, "run", "running") /\ call[c].res = "none"
  /\ Becomes(c, Killed(c))
  /\ call' = [call EXCEPT ![c].res = "137"]
  /\ UNCHANGED <<disk, meta>>

\* Mutant: only the command itself is waited for, as busybox's timeout does.
RunEndsAlone(c) ==
  /\ At(c, "run", "running") /\ group[c].leader = "reaped"
  /\ End(c, IF call[c].res = "none" THEN "code" ELSE call[c].res)
  /\ UNCHANGED <<disk, pod>>

\* The child has exited: what it left in its group is killed.
RunEnds(c) ==
  /\ At(c, "run", "running") /\ group[c].leader = "reaped"
  /\ Becomes(c, Killed(c))
  /\ End(c, IF call[c].res = "none" THEN "code" ELSE call[c].res)
  /\ UNCHANGED <<disk, meta>>

\* The owner's commands and servers write the file, or remove it, at any time: the scripts
\* that work on files are not alone with it.  (When none is asked for or runs it makes no
\* difference: the next one finds some content or none in any case.)
OwnerWrites(d) ==
  /\ ~Dead(group[d]) /\ file # Dir
  /\ \E c \in Calls : Kind(call[c].op) = "file" /\ ~Ended(c)
  /\ \E f \in {d, Nil} : Put(Nil, f)
  /\ call' = [c \in Calls |-> IF Running(c) /\ Kind(call[c].op) = "file"
                             THEN [call[c] EXCEPT !.overlapped = TRUE] ELSE call[c]]
  /\ UNCHANGED <<temp, pod>>

-----------------------------------------------------------------------------

FileStep(c) ==
  \/ WriteLooks(c) \/ WriteCompares(c) \/ WriteTemp(c) \/ WriteRenames(c) \/ WriteAnswers(c)
  \/ MkdirLooks(c) \/ Mkdir(c) \/ DeleteLooks(c) \/ Delete(c)
  \/ ImportOpens(c) \/ ImportFills(c)

ServiceStep(c) ==
  \/ StartLooks(c) \/ StartSpawns(c) \/ StartOpensMeta(c) \/ StartNames(c)
  \/ StartListening(c) \/ StartExited(c) \/ StartTimesOut(c)
  \/ StopLooks(c) \/ StopTerminates(c) \/ StopKills(c) \/ Unfiles(c)

Next ==
  \/ \E c \in Calls :
       \/ Ask(c) \/ FileStep(c) \/ ServiceStep(c)
       \/ RunSpawns(c) \/ RunTimesOut(c) \/ RunEnds(c)
       \/ LeaderExits(c) \/ OthersExit(c) \/ Listens(c) \/ OwnerWrites(c)
  \/ NextPod

Spec == Init /\ [][Next]_vars

-----------------------------------------------------------------------------
(* Properties.                                                             *)

Stages ==
  {"new", "asked", "over", "killed", "hash", "temp", "rename", "stat", "make", "rmdir",
   "unlink", "fill", "spawn", "open", "name", "poll", "unfile", "term", "wait", "running"}
Results ==
  {"none", "ok", "failed", "exists", "not_file", "not_found", "conflict", "already-running",
   "listening", "exited", "timeout", "stopped", "nothing", "code", "137"}

CallRecord ==
  [op : Ops \union {"none"}, st : Stages, read : Content \union {Nil}, force : BOOLEAN,
   over : Content \union {Nil}, target : Calls \union {Nil}, res : Results, overlapped : BOOLEAN]

\* Every variable has its type: a write replaces no directory, whatever was there when it
\* looked, and a port is only ever filed under a start.
TypeOK ==
  /\ file \in Content \union {Nil, Dir} /\ stale \subseteq Calls /\ temp \subseteq Calls
  /\ meta \in Calls \union {Nil, Torn} /\ port \in Calls \union {Nil}
  /\ group \in [Calls -> [leader : {"none", "up", "zombie", "reaped"}, rest : BOOLEAN]]
  /\ call \in [Calls -> CallRecord]
  /\ \A c \in Calls : meta = c => call[c].op = "start"

Done(c, op, res) == call[c].st = "over" /\ call[c].op = op /\ call[c].res = res

\* "con expectedSha256, falla con conflict si el archivo cambio desde que se leyo": whoever
\* else works on the file, an accepted write took the place of the content its client had
\* read, or of no file at all; of nothing if it had read none, and did not force it.  Only
\* what happened to the file after the write had compared it is lost unseen.
ReplacesWhatItRead ==
  \A c \in Calls :
    Done(c, "write", "ok") /\ ~call[c].force
      => call[c].over \in {Nil, call[c].read} \/ c \in stale

\* Torn content is only ever seen of an import, in progress, cut short, answered with an
\* error or mixed with another writer; temporary files are only there during a write, or
\* after one that was killed: no failure that a script lives to see leaves one in the
\* owner's project, or a part of a file that it says is whole.
TidyDisk ==
  /\ temp \subseteq {c \in Calls : call[c].op = "write" /\ call[c].st \in {"rename", "killed"}}
  /\ file = Torn =>
       \E c \in Calls :
         /\ call[c].op = "import"
         /\ call[c].st \in {"fill", "killed"} \/ call[c].res = "failed" \/ call[c].overlapped

\* "detenerlo (se mata el grupo entero)": after a stop, whatever overlapped it, nothing of
\* the server's group runs, if its leader was there to be seen alive; a server whose
\* leader exits under its own start may outlive it.
StopIsReal ==
  \A c \in Calls :
    Done(c, "stop", "stopped") /\ group[call[c].target].leader # "reaped"
      => Dead(group[call[c].target])

\* "Cada servidor guarda su pid para poder detenerlo": a server whose leader runs is named
\* by the port's file, so that a stop finds it, unless its start is still at it or was
\* overlapped by another start or stop.
ServerTracked ==
  \A c \in Calls :
    call[c].op = "start" /\ group[c].leader = "up" /\ call[c].st = "over" /\ ~call[c].overlapped
      => meta = c

\* "los procesos en segundo plano no sobreviven al comando": nothing of the group of a
\* command runs once its script has ended, timed out or not, while servers do.
CommandGone == \A c \in Calls : call[c].op = "run" /\ Ended(c) => Dead(group[c])
=============================================================================
