--------------------------- MODULE PodScriptsProofs ---------------------------
(***************************************************************************)
(* What holds of the scripts in a pod whatever the number of calls, which   *)
(* of them are made, and how often the pod is replaced.                     *)
(***************************************************************************)
EXTENDS PodScripts, TLAPS

-----------------------------------------------------------------------------
(* What a step does to the calls.                                          *)

Group == [leader : {"none", "up", "zombie", "reaped"}, rest : BOOLEAN]

\* The type invariant, part by part.
FileType  == file \in Content \union {Nil, Dir}
StaleType == stale \subseteq Calls
TempType  == temp \subseteq Calls
MetaType  == meta \in Calls \union {Nil, Torn}
PortType  == port \in Calls \union {Nil}
GroupType == group \in [Calls -> Group]
CallType  == call \in [Calls -> CallRecord]

\* Where a call may be once it has begun, unless its pod ends.
Later == Stages \ {"new", "asked", "killed"}

\* A client asks; a script begins; it goes on, as the call it is.
Asks(c) ==
  /\ call[c].st = "new"
  /\ \E v \in CallRecord :
       v.op \in Ops /\ v.st = "asked" /\ ~v.overlapped /\ call' = [call EXCEPT ![c] = v]
Begins(c) ==
  /\ call[c].st = "asked"
  /\ \E st \in Later, res \in Results : Begin(c, st, res)
BeginsStop(c) ==
  /\ Asked(c, "stop") /\ meta \in Calls
  /\ call' = [Begun(c, "term", "none") EXCEPT ![c].target = meta]
Moves(c) ==
  /\ Running(c)
  /\ \E v \in CallRecord :
       /\ v.st \in Later /\ v.op = call[c].op /\ v.read = call[c].read /\ v.force = call[c].force
       /\ v.target = call[c].target /\ v.overlapped = call[c].overlapped
       /\ call' = [call EXCEPT ![c] = v]

\* The steps of a call, those of the processes, and those of the commands.
RunStep(c) == RunSpawns(c) \/ RunTimesOut(c) \/ RunEnds(c)
Own(c)     == Ask(c) \/ FileStep(c) \/ ServiceStep(c) \/ RunStep(c)
Process(c) == LeaderExits(c) \/ OthersExit(c) \/ Listens(c)

LEMMA Steps == Next <=> (\E c \in Calls : Own(c) \/ Process(c) \/ OwnerWrites(c)) \/ NextPod
BY DEF Next, Own, Process, RunStep


\* Contents, Nil and Dir are told apart.
LEMMA Apart ==
  /\ Nil # Old /\ Nil # Torn /\ Nil # Dir /\ Old # Torn /\ Old # Dir /\ Torn # Dir
  /\ \A c \in Calls : c # Nil /\ c # Old /\ c # Torn /\ c # Dir
  /\ Nil \notin Content /\ Dir \notin Content
<1>1. \A c \in Calls : c # Nil /\ c # Old /\ c # Torn /\ c # Dir
  BY ConstantsAssumption
<1>2. Nil # Old /\ Nil # Torn /\ Nil # Dir /\ Old # Torn /\ Old # Dir /\ Torn # Dir
  BY ConstantsAssumption
<1> QED  BY <1>1, <1>2 DEF Content

\* A script begins: it is told of those of its kind that run, and they are of it.
Beside(c) == {d \in Calls \ {c} : Running(d) /\ Kind(call[d].op) = Kind(call[c].op)}

Told(c, st, res, d) ==
  IF d = c THEN [call[c] EXCEPT !.st = st, !.res = res, !.overlapped = (Beside(c) # {})]
  ELSE IF d \in Beside(c) THEN [call[d] EXCEPT !.overlapped = TRUE]
  ELSE call[d]

LEMMA BegunShape ==
  ASSUME CallType, NEW c \in Calls, NEW st, NEW res
  PROVE  Begun(c, st, res) = [d \in Calls |-> Told(c, st, res, d)]
<1> DEFINE now == [call EXCEPT ![c].st = st, ![c].res = res, ![c].overlapped = Beside(c) # {}]
<1>1. Begun(c, st, res) = [d \in Calls |-> IF d \in Beside(c) THEN [now[d] EXCEPT !.overlapped = TRUE]
                                           ELSE now[d]]
  BY DEF Begun, Beside
<1>2. c \notin Beside(c)
  BY DEF Beside
<1>3. now[c] = [call[c] EXCEPT !.st = st, !.res = res, !.overlapped = (Beside(c) # {})]
  BY DEF CallType
<1>4. \A d \in Calls \ {c} : now[d] = call[d]
  BY DEF CallType
<1> HIDE DEF now
<1>5. ASSUME NEW d \in Calls
      PROVE  (IF d \in Beside(c) THEN [now[d] EXCEPT !.overlapped = TRUE] ELSE now[d])
               = Told(c, st, res, d)
  BY <1>2, <1>3, <1>4 DEF Told
<1> QED  BY <1>1, <1>5

\* The record of a call after a step of its own, and those of the others.
LEMMA BegunType ==
  ASSUME CallType, NEW c \in Calls, NEW st \in Stages, NEW res \in Results
  PROVE  Begun(c, st, res) \in [Calls -> CallRecord]
<1>1. \A d \in Calls : call[d] \in CallRecord
  BY DEF CallType
<1>2. \A d \in Calls : [call[d] EXCEPT !.overlapped = TRUE] \in CallRecord
  BY <1>1 DEF CallRecord
<1>3. [call[c] EXCEPT !.st = st, !.res = res, !.overlapped = (Beside(c) # {})] \in CallRecord
  BY <1>1 DEF CallRecord
<1>4. \A d \in Calls : Told(c, st, res, d) \in CallRecord
  BY <1>1, <1>2, <1>3 DEF Told
<1> QED  BY <1>4, BegunShape

LEMMA ShapeType ==
  ASSUME CallType, NEW c \in Calls, Asks(c) \/ Begins(c) \/ BeginsStop(c) \/ Moves(c)
  PROVE  CallType'
<1>1. CASE Asks(c)
  BY <1>1 DEF Asks, CallType
<1>2. CASE Begins(c)
  BY <1>2, BegunType DEF Begins, Begin, CallType, Later
<1>3. CASE BeginsStop(c)
  <2>1. Begun(c, "term", "none") \in [Calls -> CallRecord]
    BY BegunType DEF Stages, Results
  <2>2. [Begun(c, "term", "none")[c] EXCEPT !.target = meta] \in CallRecord
    BY <1>3, <2>1 DEF BeginsStop, CallRecord
  <2> QED  BY <1>3, <2>1, <2>2 DEF BeginsStop, CallType
<1>4. CASE Moves(c)
  BY <1>4 DEF Moves, CallType
<1> QED  BY <1>1, <1>2, <1>3, <1>4

\* A script that goes on, or ends.
LEMMA MovesBy ==
  ASSUME CallType, NEW c \in Calls, Running(c), NEW st \in Later, NEW res \in Results,
         \/ Go(c, st) \/ End(c, res)
         \/ call' = [call EXCEPT ![c].res = res]
         \/ call' = [call EXCEPT ![c].st = st, ![c].res = res]
         \/ \E o \in Content \union {Nil} : call' = [call EXCEPT ![c].st = st, ![c].over = o]
  PROVE  Moves(c)
<1>1. call[c] \in CallRecord /\ call[c].st \in Later
  BY DEF CallType, CallRecord, Running, Later
<1>2. st \in Stages /\ "over" \in Later /\ "over" \in Stages
  BY DEF Later, Stages
<1>3. CASE Go(c, st)
  <2> DEFINE v == [call[c] EXCEPT !.st = st]
  <2>1. v \in CallRecord /\ v.st \in Later
    BY <1>1, <1>2 DEF CallRecord
  <2>2. /\ v.op = call[c].op /\ v.read = call[c].read /\ v.force = call[c].force
        /\ v.target = call[c].target /\ v.overlapped = call[c].overlapped
    BY <1>1 DEF CallRecord
  <2>3. call' = [call EXCEPT ![c] = v]
    BY <1>3 DEF Go
  <2> QED  BY <2>1, <2>2, <2>3 DEF Moves
<1>4. CASE End(c, res)
  <2> DEFINE v == [call[c] EXCEPT !.st = "over", !.res = res]
  <2>1. v \in CallRecord /\ v.st \in Later
    BY <1>1, <1>2 DEF CallRecord
  <2>2. /\ v.op = call[c].op /\ v.read = call[c].read /\ v.force = call[c].force
        /\ v.target = call[c].target /\ v.overlapped = call[c].overlapped
    BY <1>1 DEF CallRecord
  <2>3. call' = [call EXCEPT ![c] = v]
    BY <1>4 DEF End
  <2> QED  BY <2>1, <2>2, <2>3 DEF Moves
<1>5. CASE call' = [call EXCEPT ![c].res = res]
  <2> DEFINE v == [call[c] EXCEPT !.res = res]
  <2>1. v \in CallRecord /\ v.st \in Later
    BY <1>1, <1>2 DEF CallRecord
  <2>2. /\ v.op = call[c].op /\ v.read = call[c].read /\ v.force = call[c].force
        /\ v.target = call[c].target /\ v.overlapped = call[c].overlapped
    BY <1>1 DEF CallRecord
  <2>3. call' = [call EXCEPT ![c] = v]
    BY <1>5
  <2> QED  BY <2>1, <2>2, <2>3 DEF Moves
<1>6. CASE call' = [call EXCEPT ![c].st = st, ![c].res = res]
  <2> DEFINE v == [call[c] EXCEPT !.st = st, !.res = res]
  <2>1. v \in CallRecord /\ v.st \in Later
    BY <1>1, <1>2 DEF CallRecord
  <2>2. /\ v.op = call[c].op /\ v.read = call[c].read /\ v.force = call[c].force
        /\ v.target = call[c].target /\ v.overlapped = call[c].overlapped
    BY <1>1 DEF CallRecord
  <2>3. call' = [call EXCEPT ![c] = v]
    BY <1>6
  <2> QED  BY <2>1, <2>2, <2>3 DEF Moves
<1>7. ASSUME NEW o \in Content \union {Nil}, call' = [call EXCEPT ![c].st = st, ![c].over = o]
      PROVE  Moves(c)
  <2> DEFINE v == [call[c] EXCEPT !.st = st, !.over = o]
  <2>1. v \in CallRecord /\ v.st \in Later
    BY <1>1, <1>2 DEF CallRecord
  <2>2. /\ v.op = call[c].op /\ v.read = call[c].read /\ v.force = call[c].force
        /\ v.target = call[c].target /\ v.overlapped = call[c].overlapped
    BY <1>1 DEF CallRecord
  <2>3. call' = [call EXCEPT ![c] = v]
    BY <1>7
  <2> QED  BY <2>1, <2>2, <2>3 DEF Moves
<1> QED  BY <1>3, <1>4, <1>5, <1>6, <1>7

\* A file script, a service script and a command each take one of the four shapes.
LEMMA FileShape ==
  ASSUME FileType, CallType, NEW c \in Calls, FileStep(c)
  PROVE  Begins(c) \/ Moves(c)
<1> USE DEF Asked, At, FileType
<1>1. ASSUME NEW st \in Later, NEW res \in Results, call[c].st = "asked", Begin(c, st, res)
      PROVE  Begins(c)
  BY <1>1 DEF Begins
<1>2. {"over", "temp", "hash", "make", "rmdir", "unlink", "fill", "rename", "stat"} \subseteq Later
  BY DEF Later, Stages
<1>3. {"none", "ok", "failed", "exists", "not_file", "not_found", "conflict"} \subseteq Results
  BY DEF Results
<1>4. CASE WriteLooks(c)
  BY <1>1, <1>2, <1>3, <1>4 DEF WriteLooks, Looks
<1>5. CASE MkdirLooks(c) \/ DeleteLooks(c) \/ ImportOpens(c)
  BY <1>1, <1>2, <1>3, <1>5 DEF MkdirLooks, DeleteLooks, ImportOpens
<1>6. CASE WriteCompares(c) \/ WriteTemp(c) \/ WriteAnswers(c) \/ Mkdir(c) \/ Delete(c) \/ ImportFills(c)
  <2>1. Running(c)
    BY <1>6 DEF WriteCompares, WriteTemp, WriteAnswers, Mkdir, Delete, ImportFills, Running
  <2> QED  BY <1>2, <1>3, <1>6, <2>1, MovesBy
       DEF WriteCompares, WriteTemp, WriteAnswers, Mkdir, Delete, ImportFills
<1>7. CASE WriteRenames(c)
  <2>1. Running(c)
    BY <1>7 DEF WriteRenames, Running
  <2>2. End(c, "failed") \/ (file # Dir /\ call' = [call EXCEPT ![c].st = "stat", ![c].over = file])
    BY <1>7 DEF WriteRenames
  <2>3. file # Dir => file \in Content \union {Nil}
    BY DEF FileType
  <2> QED  BY <1>2, <1>3, <2>1, <2>2, <2>3, MovesBy
<1> QED  BY <1>4, <1>5, <1>6, <1>7 DEF FileStep

LEMMA ServiceShape ==
  ASSUME CallType, NEW c \in Calls, ServiceStep(c)
  PROVE  Begins(c) \/ BeginsStop(c) \/ Moves(c)
<1> USE DEF Asked, At
<1>1. ASSUME NEW st \in Later, NEW res \in Results, call[c].st = "asked", Begin(c, st, res)
      PROVE  Begins(c)
  BY <1>1 DEF Begins
<1>2. {"over", "spawn", "open", "name", "poll", "unfile", "term", "wait"} \subseteq Later
  BY DEF Later, Stages
<1>3. {"none", "already-running", "listening", "exited", "timeout", "stopped", "nothing"} \subseteq Results
  BY DEF Results
<1>4. CASE StartLooks(c) \/ StopLooks(c)
  BY <1>1, <1>2, <1>3, <1>4 DEF StartLooks, StopLooks, BeginsStop
<1>5. CASE \/ StartSpawns(c) \/ StartOpensMeta(c) \/ StartNames(c) \/ StartListening(c)
           \/ StartExited(c) \/ StartTimesOut(c) \/ StopTerminates(c) \/ StopKills(c) \/ Unfiles(c)
  <2>1. Running(c)
    BY <1>5 DEF StartSpawns, StartOpensMeta, StartNames, StartListening, StartExited, StartTimesOut,
         StopTerminates, StopKills, Unfiles, Running
  <2>2. call[c].res \in Results
    BY DEF CallType, CallRecord
  <2> QED  BY <1>2, <1>3, <1>5, <2>1, <2>2, MovesBy
       DEF StartSpawns, StartOpensMeta, StartNames, StartListening, StartExited, StartTimesOut,
           StopTerminates, StopKills, Unfiles
<1> QED  BY <1>4, <1>5 DEF ServiceStep

LEMMA RunShape ==
  ASSUME CallType, NEW c \in Calls, RunStep(c)
  PROVE  Begins(c) \/ Moves(c)
<1>1. {"over", "running"} \subseteq Later /\ {"none", "code", "137"} \subseteq Results
  BY DEF Later, Stages, Results
<1>2. CASE RunSpawns(c)
  BY <1>1, <1>2 DEF RunSpawns, Asked, Begins
<1>3. CASE RunTimesOut(c) \/ RunEnds(c)
  <2>1. Running(c) /\ call[c].res \in Results
    BY <1>3 DEF RunTimesOut, RunEnds, At, Running, CallType, CallRecord
  <2> QED  BY <1>1, <1>3, <2>1, MovesBy DEF RunTimesOut, RunEnds
<1> QED  BY <1>2, <1>3 DEF RunStep

LEMMA AskShape ==
  ASSUME FileType, CallType, NEW c \in Calls, Ask(c)
  PROVE  Asks(c)
<1>1. PICK op \in Ops, e \in {Nil, file} \ {Dir}, f \in BOOLEAN :
        call' = [call EXCEPT ![c] = [NewCall EXCEPT !.op = op, !.st = "asked", !.read = e, !.force = f]]
  BY DEF Ask
<1> DEFINE v == [NewCall EXCEPT !.op = op, !.st = "asked", !.read = e, !.force = f]
<1>2. e \in Content \union {Nil}
  BY DEF FileType
<1>3. v \in CallRecord /\ v.op \in Ops /\ v.st = "asked" /\ ~v.overlapped
  BY <1>2 DEF NewCall, CallRecord, Stages, Results
<1> QED  BY <1>1, <1>3 DEF Asks, Ask

LEMMA OwnShape ==
  ASSUME FileType, CallType, NEW c \in Calls, Own(c)
  PROVE  Asks(c) \/ Begins(c) \/ BeginsStop(c) \/ Moves(c)
BY FileShape, ServiceShape, RunShape, AskShape DEF Own

\* What stays of a call while others take their steps: all of it, but that it may learn
\* that it was overlapped.
Kept(d) ==
  /\ call'[d] \in CallRecord
  /\ call'[d].op = call[d].op /\ call'[d].st = call[d].st /\ call'[d].res = call[d].res
  /\ call'[d].read = call[d].read /\ call'[d].force = call[d].force
  /\ call'[d].over = call[d].over /\ call'[d].target = call[d].target
  /\ call[d].overlapped => call'[d].overlapped
  /\ ~Running(d) => call'[d] = call[d]

LEMMA OthersKept ==
  ASSUME CallType, NEW c \in Calls, NEW d \in Calls \ {c},
         Asks(c) \/ Begins(c) \/ BeginsStop(c) \/ Moves(c)
  PROVE  Kept(d)
<1>0. call[d] \in CallRecord /\ call'[d] \in CallRecord
  BY ShapeType DEF CallType
<1>1. CASE call'[d] = call[d]
  BY <1>0, <1>1 DEF Kept
<1>2. CASE Running(d) /\ call'[d] = [call[d] EXCEPT !.overlapped = TRUE]
  BY <1>0, <1>2 DEF Kept, CallRecord
<1>3. CASE Asks(c) \/ Moves(c)
  BY <1>1, <1>3 DEF Asks, Moves, CallType
<1>4. ASSUME NEW st, NEW res
      PROVE  Begun(c, st, res)[d] = call[d] \/ (Running(d) /\ Begun(c, st, res)[d] = [call[d] EXCEPT !.overlapped = TRUE])
  <2>1. Begun(c, st, res)[d] = Told(c, st, res, d)
    BY BegunShape
  <2>2. d \in Beside(c) => Running(d)
    BY DEF Beside
  <2> QED  BY <2>1, <2>2 DEF Told
<1>5. CASE Begins(c)
  <2>1. PICK st \in Later, res \in Results : call' = Begun(c, st, res)
    BY <1>5 DEF Begins, Begin
  <2> QED  BY <1>1, <1>2, <1>4, <2>1
<1>6. CASE BeginsStop(c)
  <2>1. call'[d] = Begun(c, "term", "none")[d]
    BY <1>6 DEF BeginsStop
  <2> QED  BY <1>1, <1>2, <1>4, <2>1
<1> QED  BY <1>3, <1>5, <1>6

\* What a call keeps when it takes a step of its own.
LEMMA OwnKept ==
  ASSUME CallType, NEW c \in Calls, Asks(c) \/ Begins(c) \/ BeginsStop(c) \/ Moves(c)
  PROVE  /\ call'[c] \in CallRecord
         /\ \/ call[c].st = "new" /\ call'[c].st = "asked" /\ ~call'[c].overlapped
            \/ /\ call[c].st # "new" /\ call'[c].st \in Later
               /\ call'[c].op = call[c].op /\ call'[c].read = call[c].read
               /\ call'[c].force = call[c].force
               /\ call[c].st # "asked" => /\ Running(c)
                                          /\ call'[c].overlapped = call[c].overlapped
                                          /\ call'[c].target = call[c].target
<1>0. call[c] \in CallRecord /\ call'[c] \in CallRecord
  BY ShapeType DEF CallType
<1>1. CASE Asks(c)
  BY <1>0, <1>1 DEF Asks, CallType
<1>2. CASE Begins(c)
  <2>1. PICK st \in Later, res \in Results : call' = Begun(c, st, res)
    BY <1>2 DEF Begins, Begin
  <2>2. call'[c] = [call[c] EXCEPT !.st = st, !.res = res, !.overlapped = (Beside(c) # {})]
    <3>1. call'[c] = Told(c, st, res, c)
      BY <2>1, BegunShape
    <3> QED  BY <3>1, Zenon DEF Told
  <2> QED  BY <1>0, <1>2, <2>2 DEF Begins, CallRecord
<1>3. CASE BeginsStop(c)
  <2>1. Begun(c, "term", "none")[c] =
          [call[c] EXCEPT !.st = "term", !.res = "none", !.overlapped = (Beside(c) # {})]
    <3>1. Begun(c, "term", "none")[c] = Told(c, "term", "none", c)
      BY BegunShape
    <3> QED  BY <3>1, Zenon DEF Told
  <2>2. call'[c] = [Begun(c, "term", "none")[c] EXCEPT !.target = meta]
    BY <1>3, BegunShape DEF BeginsStop
  <2> DEFINE v == Begun(c, "term", "none")[c]
  <2>3. v.st = "term" /\ v.op = call[c].op /\ v.read = call[c].read /\ v.force = call[c].force
    BY <1>0, <2>1 DEF CallRecord
  <2>4. v \in CallRecord
    BY BegunType DEF Stages, Results
  <2> HIDE DEF v
  <2>5. /\ call'[c].st = "term" /\ call'[c].op = call[c].op /\ call'[c].read = call[c].read
        /\ call'[c].force = call[c].force
    BY <2>2, <2>3, <2>4 DEF v, CallRecord
  <2> QED  BY <1>0, <1>3, <2>5 DEF BeginsStop, Asked, Later, Stages
<1>4. CASE Moves(c)
  BY <1>0, <1>4 DEF Moves, CallType, Running
<1> QED  BY <1>1, <1>2, <1>3, <1>4

\* How a script begins: where, with what result; a stop, with its target.
LEMMA BeginsAt ==
  ASSUME CallType, NEW c \in Calls, NEW st, NEW res, Begin(c, st, res)
  PROVE  call'[c].st = st /\ call'[c].res = res
<1>1. call'[c] = Told(c, st, res, c)
  BY BegunShape DEF Begin
<1>2. call'[c] = [call[c] EXCEPT !.st = st, !.res = res, !.overlapped = (Beside(c) # {})]
  BY <1>1, Zenon DEF Told
<1> QED  BY <1>2 DEF CallType, CallRecord

LEMMA BeginsAims ==
  ASSUME CallType, NEW c \in Calls, BeginsStop(c)
  PROVE  call'[c].st = "term" /\ call'[c].target = meta /\ call'[c].op = "stop"
<1> DEFINE v == Begun(c, "term", "none")[c]
<1>1. v = [call[c] EXCEPT !.st = "term", !.res = "none", !.overlapped = (Beside(c) # {})]
  <2>1. v = Told(c, "term", "none", c)
    BY BegunShape
  <2> QED  BY <2>1, Zenon DEF Told
<1>2. v.st = "term" /\ v.op = "stop"
  BY <1>1 DEF BeginsStop, Asked, CallType, CallRecord
<1>3. Begun(c, "term", "none") \in [Calls -> CallRecord]
  BY BegunType DEF Stages, Results
<1>4. v \in CallRecord /\ call'[c] = [v EXCEPT !.target = meta]
  BY <1>3 DEF BeginsStop
<1> HIDE DEF v
<1> QED  BY <1>2, <1>4 DEF CallRecord

-----------------------------------------------------------------------------
(* Types.                                                                  *)

\* The port is filed under a start that has written its pid.  A call that nobody has made
\* has no operation, and one that has not begun was not overlapped.
Filed == \A c \in Calls : meta = c => call[c].op = "start" /\ call[c].st \in {"poll", "unfile", "over"}
Fresh == \A c \in Calls : /\ call[c].st = "new" => call[c].op = "none"
                          /\ call[c].st \in {"new", "asked"} => ~call[c].overlapped

\* A stop has a target from its first step on.
Aimed == \A c \in Calls : call[c].op = "stop" /\ call[c].st \in {"term", "wait", "unfile"} => call[c].target \in Calls

Typed == FileType /\ StaleType /\ TempType /\ MetaType /\ PortType /\ GroupType /\ CallType /\ Filed /\ Fresh

\* The parts imply the type invariant of the module.
LEMMA Parted == Typed => TypeOK
BY DEF Typed, TypeOK, FileType, StaleType, TempType, MetaType, PortType, GroupType, CallType, Filed, Group

\* The initial states have their types.
LEMMA InitType == Init => Typed
<1> SUFFICES ASSUME Init PROVE Typed
  OBVIOUS
<1>1. NewCall \in CallRecord /\ NoGroup \in Group
  BY DEF NewCall, CallRecord, Stages, Results, NoGroup, Group
<1>2. GroupType /\ CallType
  BY <1>1 DEF Init, GroupType, CallType
<1>3. FileType /\ StaleType /\ TempType /\ MetaType /\ PortType
  BY DEF Init, FileType, StaleType, TempType, MetaType, PortType, Content
<1>4. Filed
  BY Apart DEF Init, Filed
<1>5. Fresh
  BY DEF Init, Fresh, NewCall
<1> QED  BY <1>2, <1>3, <1>4, <1>5 DEF Typed

\* The disk is of the file scripts, what runs in the pod of the others.
LEMMA Frames ==
  ASSUME NEW c \in Calls
  PROVE  /\ FileStep(c) => UNCHANGED pod
         /\ Ask(c) => UNCHANGED <<disk, pod>>
         /\ ServiceStep(c) \/ RunStep(c) \/ Process(c) => UNCHANGED disk
         /\ Process(c) => UNCHANGED <<meta, call>>
         /\ RunStep(c) => UNCHANGED meta
<1>1. FileStep(c) => UNCHANGED pod
  BY DEF FileStep, WriteLooks, WriteCompares, WriteTemp, WriteRenames, WriteAnswers, MkdirLooks,
         Mkdir, DeleteLooks, Delete, ImportOpens, ImportFills
<1>2. Ask(c) => UNCHANGED <<disk, pod>>
  BY DEF Ask
<1>3. ServiceStep(c) => UNCHANGED disk
  BY DEF ServiceStep, StartLooks, StartSpawns, StartOpensMeta, StartNames, StartListening,
         StartExited, StartTimesOut, StopLooks, StopTerminates, StopKills, Unfiles
<1>4. (RunStep(c) => UNCHANGED disk /\ UNCHANGED meta) /\ (Process(c) => UNCHANGED disk /\ UNCHANGED <<meta, call>>)
  BY DEF RunStep, RunSpawns, RunTimesOut, RunEnds, Process, LeaderExits, OthersExit, Listens
<1> QED  BY <1>1, <1>2, <1>3, <1>4

\* What a step does to the file makes those stale that have decided about it.
LEMMA Stales ==
  ASSUME NEW c \in Calls, Own(c) \/ OwnerWrites(c)
  PROVE  /\ stale \subseteq stale' /\ stale' \subseteq stale \union Calls
         /\ \A d \in Calls : file' # file /\ Decided(d) /\ (d # c \/ OwnerWrites(c)) => d \in stale'
<1>1. Own(c) => UNCHANGED path \/ \E f : Put(c, f)
  <2>1. FileStep(c) => UNCHANGED path \/ \E f : Put(c, f)
    BY DEF FileStep, WriteLooks, WriteCompares, WriteTemp, WriteRenames, WriteAnswers, MkdirLooks,
           Mkdir, DeleteLooks, Delete, ImportOpens, ImportFills, disk
  <2> QED  BY <2>1, Frames DEF Own, disk
<1>2. OwnerWrites(c) => \E f : Put(Nil, f)
  BY DEF OwnerWrites
<1>3. \A d \in Calls : d # Nil
  BY ConstantsAssumption
<1> QED  BY <1>1, <1>2, <1>3 DEF path, Put

\* A file script leaves a file, a directory or nothing.
LEMMA DiskType ==
  ASSUME FileType, TempType, NEW c \in Calls, FileStep(c)
  PROVE  FileType' /\ TempType'
<1>1. FileType'
  BY DEF FileType, Content, FileStep, WriteLooks, WriteCompares, WriteTemp, WriteRenames,
         WriteAnswers, MkdirLooks, Mkdir, DeleteLooks, Delete, ImportOpens, ImportFills, disk, path, Put
<1>2. TempType'
  BY DEF TempType, FileStep, WriteLooks, WriteCompares, WriteTemp, WriteRenames,
         WriteAnswers, MkdirLooks, Mkdir, DeleteLooks, Delete, ImportOpens, ImportFills, disk
<1> QED  BY <1>1, <1>2

\* The owner's processes leave some content of their own, or nothing: what runs in the pod
\* is the same, and a call only learns of them if it works on files.
LEMMA OwnerKept ==
  ASSUME CallType, NEW c \in Calls, OwnerWrites(c)
  PROVE  /\ UNCHANGED <<temp, meta, group, port>>
         /\ file' \in {c, Nil} /\ CallType'
         /\ \A d \in Calls : Kept(d) /\ (Kind(call[d].op) # "file" => call'[d] = call[d])
<1>1. UNCHANGED <<temp, meta, group, port>> /\ file' \in {c, Nil}
  BY DEF OwnerWrites, pod, Put
<1>2. \A d \in Calls : call[d] \in CallRecord /\ [call[d] EXCEPT !.overlapped = TRUE] \in CallRecord
  BY DEF CallType, CallRecord
<1>3. call' = [d \in Calls |-> IF Running(d) /\ Kind(call[d].op) = "file"
                               THEN [call[d] EXCEPT !.overlapped = TRUE] ELSE call[d]]
  BY DEF OwnerWrites
<1>4. CallType'
  BY <1>2, <1>3 DEF CallType
<1>5. ASSUME NEW d \in Calls
      PROVE  Kept(d) /\ (Kind(call[d].op) # "file" => call'[d] = call[d])
  <2>1. CASE Running(d) /\ call'[d] = [call[d] EXCEPT !.overlapped = TRUE] /\ Kind(call[d].op) = "file"
    BY <1>2, <2>1 DEF Kept, CallRecord
  <2>2. CASE call'[d] = call[d]
    BY <1>2, <2>2 DEF Kept
  <2> QED  BY <1>3, <2>1, <2>2
<1> QED  BY <1>1, <1>4, <1>5

LEMMA OwnerType ==
  ASSUME Typed, Aimed, NEW c \in Calls, OwnerWrites(c)
  PROVE  Typed' /\ Aimed'
<1> USE DEF Typed
<1>1. /\ FileType' /\ StaleType' /\ TempType' /\ MetaType' /\ PortType' /\ GroupType' /\ CallType'
  BY OwnerKept, Stales DEF FileType, StaleType, TempType, MetaType, PortType, GroupType, Content
<1>2. \A d \in Calls : Kept(d)
  BY OwnerKept
<1>3. Filed'
  BY <1>2, OwnerKept DEF Filed, Kept
<1>4. Fresh' /\ Aimed'
  BY <1>2 DEF Fresh, Aimed, Kept, Running
<1> QED  BY <1>1, <1>3, <1>4

\* Groups, as they change: a group that is killed, or told to end.
LEMMA KilledType ==
  ASSUME GroupType, NEW d \in Calls
  PROVE  Killed(d) \in Group /\ Terminated(d) \subseteq Group
<1>1. group[d] \in Group
  BY DEF GroupType
<1>2. Killed(d) \in Group
  BY <1>1 DEF Group, Killed, Died
<1> QED  BY <1>1, <1>2 DEF Terminated, Group

LEMMA BecomesType ==
  ASSUME GroupType, PortType, NEW d \in Calls, NEW g \in Group, Becomes(d, g)
  PROVE  GroupType' /\ PortType'
BY DEF GroupType, PortType, Becomes

LEMMA PodType ==
  ASSUME Typed, Aimed, NEW c \in Calls, ServiceStep(c) \/ RunStep(c) \/ Process(c)
  PROVE  GroupType' /\ PortType' /\ MetaType'
<1> USE DEF Typed
<1>0. group[c] \in Group
  BY DEF GroupType
<1>1. MetaType'
  BY DEF MetaType, ServiceStep, StartLooks, StartSpawns, StartOpensMeta, StartNames, StartListening,
         StartExited, StartTimesOut, StopLooks, StopTerminates, StopKills, Unfiles, Unfile, pod,
         RunStep, RunSpawns, RunTimesOut, RunEnds, Process, LeaderExits, OthersExit, Listens
<1> SUFFICES GroupType' /\ PortType'
  BY <1>1
<1>2. CASE UNCHANGED <<group, port>>
  BY <1>2 DEF GroupType, PortType
<1>3. CASE StartSpawns(c) \/ RunSpawns(c)
  BY <1>3 DEF GroupType, PortType, StartSpawns, RunSpawns, Group
<1>4. CASE StopTerminates(c)
  BY <1>4, KilledType, BecomesType DEF StopTerminates, Aimed, At
<1>5. CASE StopKills(c)
  BY <1>2, <1>5, KilledType, BecomesType DEF StopKills, Aimed, At
<1>6. CASE RunTimesOut(c) \/ RunEnds(c)
  BY <1>6, KilledType, BecomesType DEF RunTimesOut, RunEnds
<1>7. CASE LeaderExits(c)
  <2>1. [group[c] EXCEPT !.leader = Died(c)] \in Group
    BY <1>0 DEF Group, Died
  <2> QED  BY <1>7, <2>1, BecomesType DEF LeaderExits
<1>8. CASE OthersExit(c)
  <2>1. [group[c] EXCEPT !.rest = FALSE] \in Group
    BY <1>0 DEF Group
  <2> QED  BY <1>8, <2>1, BecomesType DEF OthersExit
<1>9. CASE Listens(c)
  BY <1>9 DEF GroupType, PortType, Listens
<1> QED  BY <1>1, <1>2, <1>3, <1>4, <1>5, <1>6, <1>7, <1>8, <1>9
   DEF ServiceStep, StartLooks, StartOpensMeta, StartNames, StartListening, StartExited,
       StartTimesOut, StopLooks, Unfiles, pod, RunStep, Process

\* A start that is filed, and a stop that is aimed at one, are as they were after a step
\* of another call: only a start at its pid file files itself.
LEMMA MetaMoves ==
  ASSUME NEW c \in Calls, Own(c) \/ Process(c)
  PROVE  \/ meta' = meta
         \/ meta' = Torn /\ (StartOpensMeta(c) \/ StartNames(c))
         \/ meta' = Nil /\ (StartNames(c) \/ Unfiles(c))
         \/ meta' = c /\ StartNames(c)
<1>1. CASE StartNames(c)
  BY <1>1 DEF StartNames
<1>2. CASE StartOpensMeta(c) \/ Unfiles(c)
  BY <1>2 DEF StartOpensMeta, Unfiles, Unfile
<1>3. CASE ServiceStep(c) /\ ~StartNames(c) /\ ~StartOpensMeta(c) /\ ~Unfiles(c)
  BY <1>3 DEF ServiceStep, StartLooks, StartSpawns, StartListening, StartExited, StartTimesOut,
       StopLooks, StopTerminates, StopKills, pod
<1> QED  BY <1>1, <1>2, <1>3, Frames DEF Own, pod

\* A pod that is replaced leaves its calls as they are, or dead.
LEMMA NextPodShape ==
  ASSUME CallType, NextPod, NEW c \in Calls
  PROVE  \/ call'[c] = call[c] /\ ~Running(c)
         \/ Running(c) /\ call'[c] = [call[c] EXCEPT !.st = "killed"]
BY DEF NextPod

LEMMA NextPodType ==
  ASSUME Typed, Aimed, NextPod
  PROVE  Typed' /\ Aimed'
<1> USE DEF Typed
<1>1. CallType'
  <2>1. \A c \in Calls : [call[c] EXCEPT !.st = "killed"] \in CallRecord
    BY DEF CallType, CallRecord, Stages
  <2> QED  BY <2>1 DEF NextPod, CallType
<1>2. FileType' /\ StaleType' /\ TempType' /\ MetaType' /\ PortType' /\ GroupType'
  BY DEF NextPod, disk, path, FileType, StaleType, TempType, MetaType, PortType, GroupType, NoGroup, Group
<1>3. Filed'
  BY Apart DEF NextPod, Filed
<1>4. ASSUME NEW c \in Calls PROVE call'[c] = call[c] \/ call'[c].st = "killed"
  BY NextPodShape DEF CallType, CallRecord
<1>5. Fresh' /\ Aimed'
  BY <1>4 DEF Fresh, Aimed
<1> QED  BY <1>1, <1>2, <1>3, <1>5

\* Every step of a call keeps what is filed, fresh and aimed.
LEMMA FiledNext ==
  ASSUME Typed, NEW c \in Calls, Own(c)
  PROVE  Filed'
<1> SUFFICES ASSUME NEW d \in Calls, meta' = d
             PROVE  call'[d].op = "start" /\ call'[d].st \in {"poll", "unfile", "over"}
  BY DEF Filed
<1>0. CallType /\ FileType /\ Filed
  BY DEF Typed
<1>1. Asks(c) \/ Begins(c) \/ BeginsStop(c) \/ Moves(c)
  BY <1>0, OwnShape
<1>2. CASE StartNames(c) /\ d = c
  BY <1>0, <1>2 DEF StartNames, At, Go, CallType, CallRecord
<1>3. CASE meta = d /\ d # c
  BY <1>0, <1>1, <1>3, OthersKept DEF Kept, Filed
<1>4. CASE meta = d /\ d = c
  <2>1. call[c].op = "start" /\ call[c].st \in {"poll", "unfile", "over"}
    BY <1>0, <1>4 DEF Filed
  <2>2. StartListening(c) \/ StartExited(c) \/ StartTimesOut(c) \/ Unfiles(c)
    BY <2>1 DEF Own, Ask, FileStep, WriteLooks, WriteCompares, WriteTemp, WriteRenames, WriteAnswers,
         MkdirLooks, Mkdir, DeleteLooks, Delete, ImportOpens, ImportFills, ServiceStep, StartLooks,
         StartSpawns, StartOpensMeta, StartNames, StopLooks, StopTerminates, StopKills, RunStep,
         RunSpawns, RunTimesOut, RunEnds, Asked, At
  <2>3. call'[c].st \in {"unfile", "over"}
    BY <1>0, <2>2 DEF StartListening, StartExited, StartTimesOut, Unfiles, End, CallType, CallRecord
  <2>4. call'[c].op = call[c].op
    BY <1>0, <1>1, <2>1, OwnKept
  <2> QED  BY <1>4, <2>1, <2>3, <2>4
<1> QED  BY <1>2, <1>3, <1>4, MetaMoves, Apart

LEMMA FreshNext ==
  ASSUME Typed, NEW c \in Calls, Own(c)
  PROVE  Fresh'
<1> SUFFICES ASSUME NEW d \in Calls
             PROVE  /\ call'[d].st = "new" => call'[d].op = "none"
                    /\ call'[d].st \in {"new", "asked"} => ~call'[d].overlapped
  BY DEF Fresh
<1>1. Asks(c) \/ Begins(c) \/ BeginsStop(c) \/ Moves(c)
  BY OwnShape DEF Typed
<1>2. CASE d = c
  BY <1>1, <1>2, OwnKept DEF Typed, Later
<1>3. CASE d # c
  BY <1>1, <1>3, OthersKept DEF Typed, Kept, Fresh, Running
<1> QED  BY <1>2, <1>3

LEMMA AimedNext ==
  ASSUME Typed, Aimed, NEW c \in Calls, Own(c)
  PROVE  Aimed'
<1> SUFFICES ASSUME NEW d \in Calls, call'[d].op = "stop", call'[d].st \in {"term", "wait", "unfile"}
             PROVE  call'[d].target \in Calls
  BY DEF Aimed
<1>0. CallType
  BY DEF Typed
<1>1. Asks(c) \/ Begins(c) \/ BeginsStop(c) \/ Moves(c)
  BY OwnShape DEF Typed
<1>2. CASE d # c
  BY <1>0, <1>1, <1>2, OthersKept DEF Kept, Aimed
<1>3. CASE d = c /\ BeginsStop(c)
  <2>1. Begun(c, "term", "none")[c] \in CallRecord /\ DOMAIN Begun(c, "term", "none") = Calls
    <3>1. Begun(c, "term", "none") \in [Calls -> CallRecord]
      BY <1>0, BegunType DEF Stages, Results
    <3> QED  BY <3>1
  <2> QED  BY <1>3, <2>1 DEF BeginsStop, CallRecord
<1>4. CASE d = c /\ ~BeginsStop(c)
  <2>1. call[c].st # "new" /\ call[c].op = "stop"
    BY <1>0, <1>1, <1>4, OwnKept
  <2>2. StopLooks(c) \/ StopTerminates(c) \/ StopKills(c) \/ Unfiles(c)
    BY <2>1 DEF Own, Ask, FileStep, WriteLooks, WriteCompares, WriteTemp, WriteRenames, WriteAnswers,
         MkdirLooks, Mkdir, DeleteLooks, Delete, ImportOpens, ImportFills, ServiceStep, StartLooks,
         StartSpawns, StartOpensMeta, StartNames, StartListening, StartExited, StartTimesOut, RunStep,
         RunSpawns, RunTimesOut, RunEnds, Asked, At
  <2>3. CASE StopLooks(c)
    <3>1. Begin(c, "over", "nothing")
      BY <1>4, <2>3 DEF StopLooks, BeginsStop
    <3>2. call'[c] = Told(c, "over", "nothing", c)
      BY <1>0, <3>1, BegunShape DEF Begin
    <3>3. call'[c] = [call[c] EXCEPT !.st = "over", !.res = "nothing", !.overlapped = (Beside(c) # {})]
      BY <3>2, Zenon DEF Told
    <3> QED  BY <1>0, <1>4, <3>3 DEF CallType, CallRecord
  <2>4. CASE StopTerminates(c) \/ StopKills(c) \/ Unfiles(c)
    <3>1. call[c].st \in {"term", "wait", "unfile"}
      BY <2>4 DEF StopTerminates, StopKills, Unfiles, At
    <3> QED  BY <1>0, <1>1, <1>4, <2>1, <3>1, OwnKept DEF Aimed
  <2> QED  BY <2>2, <2>3, <2>4
<1> QED  BY <1>2, <1>3, <1>4

\* Every step keeps the types.
LEMMA NextType == Typed /\ Aimed /\ [Next]_vars => Typed' /\ Aimed'
<1> SUFFICES ASSUME Typed, Aimed, [Next]_vars PROVE Typed' /\ Aimed'
  OBVIOUS
<1>1. CASE UNCHANGED vars
  BY <1>1 DEF vars, disk, path, pod, Typed, Aimed, FileType, StaleType, TempType, MetaType, PortType, GroupType,
       CallType, Filed, Fresh
<1>2. CASE NextPod
  BY <1>2, NextPodType
<1>3. CASE \E c \in Calls : Own(c)
  <2>1. PICK c \in Calls : Own(c)
    BY <1>3
  <2>2. CallType'
    BY <2>1, OwnShape, ShapeType DEF Typed
  <2>3. FileType' /\ StaleType' /\ TempType'
    BY <2>1, DiskType, Frames, Stales DEF Typed, Own, disk, path, FileType, StaleType, TempType
  <2>4. GroupType' /\ PortType' /\ MetaType'
    BY <2>1, PodType, Frames DEF Typed, Own, pod, GroupType, PortType, MetaType
  <2> QED  BY <2>1, <2>2, <2>3, <2>4, FiledNext, FreshNext, AimedNext DEF Typed
<1>4. CASE \E c \in Calls : Process(c)
  <2>1. PICK c \in Calls : Process(c)
    BY <1>4
  <2>2. UNCHANGED <<disk, meta, call>>
    BY <2>1, Frames
  <2>3. GroupType' /\ PortType' /\ MetaType'
    BY <2>1, PodType
  <2> QED  BY <2>2, <2>3 DEF disk, path, Typed, Aimed, FileType, StaleType, TempType, CallType, Filed, Fresh
<1>5. CASE \E c \in Calls : OwnerWrites(c)
  BY <1>5, OwnerType
<1> QED  BY <1>1, <1>2, <1>3, <1>4, <1>5, Steps

LEMMA AimedInit == Init => Aimed
BY DEF Init, Aimed, NewCall

LEMMA SpecTyped == Spec => [](Typed /\ Aimed)
BY InitType, AimedInit, NextType, PTL DEF Spec

\* Every variable keeps its type: a write replaces no directory, whatever was there when
\* it looked, and a port is only ever filed under a start.
THEOREM PodTypes == Spec => []TypeOK
BY SpecTyped, Parted, PTL

-----------------------------------------------------------------------------
(* Which step a call takes, and what becomes of the groups.                *)

\* The steps of the operation of a call are its own; one that has ended takes none.
LEMMA WhichStep ==
  ASSUME Fresh, NEW c \in Calls, Own(c)
  PROVE  /\ call[c].st \notin {"over", "killed"}
         /\ call[c].op = "write" => WriteLooks(c) \/ WriteCompares(c) \/ WriteTemp(c) \/ WriteRenames(c)
                                      \/ WriteAnswers(c)
         /\ call[c].op = "import" => ImportOpens(c) \/ ImportFills(c)
         /\ call[c].op = "run" => RunSpawns(c) \/ RunTimesOut(c) \/ RunEnds(c)
         /\ call[c].op = "start" => StartLooks(c) \/ StartSpawns(c) \/ StartOpensMeta(c) \/ StartNames(c)
                                      \/ StartListening(c) \/ StartExited(c) \/ StartTimesOut(c) \/ Unfiles(c)
         /\ call[c].op = "stop" => StopLooks(c) \/ StopTerminates(c) \/ StopKills(c) \/ Unfiles(c)
<1>1. CASE Ask(c)
  BY <1>1 DEF Ask, Fresh
<1>2. CASE FileStep(c)
  BY <1>2 DEF FileStep, WriteLooks, WriteCompares, WriteTemp, WriteRenames, WriteAnswers, MkdirLooks,
       Mkdir, DeleteLooks, Delete, ImportOpens, ImportFills, Asked, At
<1>3. CASE ServiceStep(c)
  BY <1>3 DEF ServiceStep, StartLooks, StartSpawns, StartOpensMeta, StartNames, StartListening,
       StartExited, StartTimesOut, StopLooks, StopTerminates, StopKills, Unfiles, ServiceOps, Asked, At
<1>4. CASE RunStep(c)
  BY <1>4 DEF RunStep, RunSpawns, RunTimesOut, RunEnds, Asked, At
<1> QED  BY <1>1, <1>2, <1>3, <1>4 DEF Own

\* A group of a call that is not its own start only loses processes.
Fades(d) ==
  /\ \/ group'[d].leader = group[d].leader
     \/ group[d].leader = "up" /\ group'[d].leader \in {"zombie", "reaped"}
  /\ group'[d].rest => group[d].rest

LEMMA BecomesFades ==
  ASSUME GroupType, NEW d \in Calls, NEW g \in Terminated(d) \union {Killed(d)}, Becomes(d, g)
  PROVE  \A e \in Calls : Fades(e)
<1>0. group[d] \in Group
  BY DEF GroupType
<1>1. Killed(d).leader \in {group[d].leader} \union {l \in {"zombie", "reaped"} : group[d].leader = "up"}
  BY <1>0 DEF Killed, Group, Died
<1>2. g.leader \in {group[d].leader, Killed(d).leader} /\ (g.rest => group[d].rest)
  <2>1. CASE g = Killed(d)
    <3>1. g.leader = Killed(d).leader /\ ~g.rest
      BY <2>1 DEF Killed
    <3> QED  BY <3>1
  <2>2. CASE g \in Terminated(d)
    <3>1. g.leader \in {group[d].leader, Killed(d).leader} /\ g.rest \in {group[d].rest, FALSE}
      BY <2>2 DEF Terminated
    <3> QED  BY <3>1
  <2> QED  BY <2>1, <2>2
<1>3. group'[d] = g /\ \A e \in Calls \ {d} : group'[e] = group[e]
  BY DEF Becomes, GroupType
<1> QED  BY <1>1, <1>2, <1>3 DEF Fades

LEMMA GroupMoves ==
  ASSUME GroupType, Aimed, NEW c \in Calls, Own(c) \/ Process(c), NEW d \in Calls
  PROVE  Fades(d) \/ (d = c /\ (StartSpawns(c) \/ RunSpawns(c)))
<1>0. group[c] \in Group
  BY DEF GroupType
<1>1. CASE UNCHANGED group
  BY <1>1 DEF Fades
<1>2. CASE (StartSpawns(c) \/ RunSpawns(c)) /\ d # c
  BY <1>2 DEF StartSpawns, RunSpawns, GroupType, Fades
<1>3. CASE StopTerminates(c)
  BY <1>3, BecomesFades DEF StopTerminates, Aimed, At
<1>4. CASE StopKills(c)
  BY <1>1, <1>4, BecomesFades DEF StopKills, Aimed, At
<1>5. CASE RunTimesOut(c) \/ RunEnds(c)
  BY <1>5, BecomesFades DEF RunTimesOut, RunEnds
<1>6. CASE LeaderExits(c)
  <2>1. group' = [group EXCEPT ![c] = [group[c] EXCEPT !.leader = Died(c)]] /\ group[c].leader = "up"
    BY <1>6 DEF LeaderExits, Becomes
  <2>2. group'[c].leader \in {"zombie", "reaped"} /\ group'[c].rest = group[c].rest
    BY <1>0, <2>1 DEF GroupType, Group, Died
  <2>3. \A e \in Calls \ {c} : group'[e] = group[e]
    BY <2>1 DEF GroupType
  <2> QED  BY <2>1, <2>2, <2>3 DEF Fades
<1>7. CASE OthersExit(c)
  <2>1. group' = [group EXCEPT ![c] = [group[c] EXCEPT !.rest = FALSE]]
    BY <1>7 DEF OthersExit, Becomes
  <2>2. group'[c].leader = group[c].leader /\ group'[c].rest = FALSE
    BY <1>0, <2>1 DEF GroupType, Group
  <2>3. \A e \in Calls \ {c} : group'[e] = group[e]
    BY <2>1 DEF GroupType
  <2> QED  BY <2>2, <2>3 DEF Fades
<1>8. Own(c) => \/ UNCHANGED group
                \/ StartSpawns(c) \/ RunSpawns(c) \/ StopTerminates(c) \/ StopKills(c)
                \/ RunTimesOut(c) \/ RunEnds(c)
  BY Frames DEF Own, ServiceStep, StartLooks, StartOpensMeta, StartNames, StartListening, StartExited,
       StartTimesOut, StopLooks, Unfiles, RunStep, pod
<1>9. Process(c) => UNCHANGED group \/ LeaderExits(c) \/ OthersExit(c)
  BY DEF Process, Listens
<1> QED  BY <1>1, <1>2, <1>3, <1>4, <1>5, <1>6, <1>7, <1>8, <1>9

\* The start of a command or a server takes the call on.
LEMMA Spawns ==
  ASSUME CallType, NEW c \in Calls, StartSpawns(c) \/ RunSpawns(c)
  PROVE  /\ \/ call[c].op = "start" /\ call[c].st = "spawn" /\ call'[c].st = "open"
            \/ call[c].op = "run" /\ call[c].st = "asked" /\ call'[c].st = "running"
         /\ GroupType => group'[c].leader = "up"
<1>0. GroupType => group'[c].leader = "up"
  BY DEF StartSpawns, RunSpawns, GroupType
<1>1. CASE StartSpawns(c)
  BY <1>0, <1>1 DEF StartSpawns, At, Go, CallType, CallRecord
<1>2. CASE RunSpawns(c)
  <2>1. call'[c] = Told(c, "running", "none", c)
    BY <1>2, BegunShape DEF RunSpawns, Begin
  <2>2. call'[c] = [call[c] EXCEPT !.st = "running", !.res = "none", !.overlapped = (Beside(c) # {})]
    BY <2>1, Zenon DEF Told
  <2> QED  BY <1>0, <1>2, <2>2 DEF RunSpawns, Asked, CallType, CallRecord
<1> QED  BY <1>1, <1>2

-----------------------------------------------------------------------------
(* The disk.                                                               *)

\* What is torn was opened by an import that is at it, was cut short, has failed, or is
\* mixed with another writer; this and the temporary files together are TidyDisk.
Tearing(c) ==
  /\ call[c].op = "import"
  /\ \/ call[c].st \in {"fill", "killed"} \/ call[c].overlapped
     \/ call[c].st = "over" /\ call[c].res = "failed"
TempTidy == \A c \in temp : call[c].op = "write" /\ call[c].st \in {"rename", "killed"}
TornTidy == file = Torn => \E c \in Calls : Tearing(c)

LEMMA TempNext ==
  ASSUME Typed, TempTidy, NEW c \in Calls, Own(c)
  PROVE  TempTidy'
<1> SUFFICES ASSUME NEW d \in temp' PROVE call'[d].op = "write" /\ call'[d].st \in {"rename", "killed"}
  BY DEF TempTidy
<1>0. CallType /\ FileType /\ TempType /\ TempType' /\ Fresh
  BY DiskType, Frames DEF Typed, Own, disk, path, TempType
<1>1. Asks(c) \/ Begins(c) \/ BeginsStop(c) \/ Moves(c)
  BY <1>0, OwnShape
<1>2. temp' = temp \/ (WriteTemp(c) /\ temp' = temp \union {c}) \/ (WriteRenames(c) /\ temp' = temp \ {c})
  BY Frames DEF Own, FileStep, WriteLooks, WriteCompares, WriteTemp, WriteRenames, WriteAnswers,
       MkdirLooks, Mkdir, DeleteLooks, Delete, ImportOpens, ImportFills, disk, path
<1>3. CASE d # c
  <2>1. d \in temp /\ d \in Calls
    BY <1>0, <1>2, <1>3 DEF TempType
  <2> QED  BY <1>0, <1>1, <1>3, <2>1, OthersKept DEF TempTidy, Kept
<1>4. CASE d = c /\ WriteTemp(c) /\ c \notin temp
  <2>1. Go(c, "rename") /\ call[c].op = "write"
    BY <1>4 DEF WriteTemp, At
  <2> QED  BY <1>0, <1>4, <2>1 DEF Go, CallType, CallRecord
<1>5. CASE d = c /\ c \in temp
  <2>1. WriteRenames(c)
    BY <1>0, <1>5, WhichStep DEF TempTidy, WriteLooks, WriteCompares, WriteTemp, WriteAnswers, Asked, At
  <2>2. temp' = temp \ {c}
    BY <2>1 DEF WriteRenames
  <2> QED  BY <1>5, <2>2
<1> QED  BY <1>2, <1>3, <1>4, <1>5

\* A torn file that an import leaves is one it was not alone with, or could not fill.
LEMMA FillsTearing ==
  ASSUME Typed, NEW c \in Calls, ImportFills(c), file' = Torn
  PROVE  Tearing(c)'
<1>0. CallType /\ FileType /\ call[c] \in CallRecord
  BY DEF Typed, CallType
<1>1. Asks(c) \/ Begins(c) \/ BeginsStop(c) \/ Moves(c)
  BY <1>0, OwnShape DEF Own, FileStep
<1>2. call'[c].op = "import" /\ call'[c].overlapped = call[c].overlapped
  BY <1>0, <1>1, OwnKept DEF ImportFills, At
<1>3. CASE End(c, "failed")
  BY <1>0, <1>2, <1>3 DEF End, CallType, CallRecord, Tearing
<1>4. CASE End(c, "ok") /\ ~call[c].overlapped
  <2> DEFINE mine == file \in Content /\ ~(file \in Calls /\ call[file].op = "write")
  <2>1. (End(c, "ok") /\ \E f \in IF mine THEN {c} ELSE {file} : Put(c, f)) \/ End(c, "failed")
    BY <1>4 DEF ImportFills
  <2>2. ~End(c, "failed")
    BY <1>0, <1>4 DEF End, CallType, CallRecord
  <2>3. file' = (IF mine THEN c ELSE file)
    BY <2>1, <2>2 DEF Put
  <2>4. Torn \in Content /\ Torn \notin Calls /\ c # Torn
    BY Apart DEF Content
  <2> QED  BY <2>3, <2>4
<1>5. CASE call[c].overlapped
  BY <1>2, <1>5 DEF Tearing
<1> QED  BY <1>3, <1>4, <1>5 DEF ImportFills

LEMMA TornNext ==
  ASSUME Typed, TornTidy, NEW c \in Calls, Own(c)
  PROVE  TornTidy'
<1> SUFFICES ASSUME file' = Torn PROVE \E d \in Calls : Tearing(d)'
  BY DEF TornTidy
<1>0. CallType /\ FileType /\ Fresh /\ \A d \in Calls : call[d] \in CallRecord
  BY DEF Typed, CallType
<1>1. Asks(c) \/ Begins(c) \/ BeginsStop(c) \/ Moves(c)
  BY <1>0, OwnShape
<1>2. CASE file # Torn
  <2>1. ImportOpens(c) \/ ImportFills(c)
    BY <1>2, Frames, Apart DEF Own, FileStep, WriteLooks, WriteCompares, WriteTemp, WriteRenames,
         WriteAnswers, MkdirLooks, Mkdir, DeleteLooks, Delete, disk, path, Put
  <2>2. call[c].op = "import" /\ call[c].st # "new" /\ call'[c].op = "import"
    BY <1>0, <1>1, <2>1, OwnKept DEF ImportOpens, ImportFills, Asked, At
  <2>3. CASE ImportOpens(c)
    <3>1. Begin(c, "fill", "none")
      BY <1>2, <2>3 DEF ImportOpens, path
    <3>2. call'[c].st = "fill"
      BY <1>0, <3>1, BeginsAt
    <3> QED  BY <2>2, <3>2 DEF Tearing
  <2>4. CASE ImportFills(c)
    BY <2>4, FillsTearing
  <2> QED  BY <2>1, <2>3, <2>4
<1>3. CASE file = Torn
  <2>1. PICK d \in Calls : Tearing(d)
    BY <1>3 DEF TornTidy
  <2>2. CASE d # c
    BY <1>0, <1>1, <2>1, <2>2, OthersKept DEF Tearing, Kept
  <2>3. CASE d = c
    <3>1. call[c].op = "import" /\ call[c].st \notin {"new", "asked", "killed"}
      BY <1>0, <2>1, <2>3, WhichStep DEF Tearing, Fresh
    <3>2. ImportFills(c)
      BY <1>0, <3>1, WhichStep DEF ImportOpens, Asked
    <3> QED  BY <3>2, FillsTearing
  <2> QED  BY <2>2, <2>3
<1> QED  BY <1>2, <1>3

LEMMA TidyNext == Typed /\ Aimed /\ TempTidy /\ TornTidy /\ [Next]_vars => TempTidy' /\ TornTidy'
<1> SUFFICES ASSUME Typed, TempTidy, TornTidy, [Next]_vars PROVE TempTidy' /\ TornTidy'
  OBVIOUS
<1>1. CASE UNCHANGED <<disk, call>>
  BY <1>1 DEF disk, path, TempTidy, TornTidy, Tearing
<1>2. CASE \E c \in Calls : Own(c)
  BY <1>2, TempNext, TornNext
<1>3. CASE NextPod
  <2>1. UNCHANGED disk
    BY <1>3 DEF NextPod
  <2>2. ASSUME NEW c \in Calls
        PROVE  /\ call'[c].op = call[c].op /\ (call[c].overlapped => call'[c].overlapped)
               /\ (call'[c].st = call[c].st /\ call'[c].res = call[c].res)
                    \/ (Running(c) /\ call'[c].st = "killed")
    <3>1. CallType /\ call[c] \in CallRecord
      BY DEF Typed, CallType
    <3>2. CASE call'[c] = call[c]
      BY <3>2
    <3>3. CASE Running(c) /\ call'[c] = [call[c] EXCEPT !.st = "killed"]
      BY <3>1, <3>3 DEF CallRecord
    <3> QED  BY <1>3, <3>1, <3>2, <3>3, NextPodShape
  <2>3. TempTidy'
    BY <2>1, <2>2 DEF disk, path, Typed, TempType, TempTidy
  <2>4. TornTidy'
    BY <2>1, <2>2 DEF disk, path, TornTidy, Tearing, Running
  <2> QED  BY <2>3, <2>4
<1>4. ASSUME NEW c \in Calls, OwnerWrites(c) PROVE TempTidy' /\ TornTidy'
  <2>1. temp' = temp /\ file' # Torn /\ \A d \in Calls : Kept(d)
    BY <1>4, OwnerKept, Apart DEF Typed
  <2> QED  BY <2>1 DEF Typed, TempType, TempTidy, TornTidy, Kept
<1> QED  BY <1>1, <1>2, <1>3, <1>4, Steps, Frames DEF vars, disk, path

\* No failure that a write lives to see leaves a temporary file in the owner's project, and
\* a file of which only a part is written is always of an import that is at it, was cut
\* short, answered that it failed, or had another writer with it.
THEOREM PodTidyDisk == Spec => []TidyDisk
<1>1. Typed /\ TempTidy /\ TornTidy => TidyDisk
  BY DEF Typed, TempType, TempTidy, TornTidy, Tearing, TidyDisk
<1>2. Init => TempTidy /\ TornTidy
  BY Apart DEF Init, TempTidy, TornTidy
<1> QED  BY <1>1, <1>2, TidyNext, SpecTyped, PTL DEF Spec

-----------------------------------------------------------------------------
(* Processes.                                                              *)

\* A group that is dead stays dead, unless its call starts it.
LEMMA DeadStays ==
  ASSUME NEW d, Fades(d), Dead(group[d])
  PROVE  Dead(group'[d])
BY DEF Fades, Dead

LEMMA NextPodKills ==
  ASSUME NextPod, NEW d \in Calls
  PROVE  Dead(group'[d]) /\ group'[d].leader = "none" /\ ~group'[d].rest
BY DEF NextPod, NoGroup, Dead

LEMMA CommandNext == Typed /\ Aimed /\ CommandGone /\ [Next]_vars => CommandGone'
<1> SUFFICES ASSUME Typed, Aimed, CommandGone, [Next]_vars,
                    NEW d \in Calls, call'[d].op = "run", Ended(d)'
             PROVE  Dead(group'[d])
  BY DEF CommandGone
<1>0. CallType /\ FileType /\ GroupType /\ Fresh
  BY DEF Typed
<1>1. CASE UNCHANGED <<group, call>>
  BY <1>1 DEF CommandGone, Ended
<1>2. CASE NextPod
  BY <1>2, NextPodKills
<1>3. ASSUME NEW c \in Calls, Own(c) \/ Process(c), ~(d = c /\ Own(c)) PROVE Dead(group'[d])
  <2>1. call'[d].op = call[d].op /\ call'[d].st = call[d].st
    BY <1>0, <1>3, OwnShape, OthersKept, Frames DEF Kept
  <2>2. Dead(group[d])
    BY <2>1 DEF CommandGone, Ended
  <2>3. Fades(d)
    BY <1>0, <1>3, GroupMoves DEF Own, ServiceStep, RunStep
  <2> QED  BY <2>2, <2>3, DeadStays
<1>4. CASE Own(d)
  <2>1. Asks(d) \/ Begins(d) \/ BeginsStop(d) \/ Moves(d)
    BY <1>0, <1>4, OwnShape
  <2>2. call'[d].st = "over" /\ call[d].op = "run" /\ call[d].st # "new"
    BY <1>0, <2>1, OwnKept DEF Ended, Later
  <2>3. RunEnds(d)
    <3>1. RunSpawns(d) \/ RunTimesOut(d) \/ RunEnds(d)
      BY <1>0, <1>4, <2>2, WhichStep
    <3>2. ~RunSpawns(d)
      BY <1>0, <2>2, Spawns
    <3>3. ~RunTimesOut(d)
      BY <1>0, <2>2 DEF RunTimesOut, At, CallType, CallRecord
    <3> QED  BY <3>1, <3>2, <3>3
  <2>4. group[d].leader = "reaped" /\ group'[d] = Killed(d)
    BY <1>0, <2>3 DEF RunEnds, Becomes, GroupType
  <2> QED  BY <2>4 DEF Killed, Dead
<1>5. ASSUME NEW c \in Calls, OwnerWrites(c) PROVE Dead(group'[d])
  BY <1>0, <1>5, OwnerKept DEF Kept, CommandGone, Ended
<1> QED  BY <1>1, <1>2, <1>3, <1>4, <1>5, Steps DEF vars, pod

\* "los procesos en segundo plano no sobreviven al comando": nothing of the group of a
\* command runs once its script has ended.
THEOREM PodCommandGone == Spec => []CommandGone
<1>1. Init => CommandGone
  BY DEF Init, CommandGone, Ended, NewCall
<1> QED  BY <1>1, CommandNext, SpecTyped, PTL DEF Spec

\* What a stop has stopped: the target it has from its first step is a start that has
\* written its pid and starts nothing more; once the stop has killed, nothing of the
\* target's group runs unless its leader had been reaped.  A group without a leader is
\* one that was never started.
Stopping(c) == call[c].op = "stop"
               /\ (call[c].st \in {"term", "wait", "unfile"} \/ (call[c].st = "over" /\ call[c].res = "stopped"))
Started(d)  == call[d].op = "start" /\ call[d].st \in {"poll", "unfile", "over", "killed"}
Targets == \A c \in Calls : Stopping(c) => call[c].target \in Calls /\ Started(call[c].target)
Empty   == \A c \in Calls : group[c].leader = "none" => ~group[c].rest
Stopped == \A c \in Calls :
             Stopping(c) /\ call[c].st \in {"unfile", "over"} /\ group[call[c].target].leader # "reaped"
               => Dead(group[call[c].target])

LEMMA StoppingAims == Targets => Aimed
BY DEF Targets, Aimed, Stopping

\* A start that has written its pid only comes to its end.
LEMMA StartedStays ==
  ASSUME Typed, [Next]_vars, NEW d \in Calls, Started(d)
  PROVE  Started(d)' /\ ~StartSpawns(d) /\ ~RunSpawns(d)
<1>0. CallType /\ FileType /\ Fresh
  BY DEF Typed
<1>1. ~StartSpawns(d) /\ ~RunSpawns(d)
  BY DEF Started, StartSpawns, RunSpawns, At, Asked
<1>2. CASE UNCHANGED call
  BY <1>1, <1>2 DEF Started
<1>3. CASE NextPod
  BY <1>0, <1>1, <1>3, NextPodShape DEF Started, CallType, CallRecord
<1>4. ASSUME NEW c \in Calls, Own(c) PROVE Started(d)'
  <2>1. Asks(c) \/ Begins(c) \/ BeginsStop(c) \/ Moves(c)
    BY <1>0, <1>4, OwnShape
  <2>2. CASE d # c
    BY <1>0, <2>1, <2>2, OthersKept DEF Started, Kept
  <2>3. CASE d = c
    <3>1. StartListening(c) \/ StartExited(c) \/ StartTimesOut(c) \/ Unfiles(c)
      BY <1>0, <1>4, <2>3, WhichStep DEF Started, StartLooks, StartSpawns, StartOpensMeta, StartNames,
           Asked, At
    <3>2. call'[c].st \in {"unfile", "over"}
      BY <1>0, <3>1 DEF StartListening, StartExited, StartTimesOut, Unfiles, End, CallType, CallRecord
    <3>3. call'[c].op = call[c].op
      BY <1>0, <2>1, <2>3, OwnKept DEF Started
    <3> QED  BY <2>3, <3>2, <3>3 DEF Started
  <2> QED  BY <2>2, <2>3
<1>5. ASSUME NEW c \in Calls, OwnerWrites(c) PROVE Started(d)'
  BY <1>0, <1>5, OwnerKept DEF Started, Kept
<1> QED  BY <1>1, <1>2, <1>3, <1>4, <1>5, Steps, Frames DEF vars

\* How a call comes to be stopping, and to have stopped.
LEMMA StoppingFrom ==
  ASSUME Typed, [Next]_vars, NEW c \in Calls, Stopping(c)'
  PROVE  \/ /\ Stopping(c) /\ call'[c].target = call[c].target
            /\ call'[c].st \in {"unfile", "over"} => call[c].st \in {"unfile", "over"} \/ StopKills(c)
         \/ BeginsStop(c) /\ call'[c].target = meta /\ call'[c].st = "term"
<1>0. CallType /\ FileType /\ Fresh /\ call[c] \in CallRecord
  BY DEF Typed, CallType
<1>1. CASE call'[c] = call[c]
  BY <1>1 DEF Stopping
<1>2. CASE NextPod
  BY <1>0, <1>1, <1>2, NextPodShape DEF Stopping, CallRecord
<1>3. ASSUME NEW d \in Calls, Own(d), d # c
      PROVE  /\ Stopping(c) /\ call'[c].target = call[c].target
             /\ call'[c].st = call[c].st
  BY <1>0, <1>3, OwnShape, OthersKept DEF Kept, Stopping
<1>4. CASE Own(c)
  <2>1. Asks(c) \/ Begins(c) \/ BeginsStop(c) \/ Moves(c)
    BY <1>0, <1>4, OwnShape
  <2>2. call[c].op = "stop" /\ call[c].st # "new"
    BY <1>0, <2>1, OwnKept DEF Stopping
  <2>3. CASE StopLooks(c) /\ meta \in Calls
    <3>1. BeginsStop(c)
      BY <2>3 DEF StopLooks, BeginsStop
    <3> QED  BY <1>0, <3>1, BeginsAims
  <2>4. ~(StopLooks(c) /\ meta \notin Calls)
    <3> SUFFICES ASSUME StopLooks(c), meta \notin Calls PROVE FALSE
      OBVIOUS
    <3>1. call'[c].st = "over" /\ call'[c].res = "nothing"
      BY <1>0, BeginsAt DEF StopLooks
    <3> QED  BY <3>1 DEF Stopping
  <2>5. CASE StopTerminates(c) \/ StopKills(c) \/ Unfiles(c)
    <3>1. Stopping(c) /\ call[c].st # "asked"
      BY <2>2, <2>5 DEF StopTerminates, StopKills, Unfiles, At, Stopping
    <3>2. call'[c].target = call[c].target
      BY <1>0, <2>1, <2>2, <3>1, OwnKept
    <3>3. StopTerminates(c) => call'[c].st = "wait"
      BY <1>0 DEF StopTerminates, Go, CallType, CallRecord
    <3>4. Unfiles(c) => call[c].st = "unfile"
      BY DEF Unfiles
    <3> QED  BY <2>5, <3>1, <3>2, <3>3, <3>4
  <2> QED  BY <1>0, <1>4, <2>2, <2>3, <2>4, <2>5, WhichStep
<1>5. ASSUME NEW d \in Calls, OwnerWrites(d)
      PROVE  Stopping(c) /\ call'[c].target = call[c].target /\ call'[c].st = call[c].st
  BY <1>0, <1>5, OwnerKept DEF Kept, Stopping
<1> QED  BY <1>1, <1>2, <1>3, <1>4, <1>5, Steps, Frames DEF vars

LEMMA TargetsNext ==
  ASSUME Typed, Targets, [Next]_vars
  PROVE  Targets'
<1> SUFFICES ASSUME NEW c \in Calls, Stopping(c)', NEW d, d = call'[c].target
             PROVE  d \in Calls /\ Started(d)'
  BY DEF Targets, Started
<1>1. CASE Stopping(c) /\ d = call[c].target
  <2>1. d \in Calls /\ Started(d)
    BY <1>1 DEF Targets
  <2> QED  BY <2>1, StartedStays
<1>2. CASE BeginsStop(c) /\ d = meta
  <2>1. d \in Calls /\ Started(d)
    BY <1>2 DEF BeginsStop, Typed, Filed, Started
  <2> QED  BY <2>1, StartedStays
<1> QED  BY <1>1, <1>2, StoppingFrom

LEMMA EmptyNext ==
  ASSUME Typed, Aimed, Empty, [Next]_vars
  PROVE  Empty'
<1> SUFFICES ASSUME NEW d \in Calls, group'[d].leader = "none" PROVE ~group'[d].rest
  BY DEF Empty
<1>1. CASE UNCHANGED group
  BY <1>1 DEF Empty
<1>2. CASE NextPod
  BY <1>2, NextPodKills
<1>3. ASSUME NEW c \in Calls, Own(c) \/ Process(c) PROVE ~group'[d].rest
  <2>1. CASE Fades(d)
    BY <2>1 DEF Fades, Empty
  <2>2. CASE d = c /\ (StartSpawns(c) \/ RunSpawns(c))
    BY <2>2, Spawns DEF Typed
  <2> QED  BY <1>3, <2>1, <2>2, GroupMoves DEF Typed
<1> QED  BY <1>1, <1>2, <1>3, Steps, OwnerKept DEF Typed, vars, pod

LEMMA StoppedNext ==
  ASSUME Typed, Targets, Empty, Stopped, [Next]_vars
  PROVE  Stopped'
<1> SUFFICES ASSUME NEW c \in Calls, Stopping(c)', call'[c].st \in {"unfile", "over"},
                    group'[call'[c].target].leader # "reaped"
             PROVE  Dead(group'[call'[c].target])
  BY DEF Stopped
<1> DEFINE d == call[c].target
<1>1. Stopping(c) /\ call'[c].target = d /\ (call[c].st \in {"unfile", "over"} \/ StopKills(c))
  BY StoppingFrom
<1>2. d \in Calls /\ Started(d) /\ Aimed /\ GroupType /\ group[d] \in Group
  BY <1>1, StoppingAims DEF Targets, Typed, GroupType
<1>3. CASE NextPod
  BY <1>1, <1>2, <1>3, NextPodKills
<1>4. CASE UNCHANGED group
  <2>1. CASE StopKills(c)
    <3>1. ~Alive(d) \/ group'[d] = Killed(d)
      BY <1>2, <2>1 DEF StopKills, Becomes, GroupType
    <3>2. CASE ~Alive(d)
      BY <1>1, <1>2, <1>4, <3>2 DEF Alive, Group, Empty, Dead
    <3>3. CASE group'[d] = Killed(d)
      BY <1>1, <1>2, <3>3 DEF Killed, Died, Dead, Group
    <3> QED  BY <3>1, <3>2, <3>3
  <2>2. CASE call[c].st \in {"unfile", "over"}
    BY <1>1, <1>4, <2>2 DEF Stopped
  <2> QED  BY <1>1, <2>1, <2>2
<1>5. ASSUME NEW b \in Calls, Own(b) \/ Process(b), ~StopKills(c)
      PROVE  Dead(group'[d])
  <2>1. Fades(d)
    BY <1>2, <1>5, GroupMoves, StartedStays
  <2>2. group[d].leader # "reaped"
    BY <1>1, <2>1 DEF Fades
  <2>3. Dead(group[d])
    BY <1>1, <1>5, <2>2 DEF Stopped
  <2> QED  BY <2>1, <2>3, DeadStays
<1>6. CASE StopKills(c) /\ ~UNCHANGED group
  <2>1. group'[d] = Killed(d)
    BY <1>2, <1>6 DEF StopKills, Becomes, GroupType
  <2> QED  BY <1>1, <1>2, <2>1 DEF Killed, Died, Dead, Group
<1> QED  BY <1>1, <1>3, <1>4, <1>5, <1>6, Steps, OwnerKept DEF Typed, vars, pod

\* "detenerlo (se mata el grupo entero)": after a stop nothing of the server's group runs,
\* if its leader was there to be seen alive, whatever overlapped the stop.
THEOREM PodStopIsReal == Spec => []StopIsReal
<1>1. Stopped => StopIsReal
  BY DEF Stopped, Stopping, StopIsReal, Done
<1>2. Init => Targets /\ Empty /\ Stopped
  BY DEF Init, Targets, Empty, Stopped, Stopping, NewCall, NoGroup
<1>3. Typed /\ Aimed /\ Targets /\ Empty /\ Stopped /\ [Next]_vars => Targets' /\ Empty' /\ Stopped'
  BY TargetsNext, EmptyNext, StoppedNext
<1> QED  BY <1>1, <1>2, <1>3, SpecTyped, PTL DEF Spec

-----------------------------------------------------------------------------
(* Scripts that run beside each other.                                     *)

\* Two scripts of a kind that run at the same time have both been overlapped: one of
\* them began while the other one ran.
Pairs == \A c, d \in Calls :
           c # d /\ Running(c) /\ Running(d) /\ Kind(call[c].op) = Kind(call[d].op) => call[c].overlapped

\* The script that begins is told of those beside it, and they are told of it.
LEMMA BeginsTold ==
  ASSUME CallType, NEW c \in Calls, Begins(c) \/ BeginsStop(c)
  PROVE  /\ call'[c].overlapped <=> Beside(c) # {}
         /\ \A d \in Beside(c) : call'[d].overlapped
<1>0. \A d \in Calls : call[d] \in CallRecord
  BY DEF CallType
<1>1. PICK st \in Later, res \in Results :
        \/ call' = Begun(c, st, res)
        \/ call' = [Begun(c, st, res) EXCEPT ![c].target = meta]
  <2>1. "term" \in Later /\ "none" \in Results
    BY DEF Later, Stages, Results
  <2> QED  BY <2>1 DEF Begins, BeginsStop, Begin
<1>2. Begun(c, st, res) \in [Calls -> CallRecord]
  BY BegunType DEF Later
<1>3. ASSUME NEW d \in Calls
      PROVE  call'[d] = Begun(c, st, res)[d] \/ call'[d] = [Begun(c, st, res)[d] EXCEPT !.target = meta]
  BY <1>1, <1>2
<1>4. ASSUME NEW d \in Calls PROVE call'[d].overlapped <=> Begun(c, st, res)[d].overlapped
  <2> DEFINE v == Begun(c, st, res)[d]
  <2>1. v \in CallRecord /\ (call'[d] = v \/ call'[d] = [v EXCEPT !.target = meta])
    BY <1>2, <1>3
  <2> HIDE DEF v
  <2>2. call'[d].overlapped <=> v.overlapped
    BY <2>1 DEF CallRecord
  <2> QED  BY <2>2 DEF v
<1>5. Begun(c, st, res)[c].overlapped <=> Beside(c) # {}
  <2>1. Begun(c, st, res)[c] = Told(c, st, res, c)
    BY BegunShape
  <2>2. Begun(c, st, res)[c] = [call[c] EXCEPT !.st = st, !.res = res, !.overlapped = (Beside(c) # {})]
    BY <2>1, Zenon DEF Told
  <2> QED  BY <1>0, <2>2 DEF CallRecord
<1>6. ASSUME NEW d \in Beside(c) PROVE Begun(c, st, res)[d].overlapped
  <2>1. d \in Calls /\ d # c
    BY DEF Beside
  <2>2. Begun(c, st, res)[d] = Told(c, st, res, d)
    BY <2>1, BegunShape
  <2>3. Begun(c, st, res)[d] = [call[d] EXCEPT !.overlapped = TRUE]
    BY <2>1, <2>2, Zenon DEF Told
  <2> QED  BY <1>0, <2>1, <2>3 DEF CallRecord
<1> QED  BY <1>4, <1>5, <1>6 DEF Beside

LEMMA PairsNext ==
  ASSUME Typed, Pairs, [Next]_vars
  PROVE  Pairs'
<1> SUFFICES ASSUME NEW c \in Calls, NEW d \in Calls, c # d, Running(c)', Running(d)',
                    Kind(call'[c].op) = Kind(call'[d].op)
             PROVE  call'[c].overlapped
  BY DEF Pairs, Kind
<1>0. CallType /\ FileType
  BY DEF Typed
<1>1. CASE UNCHANGED call
  BY <1>1 DEF Pairs, Running
<1>2. CASE NextPod
  BY <1>0, <1>2, NextPodShape DEF Running, CallType, CallRecord
<1>3. ASSUME NEW b \in Calls, Own(b) PROVE call'[c].overlapped
  <2>0. Asks(b) \/ Begins(b) \/ BeginsStop(b) \/ Moves(b)
    BY <1>0, <1>3, OwnShape
  <2>1. ASSUME NEW e \in Calls, e # b
        PROVE  /\ call'[e].op = call[e].op /\ (Running(e)' <=> Running(e))
               /\ call[e].overlapped => call'[e].overlapped
    BY <1>0, <2>0, <2>1, OthersKept DEF Kept, Running
  <2>2. CASE c # b /\ d # b
    BY <2>1, <2>2 DEF Pairs
  <2>3. ASSUME NEW e \in Calls, Running(e)', e = b
        PROVE  call'[e].op = call[e].op /\ (Running(e) \/ Begins(e) \/ BeginsStop(e))
    <3>1. call'[b].op = call[b].op /\ call[b].st # "new"
      BY <1>0, <2>0, <2>3, OwnKept DEF Running
    <3>2. ~Asks(b) /\ (Moves(b) => Running(b))
      BY <3>1 DEF Asks, Moves
    <3> QED  BY <2>0, <2>3, <3>1, <3>2
  <2>4. CASE c = b
    <3>1. Running(d) /\ call'[c].op = call[c].op /\ call'[d].op = call[d].op
      BY <2>1, <2>3, <2>4
    <3>2. CASE Running(c)
      <4>1. call[c].overlapped
        BY <3>1, <3>2 DEF Pairs
      <4> QED  BY <1>0, <2>0, <2>4, <3>2, <4>1, OwnKept DEF Running
    <3>3. CASE Begins(c) \/ BeginsStop(c)
      <4>1. d \in Beside(c)
        BY <3>1 DEF Beside
      <4> QED  BY <1>0, <3>3, <4>1, BeginsTold
    <3> QED  BY <2>3, <2>4, <3>2, <3>3
  <2>5. CASE d = b
    <3>1. Running(c) /\ call'[c].op = call[c].op /\ call'[d].op = call[d].op
      BY <2>1, <2>3, <2>5
    <3>2. CASE Running(d)
      <4>1. call[c].overlapped
        BY <3>1, <3>2 DEF Pairs
      <4> QED  BY <2>1, <2>5, <4>1
    <3>3. CASE Begins(d) \/ BeginsStop(d)
      <4>1. c \in Beside(d)
        BY <3>1 DEF Beside
      <4> QED  BY <1>0, <3>3, <4>1, BeginsTold
    <3> QED  BY <2>3, <2>5, <3>2, <3>3
  <2> QED  BY <2>2, <2>4, <2>5
<1>4. ASSUME NEW b \in Calls, OwnerWrites(b) PROVE call'[c].overlapped
  BY <1>0, <1>4, OwnerKept DEF Kept, Pairs, Running
<1> QED  BY <1>1, <1>2, <1>3, <1>4, Steps, Frames DEF vars

\* While a script runs that nothing overlaps, no other one of its kind takes a step.
LEMMA Alone ==
  ASSUME Typed, Pairs, NEW c \in Calls, Running(c), NEW b \in Calls \ {c}, Own(b),
         ~call'[c].overlapped, call[b].st # "new"
  PROVE  Kind(call[b].op) # Kind(call[c].op)
<1> SUFFICES ASSUME Kind(call[b].op) = Kind(call[c].op) PROVE FALSE
  OBVIOUS
<1>0. CallType /\ FileType
  BY DEF Typed
<1>1. Asks(b) \/ Begins(b) \/ BeginsStop(b) \/ Moves(b)
  BY <1>0, OwnShape
<1>2. ~call[c].overlapped
  BY <1>0, <1>1, OthersKept DEF Kept
<1>3. CASE Running(b)
  BY <1>2, <1>3 DEF Pairs
<1>4. CASE ~Running(b)
  <2>1. Begins(b) \/ BeginsStop(b)
    BY <1>1, <1>4 DEF Asks, Moves
  <2>2. c \in Beside(b)
    BY DEF Beside
  <2> QED  BY <1>0, <2>1, <2>2, BeginsTold
<1> QED  BY <1>3, <1>4

-----------------------------------------------------------------------------
(* What a write replaces.                                                  *)

\* A write that nothing forces, from the moment it has found that it may go on: what is
\* there is what its client had read, or nothing, or it is stale; then what it replaced was.
Careful(c) == call[c].op = "write" /\ ~call[c].force
Faithful(c) ==
  Careful(c) =>
    /\ Decided(c) => file \in {Nil, call[c].read} \/ c \in stale
    /\ call[c].st = "stat" \/ (call[c].st = "over" /\ call[c].res = "ok")
         => call[c].over \in {Nil, call[c].read} \/ c \in stale

\* Whoever changes the file makes it stale.
LEMMA OthersFaithful ==
  ASSUME Typed, NEW c \in Calls, Faithful(c), NEW b \in Calls, (Own(b) /\ b # c) \/ OwnerWrites(b)
  PROVE  Faithful(c)'
<1>0. CallType /\ FileType
  BY DEF Typed
<1>1. Kept(c)
  BY <1>0, OwnShape, OthersKept, OwnerKept
<1>2. stale \subseteq stale' /\ (file' # file /\ Decided(c) => c \in stale')
  BY Stales
<1> QED  BY <1>1, <1>2 DEF Faithful, Careful, Decided, Kept

LEMMA OwnFaithful ==
  ASSUME Typed, NEW c \in Calls, Faithful(c), Own(c)
  PROVE  Faithful(c)'
<1>0. CallType /\ FileType /\ Fresh /\ call[c] \in CallRecord
  BY DEF Typed, CallType
<1> SUFFICES ASSUME Careful(c)' PROVE Faithful(c)'
  BY DEF Faithful, Decided
<1>1. Asks(c) \/ Begins(c) \/ BeginsStop(c) \/ Moves(c)
  BY <1>0, OwnShape
<1>2. CASE call[c].st = "new"
  BY <1>0, <1>1, <1>2, OwnKept DEF Faithful, Decided
<1>3. CASE call[c].st # "new"
  <2>1. Careful(c) /\ call'[c].read = call[c].read /\ stale \subseteq stale'
    BY <1>0, <1>1, <1>3, OwnKept, Stales DEF Careful
  <2>2. CASE WriteLooks(c)
    <3>2. \/ file = Nil /\ Begin(c, "temp", "none")
          \/ \E res \in Results \ {"ok"} : Begin(c, "over", res)
          \/ Begin(c, "hash", "none")
      BY <1>0, <2>1, <2>2 DEF WriteLooks, Looks, Careful, FileType, Results
    <3>3. file' = file
      BY <2>2 DEF WriteLooks, disk, path
    <3>4. \/ file = Nil /\ call'[c].st = "temp"
          \/ call'[c].st = "over" /\ call'[c].res # "ok"
          \/ call'[c].st = "hash"
      BY <1>0, <3>2, BeginsAt
    <3> QED  BY <3>3, <3>4 DEF Faithful, Decided
  <2>4. CASE WriteCompares(c)
    <3>1. file' = file
      BY <2>4 DEF WriteCompares, disk, path
    <3>2. (file = call[c].read /\ Go(c, "temp")) \/ End(c, "failed") \/ End(c, "conflict")
      BY <1>0, <2>4 DEF WriteCompares, FileType
    <3>3. (file = call[c].read /\ call'[c].st = "temp") \/ (call'[c].st = "over" /\ call'[c].res # "ok")
      BY <1>0, <3>2 DEF Go, End, CallType, CallRecord
    <3> QED  BY <2>1, <3>1, <3>3 DEF Faithful, Decided
  <2>5. CASE WriteTemp(c)
    <3>1. file' = file /\ (file \in {Nil, call[c].read} \/ c \in stale)
      BY <2>1, <2>5 DEF WriteTemp, At, Careful, Decided, Faithful, path, pod
    <3>2. call'[c].st = "rename" \/ (call'[c].st = "over" /\ call'[c].res # "ok")
      BY <1>0, <2>5 DEF WriteTemp, Go, End, CallType, CallRecord
    <3> QED  BY <2>1, <3>1, <3>2 DEF Faithful, Decided
  <2>6. CASE WriteRenames(c)
    <3>1. file \in {Nil, call[c].read} \/ c \in stale
      BY <2>1, <2>6 DEF WriteRenames, At, Careful, Decided, Faithful
    <3>2. (call'[c].st = "stat" /\ call'[c].over = file) \/ (call'[c].st = "over" /\ call'[c].res # "ok")
      BY <1>0, <2>6 DEF WriteRenames, End, CallType, CallRecord
    <3> QED  BY <2>1, <3>1, <3>2 DEF Faithful, Decided
  <2>7. CASE WriteAnswers(c)
    <3>1. call[c].over \in {Nil, call[c].read} \/ c \in stale
      BY <2>1, <2>7 DEF WriteAnswers, At, Faithful
    <3>2. call'[c].st = "over" /\ call'[c].over = call[c].over
      BY <1>0, <2>7 DEF WriteAnswers, End, CallType, CallRecord
    <3> QED  BY <2>1, <3>1, <3>2 DEF Faithful, Decided
  <2> QED  BY <1>0, <2>1, <2>2, <2>4, <2>5, <2>6, <2>7, WhichStep DEF Careful
<1> QED  BY <1>2, <1>3

LEMMA FaithfulNext ==
  ASSUME Typed, \A c \in Calls : Faithful(c), [Next]_vars
  PROVE  \A c \in Calls : Faithful(c)'
<1> SUFFICES ASSUME NEW c \in Calls PROVE Faithful(c)'
  OBVIOUS
<1>1. CASE UNCHANGED <<disk, call>>
  BY <1>1 DEF disk, path, Faithful, Careful, Decided
<1>2. CASE NextPod
  <2>1. UNCHANGED path
    BY <1>2 DEF NextPod, disk
  <2>2. call'[c] = call[c] \/ call'[c] = [call[c] EXCEPT !.st = "killed"]
    BY <1>2, NextPodShape DEF Typed
  <2>3. call'[c] = call[c] \/ call'[c].st = "killed"
    BY <2>2 DEF Typed, CallType, CallRecord
  <2> QED  BY <2>1, <2>3 DEF path, Faithful, Careful, Decided
<1>3. CASE \E b \in Calls : Own(b)
  BY <1>3, OwnFaithful, OthersFaithful
<1>4. CASE \E b \in Calls : OwnerWrites(b)
  BY <1>4, OthersFaithful
<1> QED  BY <1>1, <1>2, <1>3, <1>4, Steps, Frames DEF vars, disk, path

\* "con expectedSha256, falla con conflict si el archivo cambio desde que se leyo": whoever
\* else works on the file, scripts or the owner's own processes, a write that was not forced
\* replaced what its client had read, or nothing, unless the file changed between its
\* comparison and its rename.
THEOREM PodReplacesWhatItRead == Spec => []ReplacesWhatItRead
<1>1. (\A c \in Calls : Faithful(c)) => ReplacesWhatItRead
  BY DEF Faithful, Careful, ReplacesWhatItRead, Done
<1>2. Init => \A c \in Calls : Faithful(c)
  BY DEF Init, Faithful, Careful, Decided, NewCall
<1>3. Typed /\ (\A c \in Calls : Faithful(c)) /\ [Next]_vars
        => (\A c \in Calls : Faithful(c))'
  BY FaithfulNext
<1> QED  BY <1>1, <1>2, <1>3, SpecTyped, PTL DEF Spec

-----------------------------------------------------------------------------
(* The servers that are up.                                                *)

\* A call that has not begun has no group.
Grounded == \A c \in Calls : call[c].st \in {"new", "asked"} => group[c].leader = "none"

\* A start that no other start or stop overlaps: once its pid file is open only it writes
\* there, and from then on the file names the server for as long as its leader runs.  When
\* the start is over, no start gets past the look at the file, and a stop that runs is
\* on its way to kill this server; only after that does it remove the file.
StopsIt(d, c) ==
  Running(d) /\ Kind(call[d].op) = "service"
    => call[d].op = "stop" /\ call[d].target = c /\ call[d].st # "unfile"
Tracked(c) ==
  call[c].op = "start" =>
    /\ call[c].st = "unfile" => group[c].leader # "up"
    /\ ~call[c].overlapped =>
         /\ call[c].st = "name" => meta = Torn
         /\ call[c].st \in {"poll", "over"} /\ group[c].leader = "up" => meta = c
         /\ call[c].st = "over" /\ group[c].leader = "up" => \A d \in Calls \ {c} : StopsIt(d, c)

LEMMA GroundedNext ==
  ASSUME Typed, Aimed, Grounded, [Next]_vars
  PROVE  Grounded'
<1> SUFFICES ASSUME NEW d \in Calls, call'[d].st \in {"new", "asked"} PROVE group'[d].leader = "none"
  BY DEF Grounded
<1>0. CallType /\ FileType /\ GroupType
  BY DEF Typed
<1>1. CASE UNCHANGED <<call, group>>
  BY <1>1 DEF Grounded
<1>2. CASE NextPod
  BY <1>2, NextPodKills
<1>3. ASSUME NEW c \in Calls, Own(c) \/ Process(c) PROVE group'[d].leader = "none"
  <2>1. call[d].st \in {"new", "asked"} /\ ~(d = c /\ (StartSpawns(c) \/ RunSpawns(c)))
    <3>1. CASE Process(c)
      BY <1>0, <3>1, Frames, Spawns DEF Running
    <3>2. CASE Own(c) /\ d = c
      BY <1>0, <3>2, OwnShape, OwnKept, Spawns DEF Later
    <3>3. CASE Own(c) /\ d # c
      BY <1>0, <3>3, OwnShape, OthersKept DEF Kept
    <3> QED  BY <1>3, <3>1, <3>2, <3>3
  <2>2. Fades(d)
    BY <1>0, <1>3, <2>1, GroupMoves
  <2> QED  BY <2>1, <2>2 DEF Grounded, Fades
<1>4. ASSUME NEW c \in Calls, OwnerWrites(c) PROVE group'[d].leader = "none"
  BY <1>0, <1>4, OwnerKept DEF Kept, Grounded
<1> QED  BY <1>1, <1>2, <1>3, <1>4, Steps DEF vars, pod

\* The pid file changes by the steps of starts and stops that have begun.
LEMMA MetaMover ==
  ASSUME NEW b \in Calls, Own(b), meta' # meta
  PROVE  /\ Running(b) /\ Kind(call[b].op) = "service"
         /\ call[b].op = "stop" => call[b].st = "unfile"
<1>1. StartOpensMeta(b) \/ StartNames(b) \/ Unfiles(b)
  BY MetaMoves
<1>2. Running(b) /\ call[b].op \in ServiceOps
  BY <1>1 DEF StartOpensMeta, StartNames, Unfiles, At, Running, ServiceOps
<1>3. call[b].op = "stop" => call[b].st = "unfile"
  BY <1>1 DEF StartOpensMeta, StartNames, Unfiles, At
<1> QED  BY <1>2, <1>3 DEF Kind, FileOps, ServiceOps

\* What the step of another call leaves of a server that is up.
LEMMA OthersStop ==
  ASSUME Typed, Aimed, NEW c \in Calls, meta = c, NEW b \in Calls \ {c}, Own(b), StopsIt(b, c),
         group[c].leader = "up", group'[c].leader = "up"
  PROVE  StopsIt(b, c)'
<1> SUFFICES ASSUME Running(b)', Kind(call'[b].op) = "service"
             PROVE  call'[b].op = "stop" /\ call'[b].target = c /\ call'[b].st # "unfile"
  BY DEF StopsIt, Kind
<1>0. CallType /\ FileType /\ GroupType /\ Fresh
  BY DEF Typed
<1>1. Asks(b) \/ Begins(b) \/ BeginsStop(b) \/ Moves(b)
  BY <1>0, OwnShape
<1>2. call'[b].op = call[b].op /\ call[b].st # "new"
  BY <1>0, <1>1, OwnKept DEF Running
<1>3. call[b].op \in {"start", "stop"} /\ Alive(c)
  BY <1>2 DEF Kind, ServiceOps, Alive
<1>4. CASE Running(b)
  <2>1. call[b].op = "stop" /\ call[b].target = c /\ call[b].st # "unfile"
    BY <1>2, <1>4 DEF StopsIt
  <2>2. StopTerminates(b) \/ StopKills(b)
    BY <1>0, <1>4, <2>1, WhichStep DEF StopLooks, Asked, Unfiles, Running
  <2>3. ~StopKills(b)
    <3> SUFFICES ASSUME StopKills(b) PROVE FALSE
      OBVIOUS
    <3>1. group'[c] = Killed(c)
      BY <1>0, <1>3, <2>1 DEF StopKills, Becomes, GroupType
    <3> QED  BY <3>1 DEF Killed, Died
  <2>4. call'[b].st = "wait" /\ call'[b].target = c
    BY <1>0, <2>1, <2>2, <2>3 DEF StopTerminates, Go, CallType, CallRecord
  <2> QED  BY <1>2, <2>1, <2>4
<1>5. CASE call[b].st = "asked"
  <2>1. StartLooks(b) \/ StopLooks(b)
    BY <1>0, <1>3, <1>5, WhichStep DEF StartSpawns, StartOpensMeta, StartNames, StartListening, StartExited,
         StartTimesOut, StopTerminates, StopKills, Unfiles, At
  <2>2. ~StartLooks(b)
    BY <1>0, <1>3, BeginsAt DEF StartLooks, Running
  <2>3. BeginsStop(b)
    BY <2>1, <2>2 DEF StopLooks, BeginsStop
  <2> QED  BY <1>0, <2>3, BeginsAims
<1> QED  BY <1>0, <1>2, <1>4, <1>5, WhichStep DEF Running

LEMMA OthersTracked ==
  ASSUME Typed, Aimed, Pairs, NEW c \in Calls, Tracked(c), NEW b \in Calls \ {c}, Own(b)
  PROVE  Tracked(c)'
<1>0. CallType /\ FileType /\ GroupType
  BY DEF Typed
<1>1. Asks(b) \/ Begins(b) \/ BeginsStop(b) \/ Moves(b)
  BY <1>0, OwnShape
<1>2. \A d \in Calls \ {b} : Kept(d)
  BY <1>0, <1>1, OthersKept
<1>3. group'[c].leader = "up" => group[c].leader = "up"
  BY <1>0, GroupMoves DEF Fades
<1>4. call'[c].op = call[c].op /\ call'[c].st = call[c].st /\ (call[c].overlapped => call'[c].overlapped)
  BY <1>2 DEF Kept
<1> SUFFICES ASSUME call[c].op = "start", ~call'[c].overlapped
             PROVE  /\ call[c].st = "name" => meta' = Torn
                    /\ call[c].st \in {"poll", "over"} /\ group'[c].leader = "up" => meta' = c
                    /\ call[c].st = "over" /\ group'[c].leader = "up" => \A d \in Calls \ {c} : StopsIt(d, c)'
  BY <1>3, <1>4 DEF Tracked
<1>5. CASE Running(c)
  <2>1. meta' = meta
    <3> SUFFICES ASSUME meta' # meta PROVE FALSE
      OBVIOUS
    <3>1. Running(b) /\ Kind(call[b].op) = "service"
      BY MetaMover
    <3>2. Kind(call[c].op) = "service"
      BY DEF Kind, FileOps, ServiceOps
    <3> QED  BY <1>5, <3>1, <3>2, Alone DEF Running
  <2> QED  BY <1>3, <1>4, <1>5, <2>1 DEF Tracked, Running
<1>6. CASE call[c].st = "over" /\ group'[c].leader = "up"
  <2>1. group[c].leader = "up" /\ meta = c /\ \A d \in Calls \ {c} : StopsIt(d, c)
    BY <1>3, <1>4, <1>6 DEF Tracked
  <2>2. meta' = meta
    <3> SUFFICES ASSUME meta' # meta PROVE FALSE
      OBVIOUS
    <3>1. Running(b) /\ Kind(call[b].op) = "service" /\ (call[b].op = "stop" => call[b].st = "unfile")
      BY MetaMover
    <3> QED  BY <2>1, <3>1 DEF StopsIt
  <2>3. ASSUME NEW d \in Calls \ {c, b} PROVE StopsIt(d, c)'
    BY <1>2, <2>1 DEF Kept, StopsIt, Running
  <2>4. StopsIt(b, c)'
    BY <1>6, <2>1, OthersStop
  <2> QED  BY <1>6, <2>1, <2>2, <2>3, <2>4
<1> QED  BY <1>5, <1>6 DEF Running

LEMMA OwnTracked ==
  ASSUME Typed, Aimed, Pairs, Grounded, NEW c \in Calls, Tracked(c), Own(c)
  PROVE  Tracked(c)'
<1>0. CallType /\ FileType /\ GroupType /\ Fresh /\ call[c] \in CallRecord
  BY DEF Typed, CallType
<1> SUFFICES ASSUME call'[c].op = "start" PROVE Tracked(c)'
  BY DEF Tracked
<1>1. Asks(c) \/ Begins(c) \/ BeginsStop(c) \/ Moves(c)
  BY <1>0, OwnShape
<1>2. CASE call[c].st = "new"
  BY <1>0, <1>1, <1>2, OwnKept DEF Tracked
<1>3. CASE call[c].st # "new"
  <2>1. /\ call[c].op = "start"
        /\ call[c].st # "asked" => Running(c) /\ call'[c].overlapped = call[c].overlapped
    BY <1>0, <1>1, <1>3, OwnKept
  <2>2. CASE StartLooks(c)
    <3>1. group' = group /\ group[c].leader = "none"
      BY <2>2 DEF StartLooks, Asked, Grounded, pod
    <3>2. call'[c].st \in {"over", "spawn"}
      BY <1>0, <2>2, BeginsAt DEF StartLooks
    <3> QED  BY <3>1, <3>2 DEF Tracked
  <2>3. CASE StartSpawns(c)
    BY <1>0, <2>3, Spawns DEF Tracked
  <2>4. CASE StartOpensMeta(c)
    <3>1. meta' = Torn /\ call'[c].st = "name"
      BY <1>0, <2>4 DEF StartOpensMeta, Go, CallType, CallRecord
    <3> QED  BY <3>1 DEF Tracked
  <2>5. CASE StartNames(c)
    <3>1. call[c].st = "name" /\ call'[c].st = "poll" /\ call'[c].overlapped = call[c].overlapped
      BY <1>0, <2>1, <2>5 DEF StartNames, At, Go, CallType, CallRecord
    <3>2. ~call[c].overlapped => meta' = c
      BY <2>1, <2>5, <3>1, Apart DEF StartNames, Tracked
    <3> QED  BY <3>1, <3>2 DEF Tracked
  <2>6. CASE StartListening(c) \/ StartTimesOut(c)
    <3>1. call[c].st = "poll" /\ call'[c].st = "over" /\ meta' = meta /\ group' = group
      BY <1>0, <2>6 DEF StartListening, StartTimesOut, At, End, CallType, CallRecord, pod
    <3>2. Running(c) /\ call'[c].overlapped = call[c].overlapped
      BY <2>1, <3>1
    <3>3. ASSUME ~call[c].overlapped, NEW d \in Calls \ {c} PROVE StopsIt(d, c)'
      <4>1. Kept(d)
        BY <1>0, <1>1, OthersKept
      <4>2. ~(Running(d) /\ Kind(call[d].op) = "service")
        BY <2>1, <3>2, <3>3 DEF Pairs, Kind, FileOps, ServiceOps
      <4> QED  BY <4>1, <4>2 DEF Kept, StopsIt, Running
    <3> QED  BY <2>1, <3>1, <3>2, <3>3 DEF Tracked
  <2>7. CASE StartExited(c)
    <3>1. call'[c].st = "unfile" /\ group' = group /\ group[c].leader = "reaped"
      BY <1>0, <2>7 DEF StartExited, CallType, CallRecord, pod
    <3> QED  BY <3>1 DEF Tracked
  <2>8. CASE Unfiles(c)
    <3>1. call[c].st = "unfile" /\ call'[c].st = "over" /\ group' = group
      BY <1>0, <2>8 DEF Unfiles, End, CallType, CallRecord
    <3>2. group'[c].leader # "up"
      BY <2>1, <3>1 DEF Tracked
    <3> QED  BY <3>1, <3>2 DEF Tracked
  <2> QED  BY <1>0, <2>1, <2>2, <2>3, <2>4, <2>5, <2>6, <2>7, <2>8, WhichStep
<1> QED  BY <1>2, <1>3

LEMMA TrackedNext ==
  ASSUME Typed, Aimed, Pairs, Grounded, \A c \in Calls : Tracked(c), [Next]_vars
  PROVE  \A c \in Calls : Tracked(c)'
<1> SUFFICES ASSUME NEW c \in Calls PROVE Tracked(c)'
  OBVIOUS
<1>1. CASE UNCHANGED vars
  BY <1>1 DEF vars, Tracked, StopsIt, Running
<1>2. CASE NextPod
  <2>1. group'[c].leader = "none"
    BY <1>2, NextPodKills
  <2>2. call'[c].st # "name"
    BY <1>2, NextPodShape DEF Typed, CallType, CallRecord, Running
  <2> QED  BY <2>1, <2>2 DEF Tracked
<1>3. ASSUME NEW b \in Calls, Process(b) PROVE Tracked(c)'
  <2>1. UNCHANGED <<meta, call>>
    BY <1>3, Frames
  <2>2. group'[c].leader = "up" => group[c].leader = "up"
    <3>1. ~StartSpawns(b) /\ ~RunSpawns(b)
      BY <2>1, Spawns DEF Typed
    <3> QED  BY <1>3, <3>1, GroupMoves DEF Typed, Fades
  <2> QED  BY <2>1, <2>2 DEF Tracked, StopsIt, Running
<1>4. CASE \E b \in Calls : Own(b)
  BY <1>4, OwnTracked, OthersTracked
<1>5. ASSUME NEW b \in Calls, OwnerWrites(b) PROVE Tracked(c)'
  <2>1. UNCHANGED <<meta, group>> /\ \A d \in Calls : Kept(d)
    BY <1>5, OwnerKept DEF Typed
  <2> QED  BY <2>1 DEF Tracked, StopsIt, Running, Kept
<1> QED  BY <1>1, <1>2, <1>3, <1>4, <1>5, Steps

\* "Cada servidor guarda su pid para poder detenerlo": a server whose leader runs is named
\* by the port's file once its start is over, unless another start or stop overlapped it.
THEOREM PodServerTracked == Spec => []ServerTracked
<1>1. (\A c \in Calls : Tracked(c)) => ServerTracked
  BY DEF Tracked, ServerTracked
<1>2. Init => Pairs /\ Grounded /\ \A c \in Calls : Tracked(c)
  BY DEF Init, Pairs, Running, Grounded, Tracked, NewCall, NoGroup
<1>3. Typed /\ Aimed /\ Pairs /\ Grounded /\ (\A c \in Calls : Tracked(c)) /\ [Next]_vars
        => Pairs' /\ Grounded' /\ (\A c \in Calls : Tracked(c))'
  BY PairsNext, GroundedNext, TrackedNext
<1> QED  BY <1>1, <1>2, <1>3, SpecTyped, PTL DEF Spec
==============================================================================
