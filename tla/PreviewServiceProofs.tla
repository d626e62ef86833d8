------------------------- MODULE PreviewServiceProofs -------------------------
(***************************************************************************)
(* What holds of preview services whatever the number of requests, the      *)
(* lengths of lives and extensions, and the failures and restarts.          *)
(***************************************************************************)
EXTENDS PreviewService, FiniteSetTheorems, TLAPS

-----------------------------------------------------------------------------
(* Types.                                                                  *)

\* The type invariant, part by part.
JobType     == job \in [Handlers -> Job]
PodType     == pod \in [Services -> [phase : {"none", "up", "dying"}, born : Nat, expiry : Nat]]
ObjType     == objs \in [Services -> SUBSET Objects]
KindType    == kind \in [Services -> SUBSET Objects]
BoundType   == bound \subseteq {s \in Services : "secret" \in objs[s]}
TimeType    == now \in 0 .. MaxTime
UsedType    == /\ errors \in Nat /\ slips \in Nat /\ crashes \in Nat
               /\ errors + slips + crashes <= MaxTroubles
HistoryType == raced \in BOOLEAN /\ cut \subseteq Services

\* What a service is made of, apart from the handlers.
ClusterType == PodType /\ ObjType /\ BoundType

Typed == JobType /\ ClusterType /\ KindType /\ TimeType /\ UsedType /\ HistoryType

\* The parts are together the type invariant of the module.
LEMMA Parted == TypeOK <=> Typed
BY DEF Typed, TypeOK, JobType, PodType, ObjType, KindType, BoundType, TimeType, UsedType,
       HistoryType, ClusterType

\* An idle handler.
LEMMA BlankType == Blank \in Job
BY DEF Blank, Job, Services, Over, Calls, Objects

\* A request is answered.
LEMMA GoType ==
  ASSUME JobType, NEW h \in Handlers, NEW l \in Over, Go(h, l)
  PROVE  JobType'
<1>1. job[h] \in Job
  BY DEF JobType
<1>2. [Blank EXCEPT !.pc = l, !.op = job[h].op, !.svc = job[h].svc] \in Job
  BY <1>1, BlankType DEF Job, Blank
<1> QED  BY <1>2 DEF JobType, Go

\* A handler begins to stop a service.
LEMMA BeginStopType ==
  ASSUME JobType, NEW h \in Handlers, NEW s \in Services, NEW l \in {"done", "failed", "sweep"}
  PROVE  BeginStop(h, s, l) \in Job
<1>1. job[h] \in Job
  BY DEF JobType
<1>2. StopCalls \in SUBSET Calls
  BY ConstantsAssumption DEF StopCalls, Calls, Objects
<1> QED  BY <1>1, <1>2, BlankType DEF BeginStop, Job, Blank

\* The troubles stay within their bound.
LEMMA TroubleType ==
  ASSUME UsedType, Throws \/ Slips \/ UNCHANGED used
  PROVE  UsedType'
BY ConstantsAssumption DEF UsedType, Throws, Slips, Trouble, used

\* A call that creates, or deletes, something keeps the cluster typed.
LEMMA CreateType ==
  ASSUME ClusterType, TimeType, NEW s \in Services, NEW o \in Calls, NEW t \in Nat,
         ~Untied(s, o), Create(s, o, t)
  PROVE  ClusterType'
<1>1. now \in Nat
  BY ConstantsAssumption DEF TimeType
<1>2. NewPod(t) \in [phase : {"none", "up", "dying"}, born : Nat, expiry : Nat]
  BY <1>1 DEF NewPod
<1>3. PodType'
  BY <1>2 DEF ClusterType, PodType, Create
<1>4. ObjType'
  BY DEF ClusterType, ObjType, Create
<1>5. BoundType'
  BY DEF ClusterType, ObjType, BoundType, Create, Untied
<1> QED  BY <1>3, <1>4, <1>5 DEF ClusterType

\* A delete leaves the cluster with its types, and takes an owner along with its Secret.
LEMMA DeleteType ==
  ASSUME ClusterType, NEW s \in Services, NEW o \in Calls, Delete(s, o)
  PROVE  ClusterType'
<1>1. PodType'
  BY DEF ClusterType, PodType, Delete
<1>2. ObjType'
  BY DEF ClusterType, ObjType, Delete
<1>3. BoundType'
  BY DEF ClusterType, ObjType, BoundType, Delete
<1> QED  BY <1>1, <1>2, <1>3 DEF ClusterType

\* What a step leaves alone stays typed.
LEMMA Rest ==
  /\ ClusterType /\ UNCHANGED cluster => ClusterType'
  /\ KindType /\ UNCHANGED kind => KindType'
  /\ TimeType /\ UNCHANGED now => TimeType'
  /\ UsedType /\ UNCHANGED used => UsedType'
  /\ HistoryType /\ UNCHANGED history => HistoryType'
  /\ JobType /\ UNCHANGED job => JobType'
<1>1. ClusterType /\ UNCHANGED cluster => ClusterType'
  BY DEF ClusterType, PodType, ObjType, BoundType, cluster
<1>2. KindType /\ UNCHANGED kind => KindType'
  BY DEF KindType
<1>3. TimeType /\ UNCHANGED now => TimeType'
  BY DEF TimeType
<1>4. UsedType /\ UNCHANGED used => UsedType'
  BY DEF UsedType, used
<1>5. HistoryType /\ UNCHANGED history => HistoryType'
  BY DEF HistoryType, history
<1>6. JobType /\ UNCHANGED job => JobType'
  BY DEF JobType
<1> QED  BY <1>1, <1>2, <1>3, <1>4, <1>5, <1>6

\* The initial states have their types.
LEMMA InitType == Init => Typed
<1> SUFFICES ASSUME Init PROVE Typed
  OBVIOUS
<1>1. Parts \in SUBSET Objects
  BY ConstantsAssumption DEF Objects
<1>2. KindType /\ ObjType
  BY <1>1 DEF Init, KindType, ObjType
<1>3. PodType
  BY ConstantsAssumption DEF Init, PodType, NoPod
<1>4. BoundType
  BY <1>2 DEF Init, BoundType, Services
<1>5. JobType
  BY BlankType DEF Init, JobType
<1>6. TimeType
  BY ConstantsAssumption DEF Init, TimeType
<1>7. UsedType
  BY ConstantsAssumption DEF Init, UsedType
<1>8. HistoryType
  BY Zenon DEF Init, HistoryType
<1> QED  BY <1>2, <1>3, <1>4, <1>5, <1>6, <1>7, <1>8 DEF ClusterType, Typed

\* A request arrives.
LEMMA ArriveType ==
  ASSUME Typed, NEW r \in Requests, Arrive(r)
  PROVE  Typed'
<1>1. JobType /\ ClusterType /\ KindType /\ TimeType /\ UsedType /\ HistoryType
  BY DEF Typed
<1>2. r \in Handlers /\ r \in Services
  BY DEF Handlers, Services
<1>3. Known \subseteq Services
  BY DEF Known, Listed, Services
<1>4. CASE ArriveStart(r)
  <2>1. PICK k \in Kinds, t \in Periods :
          /\ kind' = [kind EXCEPT ![r] = k]
          /\ job' = [job EXCEPT ![r] =
               [Blank EXCEPT !.pc = "count", !.op = "start", !.svc = r, !.until = Lifetime(t)]]
    BY <1>4 DEF ArriveStart
  <2>2. k \in SUBSET Objects
    BY ConstantsAssumption DEF Kinds, Objects
  <2>3. Lifetime(t) \in Nat
    BY ConstantsAssumption DEF Lifetime, Least
  <2>4. [Blank EXCEPT !.pc = "count", !.op = "start", !.svc = r, !.until = Lifetime(t)] \in Job
    BY <1>2, <2>3, BlankType DEF Job, Blank
  <2>5. JobType'
    BY <1>1, <2>1, <2>4 DEF JobType
  <2>6. KindType'
    BY <1>1, <2>1, <2>2 DEF KindType
  <2>7. UNCHANGED <<cluster, now, used, history>>
    BY <1>4 DEF ArriveStart
  <2> QED  BY <1>1, <2>5, <2>6, <2>7, Rest DEF Typed
<1>5. CASE ArriveExtend(r)
  <2>1. PICK s \in Known, t \in Periods :
          job' = [job EXCEPT ![r] =
            [Blank EXCEPT !.pc = "read", !.op = "extend", !.svc = s, !.until = t]]
    BY <1>5 DEF ArriveExtend
  <2>2. [Blank EXCEPT !.pc = "read", !.op = "extend", !.svc = s, !.until = t] \in Job
    BY <1>3, ConstantsAssumption, BlankType DEF Job, Blank
  <2>3. JobType'
    BY <1>1, <2>1, <2>2 DEF JobType
  <2>4. UNCHANGED <<cluster, kind, now, used, history>>
    BY <1>5 DEF ArriveExtend
  <2> QED  BY <1>1, <2>3, <2>4, Rest DEF Typed
<1>6. CASE ArriveStop(r)
  <2>1. PICK s \in Known :
          /\ job' = [job EXCEPT ![r] = [BeginStop(r, s, "done") EXCEPT !.op = "stop"]]
          /\ cut' = cut \union ({s} \intersect Starting)
    BY <1>6 DEF ArriveStop
  <2>2. BeginStop(r, s, "done") \in Job
    BY <1>1, <1>2, <1>3, BeginStopType
  <2>3. [BeginStop(r, s, "done") EXCEPT !.op = "stop"] \in Job
    BY <2>2 DEF Job
  <2>4. JobType'
    BY <1>1, <2>1, <2>3 DEF JobType
  <2>5. UNCHANGED <<cluster, kind, now, used, raced>>
    BY <1>6 DEF ArriveStop
  <2>6. HistoryType'
    BY <1>1, <1>3, <2>1, <2>5 DEF HistoryType
  <2> QED  BY <1>1, <2>4, <2>5, <2>6, Rest DEF Typed
<1> QED  BY <1>4, <1>5, <1>6 DEF Arrive

\* The calls that are left of an operation.
LEMMA ForemostLeft ==
  ASSUME NEW S, NEW rank, NEW o \in Foremost(S, rank)
  PROVE  o \in S
BY DEF Foremost

\* start: the count, and each of its creates.
LEMMA StartType ==
  ASSUME Typed, NEW r \in Requests, Count(r) \/ CreateNext(r) \/ CreateFails(r)
  PROVE  Typed'
<1>1. JobType /\ ClusterType /\ KindType /\ TimeType /\ UsedType /\ HistoryType
  BY DEF Typed
<1>2. r \in Handlers /\ r \in Services
  BY DEF Handlers, Services
<1>3. job[r] \in Job /\ job[r].until \in Nat /\ job[r].todo \in SUBSET Calls
  BY <1>1, <1>2 DEF JobType, Job
<1>4. CASE Count(r)
  <2>1. StartCalls(kind[r]) \in SUBSET Calls
    BY <1>1, <1>2 DEF KindType, StartCalls, Calls
  <2>2. now + job[r].until \in Nat
    BY <1>1, <1>3, ConstantsAssumption DEF TimeType
  <2>3. JobType'
    <3>1. CASE LimitReached
      BY <1>1, <1>2, <1>4, <3>1, GoType DEF Count, Over
    <3>2. CASE ~LimitReached
      <4>1. job' = [job EXCEPT ![r].pc = "creating", ![r].todo = StartCalls(kind[r]),
                               ![r].until = now + @]
        BY <1>4, <3>2 DEF Count
      <4>2. [job[r] EXCEPT !.pc = "creating", !.todo = StartCalls(kind[r]),
                           !.until = now + @] \in Job
        BY <1>3, <2>1, <2>2 DEF Job
      <4> QED  BY <1>1, <1>2, <4>1, <4>2 DEF JobType
    <3> QED  BY <3>1, <3>2
  <2>4. raced' \in BOOLEAN
    <3>1. CASE LimitReached
      BY <1>1, <1>4, <3>1 DEF Count, HistoryType
    <3>2. CASE ~LimitReached
      BY <1>4, <3>2, Zenon DEF Count
    <3> QED  BY <3>1, <3>2
  <2>5. UNCHANGED <<cluster, kind, now, used, cut>>
    BY <1>4 DEF Count
  <2>6. HistoryType'
    BY <1>1, <2>4, <2>5 DEF HistoryType
  <2> QED  BY <1>1, <2>3, <2>5, <2>6, Rest DEF Typed
<1>5. CASE CreateNext(r)
  <2>1. PICK o \in Foremost(job[r].todo, StartRank) :
          /\ ~Untied(r, o) /\ Create(r, o, job[r].until)
          /\ IF job[r].todo = {o} THEN Go(r, "done")
             ELSE job' = [job EXCEPT ![r].todo = @ \ {o}]
    BY <1>5 DEF CreateNext
  <2>2. ClusterType'
    BY <1>1, <1>2, <1>3, <2>1, ForemostLeft, CreateType
  <2>3. JobType'
    <3>1. CASE job[r].todo = {o}
      BY <1>1, <1>2, <2>1, <3>1, GoType DEF Over
    <3>2. CASE job[r].todo # {o}
      <4>1. [job[r] EXCEPT !.todo = @ \ {o}] \in Job
        BY <1>3 DEF Job
      <4> QED  BY <1>1, <1>2, <2>1, <3>2, <4>1 DEF JobType
    <3> QED  BY <3>1, <3>2
  <2>4. UNCHANGED <<kind, now, used, history>>
    BY <1>5 DEF CreateNext
  <2> QED  BY <1>1, <2>2, <2>3, <2>4, Rest DEF Typed
<1>6. CASE CreateFails(r)
  <2>1. PICK o \in Foremost(job[r].todo, StartRank) :
          \/ Untied(r, o) /\ UNCHANGED <<cluster, used>>
          \/ Throws /\ UNCHANGED cluster
          \/ ~Untied(r, o) /\ Throws /\ Create(r, o, job[r].until)
    BY <1>6 DEF CreateFails
  <2>2. ClusterType'
    BY <1>1, <1>2, <1>3, <2>1, ForemostLeft, CreateType, Rest
  <2>3. UsedType'
    BY <1>1, <2>1, TroubleType
  <2>4. JobType'
    <3>1. BeginStop(r, r, "failed") \in Job
      BY <1>1, <1>2, BeginStopType
    <3> QED  BY <1>1, <1>2, <1>6, <3>1 DEF CreateFails, GiveUp, JobType
  <2>5. UNCHANGED <<kind, now, history>>
    BY <1>6 DEF CreateFails
  <2> QED  BY <1>1, <2>2, <2>3, <2>4, <2>5, Rest DEF Typed
<1> QED  BY <1>4, <1>5, <1>6

\* extend, and the calls that throw.
LEMMA ExtendType ==
  ASSUME Typed, NEW r \in Requests, Read(r) \/ Patch(r) \/ CallFails(r)
  PROVE  Typed'
<1>1. JobType /\ ClusterType /\ KindType /\ TimeType /\ UsedType /\ HistoryType
  BY DEF Typed
<1>2. r \in Handlers
  BY DEF Handlers
<1>3. job[r] \in Job /\ job[r].svc \in Services /\ job[r].until \in Nat
  BY <1>1, <1>2 DEF JobType, Job
<1>4. CASE Read(r)
  <2>1. /\ pod[job[r].svc].expiry \in Nat /\ pod[job[r].svc].born \in Nat
    BY <1>1, <1>3 DEF ClusterType, PodType
  <2>2. Extended(job[r].svc, job[r].until) \in Nat
    BY <1>3, <2>1, ConstantsAssumption DEF Extended, Least
  <2>3. \/ job' = [job EXCEPT ![r].pc = "patch",
                              ![r].until = Extended(job[r].svc, job[r].until)]
        \/ Go(r, "failed")
    BY <1>4 DEF Read
  <2>4. JobType'
    <3>1. [job[r] EXCEPT !.pc = "patch", !.until = Extended(job[r].svc, job[r].until)] \in Job
      BY <1>3, <2>2 DEF Job
    <3>2. CASE Go(r, "failed")
      BY <1>1, <1>2, <3>2, GoType DEF Over
    <3>3. CASE job' = [job EXCEPT ![r].pc = "patch",
                                  ![r].until = Extended(job[r].svc, job[r].until)]
      BY <1>1, <1>2, <3>1, <3>3 DEF JobType
    <3> QED  BY <2>3, <3>2, <3>3
  <2>5. UNCHANGED <<cluster, kind, now, used, history>>
    BY <1>4 DEF Read
  <2> QED  BY <1>1, <2>4, <2>5, Rest DEF Typed
<1>5. CASE Patch(r)
  <2>1. JobType'
    <3>1. Go(r, "done") \/ Go(r, "failed")
      BY <1>5 DEF Patch
    <3> QED  BY <1>1, <1>2, <3>1, GoType DEF Over
  <2>2. ClusterType'
    <3>1. UNCHANGED <<objs, bound>>
      BY <1>5 DEF Patch
    <3>2. PodType'
      BY <1>1, <1>3, <1>5 DEF Patch, Renew, ClusterType, PodType
    <3> QED  BY <1>1, <3>1, <3>2 DEF ClusterType, ObjType, BoundType
  <2>3. UNCHANGED <<kind, now, used, history>>
    BY <1>5 DEF Patch
  <2> QED  BY <1>1, <2>1, <2>2, <2>3, Rest DEF Typed
<1>6. CASE CallFails(r)
  <2>1. JobType'
    BY <1>1, <1>2, <1>6, GoType DEF CallFails, Over
  <2>2. UsedType'
    BY <1>1, <1>6, TroubleType DEF CallFails
  <2>3. UNCHANGED <<objs, bound, kind, now, history>>
    BY <1>6 DEF CallFails
  <2>4. PodType'
    BY <1>1, <1>3, <1>6 DEF CallFails, Renew, ClusterType, PodType
  <2>5. ClusterType'
    BY <1>1, <2>3, <2>4 DEF ClusterType, ObjType, BoundType
  <2> QED  BY <1>1, <2>1, <2>2, <2>3, <2>5, Rest DEF Typed
<1> QED  BY <1>4, <1>5, <1>6

\* The deletes of a stop, whoever makes them.
LEMMA DeleteNextType ==
  ASSUME Typed, NEW h \in Handlers, DeleteNext(h)
  PROVE  Typed'
<1>1. JobType /\ ClusterType /\ KindType /\ TimeType /\ UsedType /\ HistoryType
  BY DEF Typed
<1>2. /\ job[h] \in Job /\ job[h].svc \in Services /\ job[h].todo \in SUBSET Calls
      /\ job[h].op \in {"none", "start", "extend", "stop"}
      /\ job[h].after \in {"done", "failed", "sweep"} /\ job[h].prey \in SUBSET Services
  BY <1>1 DEF JobType, Job
<1>3. PICK o \in Foremost(job[h].todo, StopRank) :
        /\ IF job[h].todo # {o} THEN job' = [job EXCEPT ![h].todo = @ \ {o}]
           ELSE job' = [job EXCEPT ![h] =
                  [Blank EXCEPT !.pc = job[h].after, !.op = job[h].op,
                                !.svc = job[h].svc, !.prey = job[h].prey]]
        /\ \/ Delete(job[h].svc, o) /\ UNCHANGED used
           \/ Slips /\ UNCHANGED cluster
  BY DEF DeleteNext
<1>4. ClusterType'
  BY <1>1, <1>2, <1>3, ForemostLeft, DeleteType, Rest
<1>5. UsedType'
  BY <1>1, <1>3, TroubleType
<1>6. JobType'
  <2>1. [job[h] EXCEPT !.todo = @ \ {o}] \in Job
    BY <1>2 DEF Job
  <2>2. [Blank EXCEPT !.pc = job[h].after, !.op = job[h].op,
                      !.svc = job[h].svc, !.prey = job[h].prey] \in Job
    BY <1>2, BlankType DEF Job, Blank, Over
  <2>3. CASE job[h].todo # {o}
    <3>1. job' = [job EXCEPT ![h].todo = @ \ {o}]
      BY <1>3, <2>3
    <3> QED  BY <1>1, <2>1, <3>1 DEF JobType
  <2>4. CASE job[h].todo = {o}
    <3>1. job' = [job EXCEPT ![h] =
                   [Blank EXCEPT !.pc = job[h].after, !.op = job[h].op,
                                 !.svc = job[h].svc, !.prey = job[h].prey]]
      BY <1>3, <2>4
    <3> QED  BY <1>1, <2>2, <3>1 DEF JobType
  <2> QED  BY <2>3, <2>4
<1>7. UNCHANGED <<kind, now, history>>
  BY DEF DeleteNext
<1> QED  BY <1>1, <1>4, <1>5, <1>6, <1>7, Rest DEF Typed

\* The sweep.
LEMMA ReapType ==
  ASSUME Typed, Sweep \/ ReapNext \/ ReapEnd
  PROVE  Typed'
<1>1. JobType /\ ClusterType /\ KindType /\ TimeType /\ UsedType /\ HistoryType
  BY DEF Typed
<1>2. Reaper \in Handlers
  BY DEF Handlers
<1>3. job[Reaper] \in Job /\ job[Reaper].prey \in SUBSET Services
  BY <1>1, <1>2 DEF JobType, Job
<1>4. CASE Sweep
  <2>1. Condemned \in SUBSET Services
    BY DEF Condemned, Listed
  <2>2. [job[Reaper] EXCEPT !.pc = "sweep", !.prey = Condemned] \in Job
    BY <1>3, <2>1 DEF Job
  <2>3. JobType'
    BY <1>1, <1>2, <1>4, <2>2 DEF Sweep, JobType
  <2>4. UNCHANGED <<cluster, kind, now, used, history>>
    BY <1>4 DEF Sweep
  <2> QED  BY <1>1, <2>3, <2>4, Rest DEF Typed
<1>5. CASE ReapNext
  <2>1. PICK s \in job[Reaper].prey :
          /\ job' = [job EXCEPT ![Reaper] =
                       [BeginStop(Reaper, s, "sweep") EXCEPT !.prey = @ \ {s}]]
          /\ cut' = cut \union ({s} \intersect Starting)
    BY <1>5 DEF ReapNext
  <2>2. BeginStop(Reaper, s, "sweep") \in Job
    BY <1>1, <1>2, <1>3, BeginStopType
  <2>3. [BeginStop(Reaper, s, "sweep") EXCEPT !.prey = @ \ {s}] \in Job
    BY <2>2 DEF Job
  <2>4. JobType'
    BY <1>1, <1>2, <2>1, <2>3 DEF JobType
  <2>5. UNCHANGED <<cluster, kind, now, used, raced>>
    BY <1>5 DEF ReapNext
  <2>6. HistoryType'
    BY <1>1, <1>3, <2>1, <2>5 DEF HistoryType
  <2> QED  BY <1>1, <2>4, <2>5, <2>6, Rest DEF Typed
<1>6. CASE ReapEnd
  <2>1. JobType'
    BY <1>1, <1>2, <1>6, BlankType DEF ReapEnd, JobType
  <2>2. UNCHANGED <<cluster, kind, now, used, history>>
    BY <1>6 DEF ReapEnd
  <2> QED  BY <1>1, <2>1, <2>2, Rest DEF Typed
<1> QED  BY <1>4, <1>5, <1>6

\* Kubernetes, the clock and a restart.
LEMMA EnvironmentType ==
  ASSUME Typed, Environment \/ Crash
  PROVE  Typed'
<1>1. JobType /\ ClusterType /\ KindType /\ TimeType /\ UsedType /\ HistoryType
  BY DEF Typed
<1>2. CASE Tick
  <2>1. TimeType'
    BY <1>1, <1>2, ConstantsAssumption DEF Tick, TimeType
  <2>2. UNCHANGED <<cluster, kind, job, used, history>>
    BY <1>2 DEF Tick
  <2> QED  BY <1>1, <2>1, <2>2, Rest DEF Typed
<1>3. ASSUME NEW s \in Services, PodGone(s)
      PROVE  Typed'
  <2>1. UNCHANGED <<objs, bound, kind, now, job, used, history>>
    BY <1>3 DEF PodGone
  <2>2. PodType'
    BY <1>1, <1>3 DEF PodGone, ClusterType, PodType, NoPod
  <2>3. ClusterType'
    BY <1>1, <2>1, <2>2 DEF ClusterType, ObjType, BoundType
  <2> QED  BY <1>1, <2>1, <2>3, Rest DEF Typed
<1>4. ASSUME NEW s \in Services, Collect(s)
      PROVE  Typed'
  <2>1. UNCHANGED <<pod, kind, now, job, used, history>>
    BY <1>4 DEF Collect
  <2>2. ObjType'
    BY <1>1, <1>4 DEF Collect, ClusterType, ObjType
  <2>3. BoundType'
    BY <1>1, <1>4 DEF Collect, ClusterType, ObjType, BoundType
  <2>4. ClusterType'
    BY <1>1, <2>1, <2>2, <2>3 DEF ClusterType, PodType
  <2> QED  BY <1>1, <2>1, <2>4, Rest DEF Typed
<1>5. CASE Crash
  <2>1. \A h \in Handlers :
          [Blank EXCEPT !.pc = "lost", !.op = job[h].op, !.svc = job[h].svc] \in Job
    BY <1>1, BlankType DEF JobType, Job, Blank, Over
  <2>2. JobType'
    BY <1>1, <1>5, <2>1, BlankType DEF Crash, JobType
  <2>3. UsedType'
    <3>1. Trouble /\ crashes' = crashes + 1 /\ errors' = errors /\ slips' = slips
      BY <1>5 DEF Crash
    <3> QED  BY <1>1, <3>1, ConstantsAssumption DEF Trouble, UsedType
  <2>4. UNCHANGED <<cluster, kind, now, history>>
    BY <1>5 DEF Crash
  <2> QED  BY <1>1, <2>2, <2>3, <2>4, Rest DEF Typed
<1> QED  BY <1>2, <1>3, <1>4, <1>5 DEF Environment

\* Every step keeps the types: the lemmas above, one for each part of Next.
LEMMA NextType == Typed /\ [Next]_vars => Typed'
<1> SUFFICES ASSUME Typed, [Next]_vars PROVE Typed'
  OBVIOUS
<1>1. ASSUME NEW r \in Requests, Arrive(r) \/ Serve(r)
      PROVE  Typed'
  BY <1>1, ArriveType, StartType, ExtendType, DeleteNextType DEF Serve, Handlers
<1>2. CASE Reap
  BY <1>2, ReapType, DeleteNextType DEF Reap, Handlers
<1>3. CASE Environment \/ Crash
  BY <1>3, EnvironmentType
<1>4. CASE UNCHANGED vars
  BY <1>4, Rest DEF Typed, vars, cluster, used, history
<1> QED  BY <1>1, <1>2, <1>3, <1>4 DEF Next

\* Pods, objects, owners, clock and handlers keep their types, and an owner is only
\* ever written on a Secret that exists.
THEOREM PreviewTypes == Spec => []TypeOK
<1>1. Init => Typed
  BY InitType
<1>2. Typed /\ [Next]_vars => Typed'
  BY NextType
<1>3. Typed => TypeOK
  BY Parted
<1> QED  BY <1>1, <1>2, <1>3, PTL DEF Spec

-----------------------------------------------------------------------------
(* The cap on a life.  What extend patches was computed from a creation time  *)
(* that it read an await ago: it still is that of the pod, as a service never *)
(* has a second pod.                                                         *)

\* Services whose pod has never been created.
Unborn(s) ==
  s \in Requests /\ \/ job[s].pc \in {"idle", "count"}
                    \/ job[s].pc = "creating" /\ "pod" \in job[s].todo

UnbornHaveNone == \A s \in Services : Unborn(s) => pod[s].phase = "none"

\* What a start will write into its pod, and an extension into the annotation.
StartsCapped ==
  \A r \in Requests :
    /\ job[r].pc = "count" => job[r].until <= MaxTtl
    /\ job[r].pc = "creating" => job[r].until <= now + MaxTtl

PatchesCapped ==
  \A r \in Requests : job[r].pc = "patch" =>
    /\ ~Unborn(job[r].svc)
    /\ job[r].svc \in Listed => job[r].until <= pod[job[r].svc].born + MaxTtl

Capped == TtlCapped /\ UnbornHaveNone /\ StartsCapped /\ PatchesCapped

\* Most steps are of this shape: no pod is created and no expiry written, and a
\* handler either stays where it is, or goes on creating, or is past all this.
Onward(r) ==
  \/ job'[r] = job[r]
  \/ job'[r].pc \notin {"idle", "count", "creating", "patch"}
  \/ /\ job[r].pc = "creating" /\ job'[r].pc = "creating" /\ job'[r].until = job[r].until
     /\ "pod" \in job'[r].todo => "pod" \in job[r].todo

Kept(s) ==
  \/ pod'[s].phase = "none"
  \/ pod[s].phase # "none" /\ pod'[s].born = pod[s].born /\ pod'[s].expiry = pod[s].expiry

Quiet ==
  /\ \A r \in Requests : Onward(r)
  /\ \A s \in Services : Kept(s)
  /\ now' >= now

\* A quiet step keeps the cap and what it rests on.
LEMMA QuietStep ==
  ASSUME Typed, Typed', Capped, Quiet
  PROVE  Capped'
<1>1. \A s \in Services : Unborn(s)' => Unborn(s)
  BY DEF Quiet, Onward, Unborn
<1>2. TtlCapped'
  BY DEF Capped, TtlCapped, Quiet, Kept, Listed
<1>3. UnbornHaveNone'
  BY <1>1 DEF Capped, UnbornHaveNone, Quiet, Kept
<1>4. StartsCapped'
  <2>1. now \in Nat /\ now' \in Nat
    BY ConstantsAssumption DEF Typed, TimeType
  <2>2. \A r \in Requests : job[r].until \in Nat /\ job'[r].until \in Nat
    BY DEF Typed, JobType, Job, Handlers
  <2> QED  BY <2>1, <2>2, ConstantsAssumption DEF Capped, StartsCapped, Quiet, Onward
<1>5. PatchesCapped'
  <2> SUFFICES ASSUME NEW r \in Requests, job'[r].pc = "patch"
               PROVE  /\ ~Unborn(job[r].svc)'
                      /\ (job[r].svc \in Listed => job[r].until <= pod[job[r].svc].born + MaxTtl)'
    BY DEF PatchesCapped
  <2>1. job'[r] = job[r]
    BY DEF Quiet, Onward
  <2>2. job[r].svc \in Services
    BY DEF Typed, JobType, Job, Handlers
  <2> QED  BY <1>1, <2>1, <2>2 DEF Capped, PatchesCapped, Quiet, Kept, Listed
<1> QED  BY <1>2, <1>3, <1>4, <1>5 DEF Capped

\* The pod of a start is created, and the start goes on, or gives up.
LEMMA BirthStep ==
  ASSUME Typed, Typed', Capped, NEW r \in Requests,
         job[r].pc = "creating", "pod" \in job[r].todo,
         pod' = [pod EXCEPT ![r] = NewPod(job[r].until)],
         now' = now,
         \A q \in Requests \ {r} : job'[q] = job[q],
         \/ job'[r].pc \notin {"idle", "count", "creating", "patch"}
         \/ /\ job'[r].pc = "creating" /\ job'[r].until = job[r].until
            /\ "pod" \notin job'[r].todo
  PROVE  Capped'
<1>1. r \in Services /\ now \in Nat
  BY ConstantsAssumption DEF Typed, TimeType, Services
<1>2. /\ pod'[r] = [phase |-> "up", born |-> now, expiry |-> job[r].until]
      /\ \A s \in Services \ {r} : pod'[s] = pod[s]
  BY <1>1 DEF Typed, ClusterType, PodType, NewPod
<1>3. Unborn(r) /\ ~Unborn(r)'
  BY DEF Unborn
<1>4. \A s \in Services \ {r} : Unborn(s)' <=> Unborn(s)
  BY DEF Unborn
<1>5. job[r].until <= now + MaxTtl
  BY DEF Capped, StartsCapped
<1>6. TtlCapped'
  BY <1>1, <1>2, <1>5 DEF Capped, TtlCapped, Listed
<1>7. UnbornHaveNone'
  BY <1>2, <1>3, <1>4 DEF Capped, UnbornHaveNone
<1>8. StartsCapped'
  BY DEF Capped, StartsCapped
<1>9. PatchesCapped'
  <2> SUFFICES ASSUME NEW q \in Requests, job'[q].pc = "patch"
               PROVE  /\ ~Unborn(job[q].svc)'
                      /\ (job[q].svc \in Listed => job[q].until <= pod[job[q].svc].born + MaxTtl)'
    BY DEF PatchesCapped
  <2>1. q # r /\ job'[q] = job[q]
    OBVIOUS
  <2>2. job[q].svc \in Services
    BY DEF Typed, JobType, Job, Handlers
  <2>3. ~Unborn(job[q].svc) /\ job[q].svc # r
    BY <1>3, <2>1 DEF Capped, PatchesCapped
  <2> QED  BY <1>2, <1>4, <2>1, <2>2, <2>3 DEF Capped, PatchesCapped, Listed
<1> QED  BY <1>6, <1>7, <1>8, <1>9 DEF Capped

\* Initially: nothing is created or patched, and the older service is within the cap.
LEMMA CappedInit == Init => Capped
<1> SUFFICES ASSUME Init PROVE Capped
  OBVIOUS
<1>1. \A s \in Services : s # Older => pod[s].phase = "none"
  BY DEF Init, NoPod
<1>2. TtlCapped
  BY ConstantsAssumption DEF Init, TtlCapped, Listed, NoPod
<1>3. UnbornHaveNone
  BY <1>1, ConstantsAssumption DEF UnbornHaveNone, Unborn
<1>4. \A r \in Requests : job[r].pc = "idle"
  BY DEF Init, Handlers, Blank
<1>5. StartsCapped /\ PatchesCapped
  BY <1>4 DEF StartsCapped, PatchesCapped
<1> QED  BY <1>2, <1>3, <1>5 DEF Capped

\* A step of one handler that does nothing to the pods.
LEMMA JobOnly ==
  ASSUME Typed, Typed', Capped, NEW h \in Handlers,
         \A q \in Handlers \ {h} : job'[q] = job[q],
         job'[h].pc \notin {"idle", "count", "creating", "patch"} \/ h = Reaper \/ Onward(h),
         \A s \in Services : Kept(s), now' = now
  PROVE  Capped'
<1>1. now' >= now
  BY ConstantsAssumption DEF Typed, TimeType
<1>2. Quiet
  BY <1>1, ConstantsAssumption DEF Quiet, Onward, Handlers
<1> QED  BY <1>2, QuietStep

\* Pods that no step touches, or that only begin to terminate, are kept.
LEMMA SamePods ==
  ASSUME pod' = pod
  PROVE  \A s \in Services : Kept(s)
BY DEF Kept

\* The arrival of a request: only that of a start says what it will write.
LEMMA CappedArrive ==
  ASSUME Typed, Typed', Capped, NEW r \in Requests, Arrive(r)
  PROVE  Capped'
<1>1. r \in Handlers /\ job[r] \in Job
  BY DEF Typed, JobType, Handlers
<1>2. CASE ArriveStart(r)
  <2>1. PICK t \in Periods : job' = [job EXCEPT ![r] =
            [Blank EXCEPT !.pc = "count", !.op = "start", !.svc = r, !.until = Lifetime(t)]]
    BY <1>2 DEF ArriveStart
  <2>2. job'[r].pc = "count" /\ job'[r].until <= MaxTtl
    BY <1>1, <2>1, ConstantsAssumption
       DEF Typed, JobType, Blank, Lifetime, Least
  <2>3. \A q \in Handlers \ {r} : job'[q] = job[q]
    BY <2>1 DEF Typed, JobType
  <2>4. job[r].pc = "idle" /\ pod' = pod /\ now' = now
    BY <1>2 DEF ArriveStart, cluster
  <2>5. \A s \in Services : Unborn(s)' <=> Unborn(s)
    BY <2>2, <2>3, <2>4 DEF Unborn, Handlers
  <2>6. TtlCapped' /\ UnbornHaveNone'
    BY <2>4, <2>5 DEF Capped, TtlCapped, UnbornHaveNone, Listed
  <2>7. StartsCapped'
    BY <2>2, <2>3, <2>4 DEF Capped, StartsCapped, Handlers
  <2>8. PatchesCapped'
    <3> SUFFICES ASSUME NEW q \in Requests, job'[q].pc = "patch"
                 PROVE  /\ ~Unborn(job[q].svc)'
                        /\ (job[q].svc \in Listed => job[q].until <= pod[job[q].svc].born + MaxTtl)'
      BY DEF PatchesCapped
    <3>1. job'[q] = job[q] /\ job[q].svc \in Services
      BY <2>2, <2>3 DEF Typed, JobType, Job, Handlers
    <3> QED  BY <2>4, <2>5, <3>1 DEF Capped, PatchesCapped, Listed
  <2> QED  BY <2>6, <2>7, <2>8 DEF Capped
<1>3. CASE ArriveExtend(r)
  <2>1. job'[r].pc = "read" /\ \A q \in Handlers \ {r} : job'[q] = job[q]
    BY <1>1, <1>3 DEF ArriveExtend, Typed, JobType, Blank
  <2>2. pod' = pod /\ now' = now
    BY <1>3 DEF ArriveExtend, cluster
  <2> QED  BY <1>1, <2>1, <2>2, SamePods, JobOnly
<1>4. CASE ArriveStop(r)
  <2>1. job'[r].pc = "stopping" /\ \A q \in Handlers \ {r} : job'[q] = job[q]
    BY <1>1, <1>4 DEF ArriveStop, BeginStop, Typed, JobType, Blank
  <2>2. pod' = pod /\ now' = now
    BY <1>4 DEF ArriveStop, cluster
  <2> QED  BY <1>1, <2>1, <2>2, SamePods, JobOnly
<1> QED  BY <1>2, <1>3, <1>4 DEF Arrive

\* start: the count, and the calls that create.
LEMMA CappedStart ==
  ASSUME Typed, Typed', Capped, NEW r \in Requests,
         Count(r) \/ CreateNext(r) \/ CreateFails(r)
  PROVE  Capped'
<1>1. r \in Handlers /\ r \in Services /\ job[r] \in Job
  BY DEF Typed, JobType, Handlers, Services
<1>2. CASE Count(r) /\ LimitReached
  <2>1. job'[r].pc = "failed" /\ \A q \in Handlers \ {r} : job'[q] = job[q]
    BY <1>1, <1>2 DEF Count, Go, Typed, JobType, Blank
  <2>2. pod' = pod /\ now' = now
    BY <1>2 DEF Count, cluster
  <2> QED  BY <1>1, <2>1, <2>2, SamePods, JobOnly
<1>3. CASE Count(r) /\ ~LimitReached
  <2>1. /\ job[r].pc = "count" /\ pod' = pod /\ now' = now
        /\ job' = [job EXCEPT ![r].pc = "creating", ![r].todo = StartCalls(kind[r]),
                              ![r].until = now + @]
    BY <1>3 DEF Count, cluster
  <2>2. /\ job'[r].pc = "creating" /\ job'[r].until = now + job[r].until
        /\ \A q \in Handlers \ {r} : job'[q] = job[q]
    BY <1>1, <2>1 DEF Typed, JobType, Job
  <2>3. \A s \in Services : Unborn(s)' => Unborn(s)
    BY <2>1, <2>2 DEF Unborn, Handlers
  <2>4. TtlCapped' /\ UnbornHaveNone'
    BY <2>1, <2>3 DEF Capped, TtlCapped, UnbornHaveNone, Listed
  <2>5. StartsCapped'
    <3>1. now \in Nat /\ job[r].until \in Nat /\ job[r].until <= MaxTtl
      BY <1>1, <2>1, ConstantsAssumption DEF Typed, TimeType, Capped, StartsCapped, Job
    <3>2. job'[r].until <= now + MaxTtl
      BY <2>2, <3>1, ConstantsAssumption
    <3> QED  BY <2>1, <2>2, <3>2 DEF Capped, StartsCapped, Handlers
  <2>6. PatchesCapped'
    <3> SUFFICES ASSUME NEW q \in Requests, job'[q].pc = "patch"
                 PROVE  /\ ~Unborn(job[q].svc)'
                        /\ (job[q].svc \in Listed => job[q].until <= pod[job[q].svc].born + MaxTtl)'
      BY DEF PatchesCapped
    <3>1. job'[q] = job[q] /\ job[q].svc \in Services
      BY <2>2 DEF Typed, JobType, Job, Handlers
    <3> QED  BY <2>1, <2>3, <3>1 DEF Capped, PatchesCapped, Listed
  <2> QED  BY <2>4, <2>5, <2>6 DEF Capped
<1>4. CASE CreateNext(r)
  <2>1. PICK o \in Foremost(job[r].todo, StartRank) :
           /\ Create(r, o, job[r].until)
           /\ IF job[r].todo = {o} THEN Go(r, "done")
              ELSE job' = [job EXCEPT ![r].todo = @ \ {o}]
    BY <1>4 DEF CreateNext
  <2>2. job[r].pc = "creating" /\ now' = now /\ o \in job[r].todo
    BY <1>4, <2>1 DEF CreateNext, Foremost
  <2>3. \A q \in Handlers \ {r} : job'[q] = job[q]
    BY <2>1 DEF Go, Typed, JobType
  <2>4. \/ job'[r].pc = "done"
        \/ /\ job'[r].pc = "creating" /\ job'[r].until = job[r].until
           /\ job'[r].todo = job[r].todo \ {o}
    <3>1. Go(r, "done") => job'[r].pc = "done"
      BY <1>1 DEF Go, Typed, JobType, Blank
    <3>2. job' = [job EXCEPT ![r].todo = @ \ {o}] =>
            /\ job'[r].pc = job[r].pc /\ job'[r].until = job[r].until
            /\ job'[r].todo = job[r].todo \ {o}
      BY <1>1 DEF Typed, JobType, Job
    <3> QED  BY <2>1, <2>2, <3>1, <3>2
  <2>5. CASE o = "pod"
    <3>1. pod' = [pod EXCEPT ![r] = NewPod(job[r].until)]
      BY <2>1, <2>5 DEF Create
    <3>2. \A q \in Requests \ {r} : job'[q] = job[q]
      BY <2>3 DEF Handlers
    <3>3. \/ job'[r].pc \notin {"idle", "count", "creating", "patch"}
          \/ /\ job'[r].pc = "creating" /\ job'[r].until = job[r].until
             /\ "pod" \notin job'[r].todo
      BY <2>4, <2>5
    <3> QED  BY <2>2, <2>5, <3>1, <3>2, <3>3, BirthStep
  <2>6. CASE o # "pod"
    <3>1. pod' = pod
      BY <2>1, <2>6 DEF Create, Typed, ClusterType, PodType
    <3>2. job'[r].pc \notin {"idle", "count", "creating", "patch"} \/ Onward(r)
      BY <2>2, <2>4 DEF Onward
    <3> QED  BY <1>1, <2>2, <2>3, <3>1, <3>2, SamePods, JobOnly
  <2> QED  BY <2>5, <2>6
<1>5. CASE CreateFails(r)
  <2>1. PICK o \in Foremost(job[r].todo, StartRank) :
           UNCHANGED cluster \/ Create(r, o, job[r].until)
    BY <1>5 DEF CreateFails
  <2>2. job[r].pc = "creating" /\ now' = now /\ o \in job[r].todo /\ GiveUp(r)
    BY <1>5, <2>1 DEF CreateFails, Foremost
  <2>3. job'[r].pc = "stopping" /\ \A q \in Handlers \ {r} : job'[q] = job[q]
    BY <1>1, <2>2 DEF GiveUp, BeginStop, Typed, JobType, Blank
  <2>4. CASE pod' = pod
    BY <1>1, <2>2, <2>3, <2>4, SamePods, JobOnly
  <2>5. CASE o = "pod" /\ Create(r, o, job[r].until)
    <3>1. pod' = [pod EXCEPT ![r] = NewPod(job[r].until)]
      BY <2>5 DEF Create
    <3>2. \A q \in Requests \ {r} : job'[q] = job[q]
      BY <2>3 DEF Handlers
    <3>3. job'[r].pc \notin {"idle", "count", "creating", "patch"}
      BY <2>3
    <3> QED  BY <2>2, <2>5, <3>1, <3>2, <3>3, BirthStep
  <2>6. CASE o # "pod" /\ Create(r, o, job[r].until)
    <3>1. pod' = pod
      BY <2>6 DEF Create, Typed, ClusterType, PodType
    <3> QED  BY <2>4, <3>1
  <2>7. UNCHANGED cluster => pod' = pod
    BY DEF cluster
  <2> QED  BY <2>1, <2>4, <2>5, <2>6, <2>7
<1> QED  BY <1>2, <1>3, <1>4, <1>5

\* extend: what it read is what it may write, as the pod has not changed since.
LEMMA CappedExtend ==
  ASSUME Typed, Typed', Capped, NEW r \in Requests, Read(r) \/ Patch(r) \/ CallFails(r)
  PROVE  Capped'
<1>1. r \in Handlers /\ job[r] \in Job /\ job[r].svc \in Services
  BY DEF Typed, JobType, Handlers, Job
<1>2. now' = now /\ \A q \in Handlers \ {r} : job'[q] = job[q]
  BY DEF Read, Patch, CallFails, Go, Typed, JobType
<1>3. CASE Go(r, "failed") /\ pod' = pod
  <2>1. job'[r].pc = "failed"
    BY <1>1, <1>3 DEF Go, Typed, JobType, Blank
  <2> QED  BY <1>1, <1>2, <1>3, <2>1, SamePods, JobOnly
<1>4. CASE /\ Read(r) /\ job[r].svc \in Listed
           /\ job' = [job EXCEPT ![r].pc = "patch",
                                 ![r].until = Extended(job[r].svc, job[r].until)]
  <2> DEFINE s == job[r].svc
  <2>1. job[r].pc = "read" /\ pod' = pod
    BY <1>4 DEF Read, cluster
  <2>2. /\ job'[r].pc = "patch" /\ job'[r].svc = s
        /\ job'[r].until = Extended(s, job[r].until)
    BY <1>1, <1>4 DEF Typed, JobType, Job
  <2>3. pod[s].born \in Nat /\ pod[s].expiry \in Nat /\ job[r].until \in Nat
    BY <1>1 DEF Typed, ClusterType, PodType, Job
  <2>4. job'[r].until <= pod[s].born + MaxTtl
    BY <2>2, <2>3, ConstantsAssumption DEF Extended, Least
  <2>5. ~Unborn(s)
    BY <1>1, <1>4 DEF Capped, UnbornHaveNone, Listed
  <2>6. \A q \in Services : Unborn(q)' <=> Unborn(q)
    BY <1>2, <2>1, <2>2 DEF Unborn, Handlers
  <2>7. TtlCapped' /\ UnbornHaveNone'
    BY <2>1, <2>6 DEF Capped, TtlCapped, UnbornHaveNone, Listed
  <2>8. StartsCapped'
    BY <1>2, <2>2 DEF Capped, StartsCapped, Handlers
  <2>9. PatchesCapped'
    <3> SUFFICES ASSUME NEW q \in Requests, job'[q].pc = "patch"
                 PROVE  /\ ~Unborn(job[q].svc)'
                        /\ (job[q].svc \in Listed => job[q].until <= pod[job[q].svc].born + MaxTtl)'
      BY DEF PatchesCapped
    <3>1. CASE q = r
      BY <1>1, <2>1, <2>2, <2>4, <2>5, <2>6, <3>1 DEF Listed
    <3>2. CASE q # r
      <4>1. job'[q] = job[q] /\ job[q].svc \in Services
        BY <1>2, <3>2 DEF Typed, JobType, Job, Handlers
      <4> QED  BY <2>1, <2>6, <4>1 DEF Capped, PatchesCapped, Listed
    <3> QED  BY <3>1, <3>2
  <2> QED  BY <2>7, <2>8, <2>9 DEF Capped
<1>5. CASE Renew(r) /\ (Go(r, "done") \/ Go(r, "failed"))
  <2> DEFINE s == job[r].svc
  <2>1. job[r].pc = "patch" /\ job'[r].pc \in {"done", "failed"}
    BY <1>1, <1>5 DEF Renew, Go, Typed, JobType, Blank
  <2>2. /\ pod'[s].phase = pod[s].phase /\ pod'[s].born = pod[s].born
        /\ pod'[s].expiry = job[r].until
        /\ \A q \in Services \ {s} : pod'[q] = pod[q]
    BY <1>1, <1>5 DEF Renew, Typed, ClusterType, PodType
  <2>3. job[r].until <= pod[s].born + MaxTtl
    BY <1>5, <2>1 DEF Renew, Capped, PatchesCapped
  <2>4. \A q \in Services : Unborn(q)' <=> Unborn(q)
    BY <1>2, <2>1 DEF Unborn, Handlers
  <2>5. TtlCapped'
    BY <2>2, <2>3 DEF Capped, TtlCapped, Listed
  <2>6. UnbornHaveNone'
    BY <2>2, <2>4 DEF Capped, UnbornHaveNone
  <2>7. StartsCapped'
    BY <1>2, <2>1 DEF Capped, StartsCapped, Handlers
  <2>8. PatchesCapped'
    <3> SUFFICES ASSUME NEW q \in Requests, job'[q].pc = "patch"
                 PROVE  /\ ~Unborn(job[q].svc)'
                        /\ (job[q].svc \in Listed => job[q].until <= pod[job[q].svc].born + MaxTtl)'
      BY DEF PatchesCapped
    <3>1. job'[q] = job[q] /\ job[q].svc \in Services
      BY <1>2, <2>1 DEF Typed, JobType, Job, Handlers
    <3> QED  BY <2>2, <2>4, <3>1 DEF Capped, PatchesCapped, Listed
  <2> QED  BY <2>5, <2>6, <2>7, <2>8 DEF Capped
<1> QED  BY <1>3, <1>4, <1>5 DEF Read, Patch, CallFails, cluster

\* A delete, of a request or of the reaper.
LEMMA CappedDelete ==
  ASSUME Typed, Typed', Capped, NEW h \in Handlers, DeleteNext(h)
  PROVE  Capped'
<1> DEFINE s == job[h].svc
<1>1. job[h] \in Job /\ s \in Services /\ now' = now
  BY DEF Typed, JobType, Job, DeleteNext
<1>2. job[h].pc = "stopping" /\ job[h].after \in {"done", "failed", "sweep"}
  BY <1>1 DEF DeleteNext, Job
<1>3. PICK o \in Foremost(job[h].todo, StopRank) :
         /\ IF job[h].todo # {o} THEN job' = [job EXCEPT ![h].todo = @ \ {o}]
            ELSE job' = [job EXCEPT ![h] =
                   [Blank EXCEPT !.pc = job[h].after, !.op = job[h].op,
                                 !.svc = s, !.prey = job[h].prey]]
         /\ Delete(s, o) \/ UNCHANGED cluster
  BY DEF DeleteNext
<1>4. \A q \in Handlers \ {h} : job'[q] = job[q]
  BY <1>3 DEF Typed, JobType
<1>5. job'[h].pc \in {"stopping", "done", "failed", "sweep"}
  <2>1. job' = [job EXCEPT ![h].todo = @ \ {o}] => job'[h].pc = job[h].pc
    BY <1>1 DEF Typed, JobType, Job
  <2>2. job' = [job EXCEPT ![h] = [Blank EXCEPT !.pc = job[h].after, !.op = job[h].op,
                                      !.svc = s, !.prey = job[h].prey]]
          => job'[h].pc = job[h].after
    BY DEF Typed, JobType, Blank
  <2> QED  BY <1>2, <1>3, <2>1, <2>2
<1>6. \A q \in Services : Kept(q)
  <2>1. CASE UNCHANGED cluster
    BY <2>1 DEF cluster, Kept
  <2>2. CASE Delete(s, o)
    BY <1>1, <2>2 DEF Delete, Kept, Listed, Typed, ClusterType, PodType
  <2> QED  BY <1>3, <2>1, <2>2
<1> QED  BY <1>1, <1>4, <1>5, <1>6, JobOnly

\* The sweep, the cluster, the clock and a restart create nothing.
LEMMA CappedRest ==
  ASSUME Typed, Typed', Capped,
         Sweep \/ ReapNext \/ ReapEnd \/ Environment \/ Crash \/ UNCHANGED vars
  PROVE  Capped'
<1>1. Reaper \notin Requests /\ now \in Nat /\ now' \in Nat
  BY ConstantsAssumption DEF Typed, TimeType
<1>2. CASE Sweep \/ ReapNext \/ ReapEnd
  <2>1. pod' = pod /\ now' = now
    BY <1>2 DEF Sweep, ReapNext, ReapEnd, cluster
  <2>2. \A r \in Requests : job'[r] = job[r]
    BY <1>1, <1>2 DEF Sweep, ReapNext, ReapEnd, Typed, JobType, Handlers
  <2>3. Quiet
    BY <1>1, <2>1, <2>2, SamePods DEF Quiet, Onward
  <2> QED  BY <2>3, QuietStep
<1>3. CASE Tick
  <2>1. pod' = pod /\ job' = job /\ now' >= now
    BY <1>1, <1>3 DEF Tick, cluster
  <2>2. Quiet
    BY <2>1, SamePods DEF Quiet, Onward
  <2> QED  BY <2>2, QuietStep
<1>4. CASE \E s \in Services : PodGone(s) \/ Collect(s)
  <2>1. job' = job /\ now' = now
    BY <1>4 DEF PodGone, Collect
  <2>2. \A q \in Services : Kept(q)
    BY <1>4 DEF PodGone, Collect, Kept, NoPod, Typed, ClusterType, PodType
  <2>3. Quiet
    BY <1>1, <2>1, <2>2 DEF Quiet, Onward
  <2> QED  BY <2>3, QuietStep
<1>5. CASE Crash
  <2>1. pod' = pod /\ now' = now
    BY <1>5 DEF Crash, cluster
  <2>2. \A r \in Requests : job'[r] = job[r] \/ job'[r].pc = "lost"
    BY <1>1, <1>5 DEF Crash, Handlers, Blank
  <2>3. Quiet
    BY <1>1, <2>1, <2>2, SamePods DEF Quiet, Onward
  <2> QED  BY <2>3, QuietStep
<1>6. CASE UNCHANGED vars
  <2>1. pod' = pod /\ job' = job /\ now' = now
    BY <1>6 DEF vars, cluster
  <2>2. Quiet
    BY <1>1, <2>1, SamePods DEF Quiet, Onward
  <2> QED  BY <2>2, QuietStep
<1> QED  BY <1>2, <1>3, <1>4, <1>5, <1>6 DEF Environment

\* Every step preserves the cap and what it rests on.
LEMMA CappedNext == Typed /\ Typed' /\ Capped /\ [Next]_vars => Capped'
<1> SUFFICES ASSUME Typed, Typed', Capped, [Next]_vars PROVE Capped'
  OBVIOUS
<1>1. ASSUME NEW r \in Requests, Arrive(r) \/ Serve(r) PROVE Capped'
  <2>1. r \in Handlers
    BY DEF Handlers
  <2> QED  BY <1>1, <2>1, CappedArrive, CappedStart, CappedExtend, CappedDelete DEF Serve
<1>2. CASE Reap
  <2>1. Reaper \in Handlers
    BY DEF Handlers
  <2> QED  BY <1>2, <2>1, CappedDelete, CappedRest DEF Reap
<1> QED  BY <1>1, <1>2, CappedRest DEF Next

\* "El cap duro", for any number of requests and any lengths of time: no service
\* outlives MaxTtl counted from the creation of its pod, however many starts,
\* extensions, stops, sweeps, failed calls and restarts interleave.
THEOREM PreviewTtlCapped == Spec => []TtlCapped
<1>1. Init => Typed /\ Capped
  BY InitType, CappedInit
<1>2. Typed /\ Capped /\ [Next]_vars => (Typed /\ Capped)'
  BY NextType, CappedNext
<1>3. Typed /\ Capped => TtlCapped
  BY DEF Capped
<1> QED  BY <1>1, <1>2, <1>3, PTL DEF Spec

-----------------------------------------------------------------------------
(* The limit.  Only a start adds a pod, and while no two starts are between   *)
(* count and pod at once, the room that it counted is there when it creates. *)

Room ==
  /\ IsFiniteSet(Listed)
  /\ ~raced =>
       /\ Cardinality(Listed) <= MaxConcurrent
       /\ Unseen # {} => Cardinality(Listed) < MaxConcurrent
       /\ \A p, q \in Unseen : p = q

\* What a step does to the limit: nothing, or a start counts, or its pod is created.
Shrinks   == Listed' \subseteq Listed /\ Unseen' \subseteq Unseen /\ raced' = raced
Counts(r) == /\ ~LimitReached /\ Listed' = Listed
             /\ Unseen' \subseteq Unseen \union {r} /\ raced' = (raced \/ Unseen # {})
Bears(r)  == /\ r \in Unseen /\ Listed' \subseteq Listed \union {r}
             /\ Unseen' \subseteq Unseen \ {r} /\ raced' = raced

\* A service that goes, or a start that has its pod or is over, leaves more room.
LEMMA ShrinkRoom ==
  ASSUME Room, Shrinks
  PROVE  Room'
<1>1. /\ IsFiniteSet(Listed') /\ Cardinality(Listed') <= Cardinality(Listed)
      /\ Cardinality(Listed) \in Nat /\ Cardinality(Listed') \in Nat
  BY FS_Subset, FS_CardinalityType DEF Room, Shrinks
<1>2. MaxConcurrent \in Nat
  BY ConstantsAssumption
<1> QED  BY <1>1, <1>2 DEF Room, Shrinks

\* A count that finds room is the only one, or is told from then on.
LEMMA CountRoom ==
  ASSUME Room, NEW r, Counts(r)
  PROVE  Room'
<1>1. Cardinality(Listed) \in Nat /\ MaxConcurrent \in Nat
  BY FS_CardinalityType, ConstantsAssumption DEF Room
<1>2. Cardinality(Listed) < MaxConcurrent
  BY <1>1 DEF Counts, LimitReached
<1>3. ~raced' => Unseen' \subseteq {r}
  BY DEF Counts
<1> QED  BY <1>1, <1>2, <1>3 DEF Room, Counts

\* The one start that counted takes the room it found.
LEMMA BearRoom ==
  ASSUME Room, NEW r, Bears(r)
  PROVE  Room'
<1>1. /\ IsFiniteSet(Listed \union {r}) /\ Cardinality(Listed) \in Nat
      /\ Cardinality(Listed \union {r}) <= Cardinality(Listed) + 1
  <2>1. /\ IsFiniteSet(Listed \union {r})
        /\ \/ Cardinality(Listed \union {r}) = Cardinality(Listed)
           \/ Cardinality(Listed \union {r}) = Cardinality(Listed) + 1
    BY FS_AddElement DEF Room
  <2> QED  BY <2>1, FS_CardinalityType DEF Room
<1>2. /\ IsFiniteSet(Listed') /\ Cardinality(Listed') \in Nat
      /\ Cardinality(Listed') <= Cardinality(Listed \union {r})
      /\ Cardinality(Listed \union {r}) \in Nat
  BY <1>1, FS_Subset, FS_CardinalityType DEF Bears
<1>3. ~raced => Cardinality(Listed) < MaxConcurrent /\ Unseen' = {}
  BY DEF Room, Bears
<1>4. ~raced => Cardinality(Listed') <= MaxConcurrent
  BY <1>1, <1>2, <1>3, ConstantsAssumption
<1> QED  BY <1>2, <1>3, <1>4 DEF Room, Bears

\* The older service is the only one there is, and one may be.
LEMMA RoomInit == Init => Room
<1> SUFFICES ASSUME Init PROVE Room
  OBVIOUS
<1>1. Listed \subseteq {Older}
  BY DEF Init, Listed, NoPod
<1>2. IsFiniteSet(Listed) /\ Cardinality(Listed) <= 1 /\ Cardinality(Listed) \in Nat
  <2>1. IsFiniteSet({Older}) /\ Cardinality({Older}) = 1
    BY FS_Singleton
  <2> QED  BY <1>1, <2>1, FS_Subset, FS_CardinalityType
<1>3. Unseen = {}
  BY DEF Init, Unseen, Handlers, Blank
<1>4. MaxConcurrent \in Nat /\ MaxConcurrent >= 1
  BY ConstantsAssumption
<1> QED  BY <1>2, <1>3, <1>4 DEF Room

\* The handlers other than one, and what it means for the starts between count and pod.
Alone(h) == \A q \in Handlers \ {h} : job'[q] = job[q]

LEMMA NoCounting ==
  ASSUME NEW h \in Handlers, Alone(h),
         job'[h].pc = "creating" /\ "pod" \in job'[h].todo
           => job[h].pc = "creating" /\ "pod" \in job[h].todo
  PROVE  Unseen' \subseteq Unseen
BY DEF Alone, Unseen, Handlers

LEMMA NoNewPods ==
  ASSUME \A s \in Services : pod[s].phase = "none" => pod'[s].phase = "none"
  PROVE  Listed' \subseteq Listed
BY DEF Listed

\* The steps of a handler that neither counts nor creates.
LEMMA SideShrinks ==
  ASSUME Typed, NEW r \in Requests,
         \/ Arrive(r) \/ Read(r) \/ Patch(r) \/ CallFails(r)
         \/ Count(r) /\ LimitReached
  PROVE  Shrinks
<1>1. r \in Handlers /\ job \in [Handlers -> Job] /\ job[r] \in Job /\ job[r].svc \in Services
  BY DEF Typed, JobType, Handlers, Job
<1>2. Alone(r) /\ job'[r].pc # "creating"
  <2>1. CASE Arrive(r)
    BY <1>1, <2>1 DEF Arrive, ArriveStart, ArriveExtend, ArriveStop, BeginStop, Blank, Alone
  <2>2. CASE Go(r, "done") \/ Go(r, "failed")
    BY <1>1, <2>2 DEF Go, Blank, Alone
  <2>3. CASE Read(r)
    <3>1. \/ job' = [job EXCEPT ![r].pc = "patch",
                                ![r].until = Extended(job[r].svc, job[r].until)]
          \/ Go(r, "failed")
      BY <2>3 DEF Read
    <3> QED  BY <1>1, <2>2, <3>1 DEF Alone, Job
  <2> QED  BY <2>1, <2>2, <2>3 DEF Patch, CallFails, Count
<1>3. raced' = raced
  BY DEF Arrive, ArriveStart, ArriveExtend, ArriveStop, Read, Patch, CallFails, Count, history
<1>4. \A s \in Services : pod'[s].phase = pod[s].phase
  <2>1. pod' = pod \/ pod' = [pod EXCEPT ![job[r].svc].expiry = job[r].until]
    BY DEF Arrive, ArriveStart, ArriveExtend, ArriveStop, Read, Patch, CallFails, Renew, Count, cluster
  <2> QED  BY <1>1, <2>1 DEF Typed, ClusterType, PodType
<1> QED  BY <1>1, <1>2, <1>3, <1>4, NoCounting, NoNewPods DEF Shrinks

\* A start counts and finds room.
LEMMA CountShape ==
  ASSUME Typed, NEW r \in Requests, Count(r), ~LimitReached
  PROVE  Counts(r)
<1>1. raced' = (raced \/ Unseen # {}) /\ pod' = pod /\ Alone(r)
  BY DEF Count, cluster, Typed, JobType, Alone
<1> QED  BY <1>1 DEF Counts, Alone, Unseen, Listed, Handlers

\* A start makes its next call; that of the pod may take effect although it throws.
LEMMA CreateShape ==
  ASSUME Typed, NEW r \in Requests, CreateNext(r) \/ CreateFails(r)
  PROVE  Shrinks \/ Bears(r)
<1>1. r \in Handlers /\ r \in Services /\ job[r] \in Job /\ job[r].pc = "creating"
  BY DEF Typed, JobType, Handlers, Services, CreateNext, CreateFails
<1>2. PICK o \in job[r].todo :
        /\ Create(r, o, job[r].until) \/ UNCHANGED cluster
        /\ CreateFails(r) \/ /\ Create(r, o, job[r].until)
                             /\ \/ Go(r, "done")
                                \/ job' = [job EXCEPT ![r].todo = @ \ {o}]
  <2>1. CASE CreateNext(r)
    <3>1. PICK o \in Foremost(job[r].todo, StartRank) :
            /\ Create(r, o, job[r].until)
            /\ IF job[r].todo = {o} THEN Go(r, "done")
               ELSE job' = [job EXCEPT ![r].todo = @ \ {o}]
      BY <2>1 DEF CreateNext
    <3> QED  BY <3>1, ForemostLeft
  <2>2. CASE CreateFails(r)
    BY <2>2, ForemostLeft DEF CreateFails
  <2> QED  BY <2>1, <2>2
<1>3. raced' = raced
  BY DEF CreateNext, CreateFails, history
<1>4. Alone(r)
  BY <1>2 DEF CreateFails, GiveUp, Go, Alone, Typed, JobType
<1>5. \/ job'[r].pc # "creating"
      \/ /\ Create(r, o, job[r].until)
         /\ job'[r].pc = job[r].pc /\ job'[r].todo = job[r].todo \ {o}
  <2>1. CreateFails(r) => job'[r].pc # "creating"
    BY <1>1 DEF CreateFails, GiveUp, BeginStop, Blank, Typed, JobType
  <2>2. Go(r, "done") => job'[r].pc # "creating"
    BY <1>1 DEF Go, Blank, Typed, JobType
  <2>3. job' = [job EXCEPT ![r].todo = @ \ {o}]
          => job'[r].pc = job[r].pc /\ job'[r].todo = job[r].todo \ {o}
    BY <1>1 DEF Typed, JobType, Job
  <2> QED  BY <1>2, <2>1, <2>2, <2>3
<1>6. Unseen' \subseteq Unseen
  BY <1>1, <1>4, <1>5, NoCounting
<1>7. CASE o # "pod" \/ UNCHANGED cluster
  <2>1. pod' = pod
    BY <1>2, <1>7 DEF Create, cluster, Typed, ClusterType, PodType
  <2> QED  BY <1>3, <1>6, <2>1, NoNewPods DEF Shrinks
<1>8. CASE o = "pod" /\ Create(r, o, job[r].until)
  <2>1. r \in Unseen /\ r \notin Unseen'
    BY <1>1, <1>2, <1>5, <1>8 DEF Unseen
  <2>2. Listed' \subseteq Listed \union {r}
    BY <1>8 DEF Create, Listed, Typed, ClusterType, PodType
  <2> QED  BY <1>3, <1>6, <2>1, <2>2 DEF Bears
<1> QED  BY <1>2, <1>7, <1>8

\* Deletes, the sweep, the cluster, the clock and a restart add nothing.
LEMMA DeleteShrinks ==
  ASSUME Typed, NEW h \in Handlers, DeleteNext(h)
  PROVE  Shrinks
<1> DEFINE s == job[h].svc
<1>1. job[h] \in Job /\ s \in Services /\ job[h].pc = "stopping"
      /\ job[h].after \in {"done", "failed", "sweep"}
  BY DEF Typed, JobType, Job, DeleteNext
<1>2. PICK o \in job[h].todo :
        /\ \/ job' = [job EXCEPT ![h].todo = @ \ {o}]
           \/ job' = [job EXCEPT ![h] =
                [Blank EXCEPT !.pc = job[h].after, !.op = job[h].op,
                              !.svc = s, !.prey = job[h].prey]]
        /\ Delete(s, o) \/ UNCHANGED cluster
  BY DEF DeleteNext, Foremost
<1>3. Alone(h) /\ job'[h].pc # "creating"
  <2>1. job' = [job EXCEPT ![h].todo = @ \ {o}] => job'[h].pc = job[h].pc
    BY <1>1 DEF Typed, JobType, Job
  <2>2. job' = [job EXCEPT ![h] = [Blank EXCEPT !.pc = job[h].after, !.op = job[h].op,
                                                !.svc = s, !.prey = job[h].prey]]
          => job'[h].pc = job[h].after
    BY <1>1 DEF Typed, JobType, Blank
  <2> QED  BY <1>1, <1>2, <2>1, <2>2 DEF Alone, Typed, JobType
<1>4. \A q \in Services : pod[q].phase = "none" => pod'[q].phase = "none"
  BY <1>1, <1>2 DEF Delete, cluster, Listed, Typed, ClusterType, PodType
<1>5. raced' = raced
  BY DEF DeleteNext, history
<1> QED  BY <1>3, <1>4, <1>5, NoCounting, NoNewPods DEF Shrinks

LEMMA RestShrinks ==
  ASSUME Typed, Sweep \/ ReapNext \/ ReapEnd \/ Environment \/ Crash \/ UNCHANGED vars
  PROVE  Shrinks
<1>1. raced' = raced
  BY DEF Sweep, ReapNext, ReapEnd, Environment, Tick, PodGone, Collect, Crash, vars, history
<1>2. \A r \in Requests : job'[r] = job[r] \/ job'[r].pc = "lost"
  <2>1. Reaper \notin Requests
    BY ConstantsAssumption
  <2>2. CASE Sweep \/ ReapNext \/ ReapEnd
    BY <2>1, <2>2 DEF Sweep, ReapNext, ReapEnd, Typed, JobType, Handlers
  <2>3. CASE Crash
    BY <2>1, <2>3 DEF Crash, Handlers, Blank
  <2>4. CASE Environment \/ UNCHANGED vars
    BY <2>4 DEF Environment, Tick, PodGone, Collect, vars
  <2> QED  BY <2>2, <2>3, <2>4
<1>3. \A s \in Services : pod[s].phase = "none" => pod'[s].phase = "none"
  <2>1. CASE pod' = pod
    BY <2>1
  <2>2. CASE \E s \in Services : PodGone(s)
    BY <2>2 DEF PodGone, NoPod, Typed, ClusterType, PodType
  <2> QED  BY <2>1, <2>2 DEF Sweep, ReapNext, ReapEnd, Environment, Tick, Collect, Crash, vars, cluster
<1> QED  BY <1>1, <1>2, <1>3, NoNewPods DEF Shrinks, Unseen

LEMMA RoomNext == Typed /\ Room /\ [Next]_vars => Room'
<1> SUFFICES ASSUME Typed, Room, [Next]_vars PROVE Room'
  OBVIOUS
<1>1. ASSUME NEW r \in Requests, Arrive(r) \/ Serve(r) PROVE Room'
  <2>1. CASE Count(r) /\ ~LimitReached
    BY <2>1, CountShape, CountRoom
  <2>2. CASE CreateNext(r) \/ CreateFails(r)
    BY <2>2, CreateShape, ShrinkRoom, BearRoom
  <2>3. CASE DeleteNext(r)
    BY <2>3, DeleteShrinks, ShrinkRoom DEF Handlers
  <2> QED  BY <1>1, <2>1, <2>2, <2>3, SideShrinks, ShrinkRoom DEF Serve
<1>2. CASE Reap
  BY <1>2, DeleteShrinks, RestShrinks, ShrinkRoom DEF Reap, Handlers
<1> QED  BY <1>1, <1>2, RestShrinks, ShrinkRoom DEF Next

\* PREVIEW_SERVICE_MAX_CONCURRENT, for any number of requests: as long as no two starts
\* were between the count and the create at once there are no more services than that,
\* although the count is three awaits before the create and a create that throws may have
\* taken effect.
THEOREM PreviewLimit == Spec => []LimitUnlessRaced
<1>1. Init => Typed /\ Room
  BY InitType, RoomInit
<1>2. Typed /\ Room /\ [Next]_vars => (Typed /\ Room)'
  BY NextType, RoomNext
<1>3. Room => LimitUnlessRaced
  BY DEF Room, LimitUnlessRaced
<1> QED  BY <1>1, <1>2, <1>3, PTL DEF Spec

-----------------------------------------------------------------------------
(* Whole services and tied Secrets.  What holds of one service: of the start  *)
(* that makes it, of the handlers that delete it, and of what is left of it. *)

\* A handler is at work on a service.
Minds(h, s) == job[h].svc = s /\ job[h].pc \in {"count", "creating", "stopping"}

\* A service that has no pod yet, or never will have one.
Unmade(s) ==
  s \in Requests /\ \/ job[s].op # "start"
                    \/ job[s].pc = "count"
                    \/ job[s].pc = "creating" /\ "pod" \in job[s].todo

\* A request that starts a service works on that service only.
Keyed(s) ==
  s \in Requests =>
    /\ job[s].op = "start" => job[s].svc = s
    /\ job[s].pc = "idle" => job[s].op = "none"
    /\ job[s].pc \in {"count", "creating"} => job[s].op = "start"
    /\ job[s].pc \in {"read", "patch"} => job[s].op # "start"
    /\ job[s].pc = "stopping" /\ job[s].op = "start" => job[s].after = "failed"

\* Nobody else knows of a service before its pod is listed.
Aimed(s) ==
  /\ \A h \in Handlers : h # s /\ Minds(h, s) => ~Unmade(s)
  /\ s \in job[Reaper].prey => ~Unmade(s)

\* There is nothing of a service before its start creates it.
Fresh(s) ==
  /\ Unmade(s) => pod[s].phase = "none"
  /\ Unmade(s) /\ job[s].pc # "creating" => objs[s] = {}

\* A start has its last calls left, in their order.
Making(s) ==
  s \in Requests /\ job[s].pc = "creating" =>
    /\ job[s].todo \subseteq StartCalls(kind[s])
    /\ \A p \in job[s].todo, q \in StartCalls(kind[s]) :
         StartRank[p] <= StartRank[q] => q \in job[s].todo

Within(s) == objs[s] \subseteq kind[s] /\ kind[s] \subseteq Parts

\* SecretTied, from the call that ties the Secret on.
Tied(s) ==
  /\ s \in Requests /\ job[s].op = "start" /\ "secret" \in objs[s]
  /\ job[s].pc = "done" \/ (job[s].pc = "creating" /\ "own" \notin job[s].todo)
  => s \in bound

\* A start that no stop met is alone with its service, and has made what it has called.
InOrder(s) ==
  s \in Requests /\ job[s].pc = "creating" /\ s \notin cut =>
    /\ \A h \in Handlers : Minds(h, s) => h = s
    /\ objs[s] = kind[s] \ job[s].todo
    /\ pod[s].phase = IF "pod" \in job[s].todo THEN "none" ELSE "up"
    /\ "pod" \in job[s].todo => s \notin bound

Smooth == crashes = 0 /\ slips = 0

\* What a stop has deleted stays deleted.
Deleted(s) ==
  Smooth /\ s \notin cut =>
    \A h \in Handlers : job[h].pc = "stopping" /\ job[h].svc = s =>
      /\ objs[s] \subseteq job[h].todo
      /\ "pod" \notin job[h].todo => pod[s].phase # "up"

\* AllOrNothing, of one service.
Whole(s) ==
  Smooth /\ s \notin cut /\ ~Attended(s) =>
    objs[s] = IF pod[s].phase = "up" THEN kind[s] ELSE {}

Fine(s) == /\ Keyed(s) /\ Aimed(s) /\ Fresh(s) /\ Making(s) /\ Within(s) /\ Tied(s)
           /\ InOrder(s) /\ Deleted(s) /\ Whole(s)

\* What a step that does nothing to a service leaves alone.
SameParts(s) == /\ pod'[s].phase = pod[s].phase /\ objs'[s] = objs[s] /\ kind'[s] = kind[s]
                /\ s \in bound' <=> s \in bound
SameMinds(s) == \A h \in Handlers : Minds(h, s) \/ Minds(h, s)' => job'[h] = job[h]
SameOwner(s) ==
  s \in Requests => \/ job'[s] = job[s]
                    \/ /\ job[s].op # "start" /\ job'[s].op # "start"
                       /\ job[s].pc \notin {"count", "creating"}
                       /\ job'[s].pc \notin {"idle", "count", "creating"}
SamePrey(s)  == s \in job'[Reaper].prey => s \in job[Reaper].prey \/ ~Unmade(s)
Onwards(s)   == (s \in cut => s \in cut') /\ (Smooth' => Smooth)

Untouched(s) == SameParts(s) /\ SameMinds(s) /\ SameOwner(s) /\ SamePrey(s) /\ Onwards(s)

LEMMA UntouchedFine ==
  ASSUME NEW s \in Services, Fine(s), Untouched(s)
  PROVE  Fine(s)'
<1>0. SameParts(s) /\ SameMinds(s) /\ SameOwner(s) /\ SamePrey(s) /\ Onwards(s)
  BY DEF Untouched
<1>1. Unmade(s)' <=> Unmade(s)
  BY <1>0 DEF SameOwner, Unmade
<1>2. Keyed(s)'
  BY <1>0 DEF Fine, Keyed, SameOwner
<1>3. Aimed(s)'
  <2>1. \A h \in Handlers : Minds(h, s)' => Minds(h, s)
    BY <1>0 DEF SameMinds, Minds
  <2> QED  BY <1>0, <1>1, <2>1 DEF Fine, Aimed, SamePrey
<1>4. Fresh(s)'
  <2>1. Unmade(s)' /\ job'[s].pc # "creating" => job[s].pc # "creating"
    BY <1>0 DEF SameOwner, Unmade
  <2> QED  BY <1>0, <1>1, <2>1 DEF Fine, Fresh, SameParts
<1>5. Making(s)'
  BY <1>0 DEF Fine, Making, SameParts, SameOwner, StartCalls
<1>6. Within(s)'
  BY <1>0 DEF Fine, Within, SameParts
<1>7. Tied(s)'
  BY <1>0 DEF Fine, Tied, SameParts, SameOwner
<1>8. InOrder(s)'
  <2>1. \A h \in Handlers : Minds(h, s)' => Minds(h, s)
    BY <1>0 DEF SameMinds, Minds
  <2> QED  BY <1>0, <2>1 DEF Fine, InOrder, SameParts, SameOwner, Onwards
<1>9. Deleted(s)'
  <2> SUFFICES ASSUME Smooth', s \notin cut', NEW h \in Handlers,
                      job'[h].pc = "stopping", job'[h].svc = s
               PROVE  /\ objs'[s] \subseteq job'[h].todo
                      /\ "pod" \notin job'[h].todo => pod'[s].phase # "up"
    BY DEF Deleted
  <2>1. job'[h] = job[h]
    BY <1>0 DEF SameMinds, Minds
  <2> QED  BY <1>0, <2>1 DEF Fine, Deleted, SameParts, Onwards
<1>10. Whole(s)'
  <2>1. Attended(s) => Attended(s)'
    BY <1>0 DEF SameMinds, Minds, Attended
  <2> QED  BY <1>0, <2>1 DEF Fine, Whole, SameParts, Onwards
<1> QED  BY <1>2, <1>3, <1>4, <1>5, <1>6, <1>7, <1>8, <1>9, <1>10 DEF Fine

\* A step of one handler that is at work on another service, or on none.
LEMMA Elsewhere ==
  ASSUME Typed, NEW s \in Services, Fine(s), NEW h \in Handlers, Alone(h),
         ~Minds(h, s), ~Minds(h, s)', SameParts(s), SamePrey(s), Onwards(s),
         s \in Requests /\ h = s =>
           /\ job[s].op # "start" /\ job'[s].op # "start"
           /\ job[s].pc \notin {"count", "creating"}
           /\ job'[s].pc \notin {"idle", "count", "creating"}
  PROVE  Fine(s)'
<1>1. SameOwner(s)
  BY DEF SameOwner, Alone, Handlers
<1>2. SameMinds(s)
  BY DEF SameMinds, Alone
<1> QED  BY <1>1, <1>2, UntouchedFine DEF Untouched

\* Another handler begins to stop a service that has a pod, or had one.
LEMMA JoinFine ==
  ASSUME Typed, NEW s \in Services, Fine(s), NEW h \in Handlers, Alone(h),
         s \in Requests => h # s, ~Unmade(s), SameParts(s), SamePrey(s),
         job'[h].pc = "stopping", job'[h].svc = s, job'[h].todo = StopCalls,
         cut' = cut \union ({s} \intersect Starting), crashes' = crashes, slips' = slips
  PROVE  Fine(s)'
<1>1. s \in Requests => job'[s] = job[s]
  BY DEF Alone, Handlers
<1>2. ~Unmade(s)'
  BY <1>1 DEF Unmade
<1>3. Keyed(s)'
  BY <1>1 DEF Fine, Keyed
<1>4. Aimed(s)' /\ Fresh(s)'
  BY <1>2 DEF Aimed, Fresh
<1>5. Making(s)' /\ Within(s)' /\ Tied(s)'
  BY <1>1 DEF Fine, Making, Within, Tied, SameParts, StartCalls
<1>6. InOrder(s)'
  BY <1>1 DEF InOrder, Starting
<1>7. Deleted(s)'
  <2>1. objs[s] \subseteq StopCalls /\ "pod" \in StopCalls
    BY DEF Fine, Within, StopCalls
  <2> SUFFICES ASSUME Smooth', s \notin cut', NEW q \in Handlers,
                      job'[q].pc = "stopping", job'[q].svc = s
               PROVE  /\ objs'[s] \subseteq job'[q].todo
                      /\ "pod" \notin job'[q].todo => pod'[s].phase # "up"
    BY DEF Deleted
  <2>2. CASE q = h
    BY <2>1, <2>2 DEF SameParts
  <2>3. CASE q # h
    BY <2>3 DEF Alone, SameParts, Fine, Deleted, Smooth
  <2> QED  BY <2>2, <2>3
<1>8. Whole(s)'
  BY DEF Whole, Attended
<1> QED  BY <1>3, <1>4, <1>5, <1>6, <1>7, <1>8 DEF Fine

\* A start that has counted, or could not, is over before anything was created.
LEMMA LeaveFine ==
  ASSUME Typed, NEW r \in Requests, Fine(r), Alone(r), job[r].pc = "count",
         job'[r].pc = "failed", job'[r].op = job[r].op, job'[r].svc = job[r].svc,
         UNCHANGED <<pod, objs, bound, kind, cut>>, crashes' = crashes, slips' = slips
  PROVE  Fine(r)'
<1>1. Unmade(r) /\ job[r].op = "start" /\ ~Unmade(r)'
  BY DEF Unmade, Fine, Keyed
<1>2. Keyed(r)'
  BY DEF Fine, Keyed
<1>3. Aimed(r)' /\ Fresh(r)' /\ Making(r)' /\ Tied(r)' /\ InOrder(r)'
  BY <1>1 DEF Aimed, Fresh, Making, Tied, InOrder
<1>4. Within(r)'
  BY DEF Fine, Within
<1>5. Deleted(r)'
  <2>1. \A h \in Handlers : ~(job'[h].pc = "stopping" /\ job'[h].svc = r)
    BY <1>1 DEF Alone, Fine, Aimed, Minds
  <2> QED  BY <2>1 DEF Deleted
<1>6. Whole(r)'
  <2>1. objs[r] = {} /\ pod[r].phase = "none"
    BY <1>1 DEF Fine, Fresh
  <2> QED  BY <2>1 DEF Whole
<1> QED  BY <1>2, <1>3, <1>4, <1>5, <1>6 DEF Fine

\* What Go leaves of a request.
LEMMA GoesOver ==
  ASSUME Typed, NEW r \in Handlers, NEW l, Go(r, l)
  PROVE  /\ Alone(r) /\ job'[r].pc = l /\ job'[r].op = job[r].op
         /\ job'[r].svc = job[r].svc /\ job'[r].prey = {}
BY DEF Go, Blank, Alone, Typed, JobType

\* What BeginStop leaves of one.
LEMMA BeginStopIs ==
  ASSUME NEW h, NEW s, NEW l
  PROVE  /\ BeginStop(h, s, l).pc = "stopping" /\ BeginStop(h, s, l).svc = s
         /\ BeginStop(h, s, l).op = job[h].op /\ BeginStop(h, s, l).todo = StopCalls
         /\ BeginStop(h, s, l).after = l /\ BeginStop(h, s, l).prey = job[h].prey
BY DEF BeginStop, Blank

\* The reaper is no request: a step of one leaves its prey.
LEMMA RequestPrey ==
  ASSUME NEW r \in Requests, Alone(r)
  PROVE  \A s : SamePrey(s)
BY ConstantsAssumption DEF SamePrey, Alone, Handlers

AllFine == \A s \in Services : Fine(s)

\* A start arrives: its service is new.
LEMMA ArriveStartFine ==
  ASSUME Typed, AllFine, NEW r \in Requests, ArriveStart(r)
  PROVE  AllFine'
<1>0. r \in Handlers /\ r \in Services /\ Fine(r) /\ Reaper # r
  BY ConstantsAssumption DEF AllFine, Handlers, Services
<1>1. PICK k \in Kinds, t \in Periods :
        /\ kind' = [kind EXCEPT ![r] = k]
        /\ job' = [job EXCEPT ![r] =
             [Blank EXCEPT !.pc = "count", !.op = "start", !.svc = r, !.until = Lifetime(t)]]
  BY DEF ArriveStart
<1>2. /\ Alone(r) /\ job[r].pc = "idle" /\ job'[r].pc = "count" /\ job'[r].op = "start"
      /\ job'[r].svc = r /\ UNCHANGED <<pod, objs, bound, cut, crashes, slips>>
  BY <1>0, <1>1 DEF ArriveStart, Alone, Blank, cluster, used, history, Typed, JobType
<1>3. kind'[r] \subseteq Parts /\ \A s \in Services \ {r} : kind'[s] = kind[s]
  BY <1>0, <1>1 DEF Kinds, Typed, KindType
<1>4. ASSUME NEW s \in Services, s # r PROVE Fine(s)'
  <2>1. SameParts(s) /\ Onwards(s)
    BY <1>2, <1>3, <1>4 DEF SameParts, Onwards, Smooth
  <2>2. ~Minds(r, s) /\ ~Minds(r, s)'
    BY <1>2, <1>4 DEF Minds
  <2> QED  BY <1>0, <1>2, <1>4, <2>1, <2>2, RequestPrey, Elsewhere DEF AllFine
<1>5. Fine(r)'
  <2>1. Unmade(r) /\ Unmade(r)' /\ objs[r] = {} /\ pod[r].phase = "none"
    BY <1>0, <1>2 DEF Fine, Keyed, Fresh, Unmade
  <2>2. Keyed(r)' /\ Fresh(r)' /\ Making(r)' /\ Tied(r)' /\ InOrder(r)' /\ Whole(r)'
    BY <1>0, <1>2, <2>1 DEF Keyed, Fresh, Making, Tied, InOrder, Whole, Attended
  <2>3. Within(r)'
    BY <1>2, <1>3, <2>1 DEF Within
  <2>4. \A h \in Handlers \ {r} : ~Minds(h, r)'
    BY <1>0, <1>2, <2>1 DEF Fine, Aimed, Minds, Alone
  <2>5. Aimed(r)'
    BY <1>0, <1>2, <2>1, <2>4 DEF Fine, Aimed, Alone, Handlers
  <2>6. Deleted(r)'
    BY <1>2, <2>4 DEF Deleted, Minds
  <2> QED  BY <2>2, <2>3, <2>5, <2>6 DEF Fine
<1> QED  BY <1>4, <1>5 DEF AllFine

\* A stop, or an extension, arrives, for a service that there is or was.
LEMMA KnownMade ==
  ASSUME Typed, AllFine, NEW s \in Known
  PROVE  s \in Services /\ ~Unmade(s)
<1>1. CASE s = Older
  BY <1>1, ConstantsAssumption DEF Unmade, Services
<1>2. CASE s \in Listed
  BY <1>2 DEF Listed, AllFine, Fine, Fresh
<1>3. CASE s \in Requests /\ job[s].op = "start" /\ job[s].pc = "done"
  BY <1>3 DEF Unmade, Services
<1> QED  BY <1>1, <1>2, <1>3 DEF Known

LEMMA ArriveStopFine ==
  ASSUME Typed, AllFine, NEW r \in Requests, ArriveStop(r)
  PROVE  AllFine'
<1>0. r \in Handlers /\ r \in Services /\ Fine(r)
  BY DEF AllFine, Handlers, Services
<1>1. PICK t \in Known :
        /\ job' = [job EXCEPT ![r] = [BeginStop(r, t, "done") EXCEPT !.op = "stop"]]
        /\ cut' = cut \union ({t} \intersect Starting)
  BY DEF ArriveStop
<1>2. /\ Alone(r) /\ job[r].pc = "idle" /\ job'[r].pc = "stopping" /\ job'[r].op = "stop"
      /\ job'[r].svc = t /\ job'[r].todo = StopCalls
      /\ UNCHANGED <<pod, objs, bound, kind, crashes, slips>>
  <2>1. UNCHANGED <<pod, objs, bound, kind, crashes, slips>> /\ job[r].pc = "idle"
    BY DEF ArriveStop, cluster, used
  <2>2. Alone(r) /\ job'[r] = [BeginStop(r, t, "done") EXCEPT !.op = "stop"]
    BY <1>0, <1>1 DEF Alone, Typed, JobType
  <2>3. /\ job'[r].pc = "stopping" /\ job'[r].op = "stop"
        /\ job'[r].svc = t /\ job'[r].todo = StopCalls
    BY <2>2 DEF BeginStop, Blank
  <2> QED  BY <2>1, <2>2, <2>3
<1>3. Unmade(r) /\ job[r].op # "start"
  BY <1>0, <1>2 DEF Fine, Keyed, Unmade
<1>4. t \in Services /\ ~Unmade(t) /\ t # r
  BY <1>3, KnownMade
<1> SUFFICES ASSUME NEW s \in Services PROVE Fine(s)'
  BY DEF AllFine
<1>5. Fine(s) /\ SameParts(s) /\ SamePrey(s)
  BY <1>2, RequestPrey DEF AllFine, SameParts
<1>6. CASE s = t
  BY <1>0, <1>1, <1>2, <1>4, <1>5, <1>6, JoinFine
<1>7. CASE s # t
  <2>1. ~Minds(r, s) /\ ~Minds(r, s)'
    BY <1>2, <1>7 DEF Minds
  <2>2. Onwards(s)
    BY <1>1, <1>2 DEF Onwards, Smooth
  <2> QED  BY <1>0, <1>2, <1>3, <1>5, <2>1, <2>2, Elsewhere
<1> QED  BY <1>6, <1>7

\* extend minds no service, nor does its arrival.
LEMMA ExtendFine ==
  ASSUME Typed, AllFine, NEW r \in Requests,
         ArriveExtend(r) \/ Read(r) \/ Patch(r) \/ (CallFails(r) /\ job[r].pc # "count")
  PROVE  AllFine'
<1>0. r \in Handlers /\ r \in Services /\ Fine(r) /\ job[r] \in Job
      /\ job[r].svc \in Services /\ job \in [Handlers -> Job]
  BY DEF AllFine, Handlers, Services, Typed, JobType, Job
<1>1. /\ Alone(r) /\ job'[r].op \in {job[r].op, "extend"}
      /\ job[r].pc \in {"idle", "read", "patch"} /\ job'[r].pc \in {"read", "patch", "done", "failed"}
  <2>1. CASE ArriveExtend(r)
    BY <1>0, <2>1 DEF ArriveExtend, Alone, Blank
  <2>2. CASE Go(r, "done") \/ Go(r, "failed")
    BY <1>0, <2>2, GoesOver DEF Read, Patch, CallFails, ArriveExtend
  <2>3. CASE Read(r)
    <3>1. \/ job' = [job EXCEPT ![r].pc = "patch",
                                ![r].until = Extended(job[r].svc, job[r].until)]
          \/ Go(r, "failed")
      BY <2>3 DEF Read
    <3> QED  BY <1>0, <2>2, <2>3, <3>1 DEF Alone, Job, Read
  <2> QED  BY <2>1, <2>2, <2>3 DEF Patch, CallFails
<1>2. job[r].op # "start" /\ job'[r].op # "start"
  BY <1>0, <1>1 DEF Fine, Keyed
<1>3. /\ UNCHANGED <<objs, bound, kind, cut>> /\ (Smooth' => Smooth)
      /\ \A s \in Services : pod'[s].phase = pod[s].phase
  <2>1. pod' = pod \/ pod' = [pod EXCEPT ![job[r].svc].expiry = job[r].until]
    BY DEF ArriveExtend, Read, Patch, CallFails, Renew, cluster
  <2>2. \A s \in Services : pod'[s].phase = pod[s].phase
    BY <1>0, <2>1 DEF Typed, ClusterType, PodType
  <2>3. UNCHANGED <<objs, bound, kind, cut>>
    BY DEF ArriveExtend, Read, Patch, CallFails, cluster, history
  <2>4. crashes' = crashes /\ slips' = slips
    BY DEF ArriveExtend, Read, Patch, CallFails, Throws, used
  <2> QED  BY <2>2, <2>3, <2>4 DEF Smooth
<1> SUFFICES ASSUME NEW s \in Services PROVE Fine(s)'
  BY DEF AllFine
<1>4. Fine(s) /\ SameParts(s) /\ SamePrey(s) /\ Onwards(s)
  BY <1>1, <1>3, RequestPrey DEF AllFine, SameParts, Onwards
<1>5. ~Minds(r, s) /\ ~Minds(r, s)'
  BY <1>1 DEF Minds
<1>6. /\ job[r].pc \notin {"count", "creating"}
      /\ job'[r].pc \notin {"idle", "count", "creating"}
  BY <1>1
<1> QED  BY <1>0, <1>1, <1>2, <1>4, <1>5, <1>6, Elsewhere

\* A step of a start does nothing to the other services.
LEMMA OthersFine ==
  ASSUME Typed, AllFine, NEW r \in Requests, Alone(r),
         job[r].pc \in {"count", "creating"}, job'[r].svc = r,
         \A s \in Services \ {r} : SameParts(s),
         cut' = cut, crashes' = crashes, slips' = slips
  PROVE  \A s \in Services \ {r} : Fine(s)'
<1> SUFFICES ASSUME NEW s \in Services, s # r PROVE Fine(s)'
  OBVIOUS
<1>1. r \in Handlers /\ r \in Services
  BY DEF Handlers, Services
<1>2. job[r].svc = r
  BY <1>1 DEF AllFine, Fine, Keyed
<1>3. ~Minds(r, s) /\ ~Minds(r, s)'
  BY <1>2 DEF Minds
<1>4. Fine(s) /\ SameParts(s) /\ SamePrey(s) /\ Onwards(s)
  BY RequestPrey DEF AllFine, Onwards, Smooth
<1> QED  BY <1>1, <1>3, <1>4, Elsewhere

\* The count finds no room, or throws.
LEMMA CountEndsFine ==
  ASSUME Typed, AllFine, NEW r \in Requests, job[r].pc = "count", Go(r, "failed"),
         UNCHANGED <<pod, objs, bound, kind, cut, crashes, slips>>
  PROVE  AllFine'
<1>1. r \in Handlers /\ r \in Services /\ Fine(r)
  BY DEF AllFine, Handlers, Services
<1>2. /\ Alone(r) /\ job'[r].pc = "failed" /\ job'[r].op = job[r].op
      /\ job'[r].svc = job[r].svc /\ job[r].svc = r
  BY <1>1, GoesOver DEF Fine, Keyed
<1>3. Fine(r)'
  BY <1>1, <1>2, LeaveFine
<1>4. \A s \in Services \ {r} : Fine(s)'
  BY <1>2, OthersFine DEF SameParts
<1> QED  BY <1>3, <1>4 DEF AllFine

\* The count finds room: everything is still to be created.
LEMMA CountBeginsFine ==
  ASSUME Typed, AllFine, NEW r \in Requests, Count(r), ~LimitReached
  PROVE  AllFine'
<1>1. r \in Handlers /\ r \in Services /\ Fine(r) /\ Reaper # r
  BY ConstantsAssumption DEF AllFine, Handlers, Services
<1>2. /\ job[r].pc = "count" /\ UNCHANGED <<pod, objs, bound, kind, cut, crashes, slips>>
      /\ job' = [job EXCEPT ![r].pc = "creating", ![r].todo = StartCalls(kind[r]),
                            ![r].until = now + @]
  BY DEF Count, cluster, used
<1>3. job \in [Handlers -> Job] /\ job[r] \in Job
  BY <1>1 DEF Typed, JobType
<1>4. /\ Alone(r) /\ job'[r].pc = "creating" /\ job'[r].op = job[r].op
      /\ job'[r].svc = job[r].svc /\ job'[r].todo = StartCalls(kind[r])
  BY <1>1, <1>2, <1>3 DEF Job, Alone
<1>5. job[r].op = "start" /\ job[r].svc = r
  BY <1>1, <1>2 DEF Fine, Keyed
<1>6. Unmade(r) /\ Unmade(r)' /\ objs[r] = {} /\ pod[r].phase = "none"
  BY <1>1, <1>2, <1>4 DEF Fine, Fresh, Unmade, StartCalls
<1>7. \A h \in Handlers \ {r} : ~Minds(h, r)'
  BY <1>1, <1>4, <1>6 DEF Fine, Aimed, Minds, Alone
<1>8. Fine(r)'
  <2>1. Keyed(r)' /\ Within(r)' /\ Tied(r)' /\ Fresh(r)'
    BY <1>1, <1>2, <1>4, <1>5, <1>6 DEF Fine, Keyed, Within, Tied, Fresh
  <2>2. Aimed(r)'
    BY <1>1, <1>4, <1>6, <1>7 DEF Fine, Aimed, Alone, Handlers
  <2>3. Making(r)'
    BY <1>2, <1>4 DEF Making, StartCalls
  <2>4. InOrder(r)'
    <3>1. r \notin bound
      BY <1>1, <1>6 DEF Typed, ClusterType, BoundType
    <3>2. kind[r] \subseteq StartCalls(kind[r]) /\ "pod" \in StartCalls(kind[r])
      BY DEF StartCalls
    <3> QED  BY <1>2, <1>4, <1>6, <1>7, <3>1, <3>2 DEF InOrder
  <2>5. Deleted(r)' /\ Whole(r)'
    BY <1>1, <1>4, <1>5, <1>7 DEF Deleted, Whole, Attended, Minds
  <2> QED  BY <2>1, <2>2, <2>3, <2>4, <2>5 DEF Fine
<1>9. \A s \in Services \ {r} : Fine(s)'
  BY <1>2, <1>4, <1>5, OthersFine DEF SameParts
<1> QED  BY <1>8, <1>9 DEF AllFine

\* No two calls of a start have one place in its order.
LEMMA RankApart ==
  \A p, q \in Calls : StartRank[p] <= StartRank[q] /\ StartRank[q] <= StartRank[p] => p = q
BY DEF Calls, Objects, StartRank

LEMMA RankOrder ==
  /\ StartRank["secret"] <= StartRank["own"] /\ ~(StartRank["own"] <= StartRank["pod"])
  /\ "own" \notin Objects /\ "pod" \notin Objects
BY DEF StartRank, Objects

\* What a call of a start that takes effect does, to its service and to no other.
LEMMA CreateIs ==
  ASSUME Typed, NEW r \in Services, NEW o, NEW t, Create(r, o, t)
  PROVE  /\ pod'[r].phase = IF o = "pod" THEN "up" ELSE pod[r].phase
         /\ objs'[r] = objs[r] \union ({o} \intersect Objects)
         /\ r \in bound' <=> o = "own" \/ r \in bound
         /\ \A s \in Services \ {r} : /\ pod'[s] = pod[s] /\ objs'[s] = objs[s]
                                      /\ s \in bound' <=> s \in bound
<1>1. pod \in [Services -> [phase : {"none", "up", "dying"}, born : Nat, expiry : Nat]]
      /\ objs \in [Services -> SUBSET Objects]
  BY DEF Typed, ClusterType, PodType, ObjType
<1>2. /\ pod'[r].phase = IF o = "pod" THEN "up" ELSE pod[r].phase
      /\ \A s \in Services \ {r} : pod'[s] = pod[s]
  BY <1>1 DEF Create, NewPod
<1>3. /\ objs'[r] = objs[r] \union ({o} \intersect Objects)
      /\ \A s \in Services \ {r} : objs'[s] = objs[s]
  BY <1>1 DEF Create
<1>4. /\ r \in bound' <=> o = "own" \/ r \in bound
      /\ \A s \in Services \ {r} : s \in bound' <=> s \in bound
  BY DEF Create
<1> QED  BY <1>2, <1>3, <1>4

\* What the next call of a start is, seen from the calls that it leaves.
LEMMA NextCall ==
  ASSUME Typed, NEW r \in Requests, Fine(r), job[r].pc = "creating",
         NEW o \in Foremost(job[r].todo, StartRank)
  PROVE  /\ o \in job[r].todo /\ o \in StartCalls(kind[r]) /\ o \in Calls
         /\ {o} \intersect Objects = {o} \intersect kind[r]
         /\ o = "own" => "pod" \notin job[r].todo
         /\ o = "secret" => "own" \in job[r].todo
         /\ \A p \in job[r].todo \ {o}, q \in StartCalls(kind[r]) :
              StartRank[p] <= StartRank[q] => q \in job[r].todo \ {o}
<1>1. /\ o \in job[r].todo /\ \A p \in job[r].todo : StartRank[o] <= StartRank[p]
      /\ o \in StartCalls(kind[r])
  BY DEF Foremost, Fine, Making
<1>2. kind[r] \subseteq Objects /\ StartCalls(kind[r]) \subseteq Calls /\ r \in Services
  BY DEF Typed, KindType, Services, StartCalls, Calls
<1>3. {o} \intersect Objects = {o} \intersect kind[r]
  BY <1>1, <1>2, RankOrder DEF StartCalls
<1>4. o = "own" => "pod" \notin job[r].todo
  BY <1>1, RankOrder
<1>5. o = "secret" => "own" \in job[r].todo
  <2>1. o = "secret" => "secret" \in kind[r] /\ "own" \in StartCalls(kind[r])
    BY <1>1, <1>2 DEF StartCalls
  <2> QED  BY <1>1, <2>1, RankOrder DEF Fine, Making
<1>6. ASSUME NEW p \in job[r].todo \ {o}, NEW q \in StartCalls(kind[r]),
             StartRank[p] <= StartRank[q]
      PROVE  q \in job[r].todo \ {o}
  <2>1. q \in job[r].todo
    BY <1>6 DEF Fine, Making
  <2>2. p \in Calls /\ o \in Calls
    BY <1>1, <1>2 DEF Fine, Making
  <2>3. q # o
    BY <1>1, <1>6, <2>2, RankApart
  <2> QED  BY <2>1, <2>3
<1> QED  BY <1>1, <1>2, <1>3, <1>4, <1>5, <1>6

\* A call of a start succeeds, and was the last or not.
LEMMA CreateNextFine ==
  ASSUME Typed, AllFine, NEW r \in Requests, CreateNext(r)
  PROVE  AllFine'
<1>1. /\ r \in Handlers /\ r \in Services /\ Fine(r) /\ Reaper # r
      /\ job \in [Handlers -> Job] /\ job[r] \in Job
  BY ConstantsAssumption DEF AllFine, Handlers, Services, Typed, JobType
<1>2. /\ job[r].pc = "creating" /\ UNCHANGED <<kind, cut, crashes, slips>>
      /\ job[r].op = "start" /\ job[r].svc = r
  BY <1>1 DEF CreateNext, used, history, Fine, Keyed
<1>3. PICK o \in Foremost(job[r].todo, StartRank) :
        /\ Create(r, o, job[r].until)
        /\ IF job[r].todo = {o} THEN Go(r, "done")
           ELSE job' = [job EXCEPT ![r].todo = @ \ {o}]
  BY DEF CreateNext
<1>4. /\ pod'[r].phase = IF o = "pod" THEN "up" ELSE pod[r].phase
      /\ objs'[r] = objs[r] \union ({o} \intersect Objects)
      /\ r \in bound' <=> o = "own" \/ r \in bound
      /\ \A s \in Services \ {r} : /\ pod'[s] = pod[s] /\ objs'[s] = objs[s]
                                   /\ s \in bound' <=> s \in bound
  BY <1>1, <1>3, CreateIs
<1>5. /\ o \in job[r].todo /\ o \in StartCalls(kind[r])
      /\ {o} \intersect Objects = {o} \intersect kind[r]
      /\ o = "own" => "pod" \notin job[r].todo
      /\ o = "secret" => "own" \in job[r].todo
      /\ \A p \in job[r].todo \ {o}, q \in StartCalls(kind[r]) :
           StartRank[p] <= StartRank[q] => q \in job[r].todo \ {o}
  BY <1>1, <1>2, NextCall
<1>6. Alone(r) /\ job'[r].op = "start" /\ job'[r].svc = r
  <2>1. CASE Go(r, "done")
    BY <1>1, <1>2, <2>1, GoesOver
  <2>2. CASE job' = [job EXCEPT ![r].todo = @ \ {o}]
    BY <1>1, <1>2, <2>2 DEF Alone, Job
  <2> QED  BY <1>3, <2>1, <2>2
<1>7. \/ job[r].todo = {o} /\ job'[r].pc = "done"
      \/ job'[r].pc = "creating" /\ job'[r].todo = job[r].todo \ {o} /\ job[r].todo # {o}
  <2>1. job[r].todo = {o} => job'[r].pc = "done"
    BY <1>1, <1>3, GoesOver
  <2>2. job[r].todo # {o} => job'[r].pc = "creating" /\ job'[r].todo = job[r].todo \ {o}
    BY <1>1, <1>2, <1>3 DEF Job
  <2> QED  BY <2>1, <2>2
<1>8. Keyed(r)' /\ Within(r)'
  BY <1>1, <1>2, <1>4, <1>5, <1>6, <1>7 DEF Fine, Keyed, Within
<1>9. Unmade(r)' => Unmade(r) /\ o # "pod" /\ job'[r].pc = "creating"
  BY <1>2, <1>6, <1>7 DEF Unmade
<1>10. Aimed(r)'
  <2>1. \A h \in Handlers \ {r} : Minds(h, r)' => Minds(h, r)
    BY <1>6 DEF Alone, Minds
  <2> QED  BY <1>1, <1>6, <1>9, <2>1 DEF Fine, Aimed, Alone, Handlers
<1>11. Fresh(r)'
  BY <1>1, <1>4, <1>9 DEF Fine, Fresh
<1>12. Making(r)'
  BY <1>1, <1>2, <1>5, <1>7 DEF Fine, Making
<1>13. Tied(r)'
  <2>1. o # "secret" => ("secret" \in objs'[r] <=> "secret" \in objs[r])
    BY <1>4
  <2>2. CASE o = "own"
    BY <1>4, <2>2 DEF Tied
  <2>3. CASE o = "secret"
    BY <1>5, <1>7, <2>3 DEF Tied
  <2>4. CASE o # "own" /\ o # "secret"
    <3>1. job'[r].pc = "done" \/ (job'[r].pc = "creating" /\ "own" \notin job'[r].todo)
            => "own" \notin job[r].todo
      BY <1>7, <2>4
    <3> QED  BY <1>1, <1>2, <1>4, <2>1, <2>4, <3>1 DEF Fine, Tied
  <2> QED  BY <2>2, <2>3, <2>4
<1>14. ASSUME r \notin cut'
       PROVE  /\ \A h \in Handlers \ {r} : ~Minds(h, r)'
              /\ objs'[r] = kind[r] \ (job[r].todo \ {o})
              /\ pod'[r].phase = IF "pod" \in job[r].todo \ {o} THEN "none" ELSE "up"
              /\ "pod" \in job[r].todo \ {o} => r \notin bound'
  <2>1. /\ \A h \in Handlers : Minds(h, r) => h = r
        /\ objs[r] = kind[r] \ job[r].todo
        /\ pod[r].phase = IF "pod" \in job[r].todo THEN "none" ELSE "up"
        /\ "pod" \in job[r].todo => r \notin bound
    BY <1>1, <1>2, <1>14 DEF Fine, InOrder
  <2>2. \A h \in Handlers \ {r} : ~Minds(h, r)'
    BY <1>6, <2>1 DEF Alone, Minds
  <2>3. objs'[r] = kind[r] \ (job[r].todo \ {o})
    BY <1>4, <1>5, <2>1
  <2>4. pod'[r].phase = IF "pod" \in job[r].todo \ {o} THEN "none" ELSE "up"
    BY <1>4, <2>1
  <2>5. "pod" \in job[r].todo \ {o} => r \notin bound'
    BY <1>4, <1>5, <2>1
  <2> QED  BY <2>2, <2>3, <2>4, <2>5
<1>15. InOrder(r)'
  BY <1>2, <1>7, <1>14 DEF InOrder
<1>16. Deleted(r)'
  BY <1>7, <1>14 DEF Deleted, Minds
<1>17. Whole(r)'
  <2>1. CASE job'[r].pc = "creating"
    BY <1>1, <1>6, <2>1 DEF Whole, Attended
  <2>2. CASE job[r].todo = {o}
    <3>1. job[r].todo \ {o} = {}
      BY <2>2
    <3> QED  BY <1>2, <1>14, <3>1 DEF Whole
  <2> QED  BY <1>7, <2>1, <2>2
<1>18. Fine(r)'
  BY <1>8, <1>10, <1>11, <1>12, <1>13, <1>15, <1>16, <1>17 DEF Fine
<1>19. \A s \in Services \ {r} : Fine(s)'
  BY <1>2, <1>4, <1>6, OthersFine DEF SameParts
<1> QED  BY <1>18, <1>19 DEF AllFine

\* A call of a start throws, having taken effect or not: all of it is to be stopped.
LEMMA CreateFailsFine ==
  ASSUME Typed, AllFine, NEW r \in Requests, CreateFails(r)
  PROVE  AllFine'
<1>1. /\ r \in Handlers /\ r \in Services /\ Fine(r) /\ Reaper # r
      /\ job \in [Handlers -> Job] /\ job[r] \in Job
  BY ConstantsAssumption DEF AllFine, Handlers, Services, Typed, JobType
<1>2. /\ job[r].pc = "creating" /\ UNCHANGED <<kind, cut, crashes, slips>>
      /\ job[r].op = "start" /\ job[r].svc = r
  BY <1>1 DEF CreateFails, Throws, used, history, Fine, Keyed
<1>3. PICK o \in Foremost(job[r].todo, StartRank) :
        UNCHANGED cluster \/ Create(r, o, job[r].until)
  BY DEF CreateFails
<1>4. /\ objs'[r] \subseteq objs[r] \union ({o} \intersect Objects)
      /\ \A s \in Services \ {r} : /\ pod'[s] = pod[s] /\ objs'[s] = objs[s]
                                   /\ s \in bound' <=> s \in bound
  <2>1. CASE UNCHANGED cluster
    BY <2>1 DEF cluster
  <2>2. CASE Create(r, o, job[r].until)
    BY <1>1, <2>2, CreateIs
  <2> QED  BY <1>3, <2>1, <2>2
<1>5. Alone(r) /\ job'[r] = BeginStop(r, r, "failed")
  BY <1>1 DEF CreateFails, GiveUp, Alone
<1>6. /\ job'[r].pc = "stopping" /\ job'[r].op = "start" /\ job'[r].svc = r
      /\ job'[r].todo = StopCalls /\ job'[r].after = "failed"
  BY <1>2, <1>5, BeginStopIs
<1>7. Fine(r)'
  <2>1. Keyed(r)'
    BY <1>6 DEF Keyed
  <2>2. ~Unmade(r)'
    BY <1>6 DEF Unmade
  <2>3. Aimed(r)' /\ Fresh(r)' /\ Making(r)' /\ Tied(r)' /\ InOrder(r)' /\ Whole(r)'
    BY <1>1, <1>6, <2>2 DEF Aimed, Fresh, Making, Tied, InOrder, Whole, Attended
  <2>4. Within(r)'
    <3>1. {o} \intersect Objects = {o} \intersect kind[r]
      BY <1>1, <1>2, NextCall
    <3> QED  BY <1>1, <1>2, <1>4, <3>1 DEF Fine, Within
  <2>5. Deleted(r)'
    <3>1. objs'[r] \subseteq StopCalls /\ "pod" \in StopCalls
      BY <2>4 DEF Within, StopCalls
    <3>2. r \notin cut' => \A h \in Handlers \ {r} : ~Minds(h, r)'
      BY <1>1, <1>2, <1>5 DEF Fine, InOrder, Minds, Alone
    <3> QED  BY <1>6, <3>1, <3>2 DEF Deleted, Minds
  <2> QED  BY <2>1, <2>3, <2>4, <2>5 DEF Fine
<1>8. \A s \in Services \ {r} : Fine(s)'
  BY <1>2, <1>4, <1>5, <1>6, OthersFine DEF SameParts
<1> QED  BY <1>7, <1>8 DEF AllFine

\* What is left after one delete, of the service it is about and of the others.
LEMMA DeleteIs ==
  ASSUME Typed, NEW s \in Services, NEW o, Delete(s, o)
  PROVE  /\ objs'[s] = objs[s] \ {o}
         /\ pod'[s].phase # "up" <=> o = "pod" \/ pod[s].phase # "up"
         /\ pod'[s].phase = "none" <=> pod[s].phase = "none"
         /\ o # "secret" => bound' = bound
         /\ \A q \in Services \ {s} : /\ pod'[q] = pod[q] /\ objs'[q] = objs[q]
                                      /\ q \in bound' <=> q \in bound
<1>1. pod \in [Services -> [phase : {"none", "up", "dying"}, born : Nat, expiry : Nat]]
      /\ objs \in [Services -> SUBSET Objects]
  BY DEF Typed, ClusterType, PodType, ObjType
<1>2. /\ objs'[s] = objs[s] \ {o} /\ \A q \in Services \ {s} : objs'[q] = objs[q]
  BY <1>1 DEF Delete
<1>3. /\ pod'[s].phase # "up" <=> o = "pod" \/ pod[s].phase # "up"
      /\ pod'[s].phase = "none" <=> pod[s].phase = "none"
      /\ \A q \in Services \ {s} : pod'[q] = pod[q]
  BY <1>1 DEF Delete, Listed
<1>4. /\ o # "secret" => bound' = bound
      /\ \A q \in Services \ {s} : q \in bound' <=> q \in bound
  BY DEF Delete
<1> QED  BY <1>2, <1>3, <1>4

\* A delete, of a stop, of a start that gave up or of the sweep.
LEMMA DeleteNextFine ==
  ASSUME Typed, AllFine, NEW h \in Handlers, DeleteNext(h)
  PROVE  AllFine'
<1>0. PICK t \in Services : t = job[h].svc
  BY DEF Typed, JobType, Job
<1>1. /\ job \in [Handlers -> Job] /\ job[h] \in Job /\ job[h].svc = t /\ Fine(t)
      /\ job[h].pc = "stopping" /\ job[h].after \in {"done", "failed", "sweep"}
      /\ UNCHANGED <<kind, cut>>
  BY <1>0 DEF Typed, JobType, Job, DeleteNext, AllFine, history
<1>2. PICK o \in job[h].todo :
        /\ IF job[h].todo # {o} THEN job' = [job EXCEPT ![h].todo = @ \ {o}]
           ELSE job' = [job EXCEPT ![h] =
                  [Blank EXCEPT !.pc = job[h].after, !.op = job[h].op,
                                !.svc = t, !.prey = job[h].prey]]
        /\ \/ Delete(t, o) /\ UNCHANGED used
           \/ Slips /\ UNCHANGED cluster
  BY <1>0 DEF DeleteNext, Foremost
<1>3. /\ Alone(h) /\ job'[h].op = job[h].op /\ job'[h].svc = t /\ job'[h].prey = job[h].prey
      /\ job[h].todo # {o} => /\ job'[h].pc = "stopping" /\ job'[h].todo = job[h].todo \ {o}
                              /\ job'[h].after = job[h].after
      /\ job[h].todo = {o} => job'[h].pc = job[h].after
  <2>1. CASE job[h].todo # {o}
    <3>1. job' = [job EXCEPT ![h].todo = @ \ {o}]
      BY <1>2, <2>1
    <3> QED  BY <1>1, <2>1, <3>1 DEF Alone, Job
  <2>2. CASE job[h].todo = {o}
    <3> DEFINE v == [Blank EXCEPT !.pc = job[h].after, !.op = job[h].op,
                                  !.svc = t, !.prey = job[h].prey]
    <3>1. job' = [job EXCEPT ![h] = v]
      BY <1>2, <2>2
    <3>2. v.pc = job[h].after /\ v.op = job[h].op /\ v.svc = t /\ v.prey = job[h].prey
      BY DEF Blank
    <3> HIDE DEF v
    <3>3. Alone(h) /\ job'[h] = v
      BY <1>1, <3>1 DEF Alone
    <3> QED  BY <2>2, <3>2, <3>3
  <2> QED  BY <2>1, <2>2
<1>4. /\ objs'[t] \subseteq objs[t] /\ (pod[t].phase = "none" => pod'[t].phase = "none")
      /\ pod[t].phase # "up" => pod'[t].phase # "up"
      /\ "secret" \in objs'[t] => (t \in bound' <=> t \in bound)
      /\ \A q \in Services \ {t} : SameParts(q)
  <2>1. CASE Delete(t, o)
    <3>1. /\ objs'[t] = objs[t] \ {o}
          /\ pod'[t].phase # "up" <=> o = "pod" \/ pod[t].phase # "up"
          /\ pod'[t].phase = "none" <=> pod[t].phase = "none"
          /\ o # "secret" => bound' = bound
          /\ \A q \in Services \ {t} : /\ pod'[q] = pod[q] /\ objs'[q] = objs[q]
                                       /\ q \in bound' <=> q \in bound
      BY <1>1, <2>1, DeleteIs
    <3> QED  BY <1>1, <3>1 DEF SameParts
  <2>2. CASE UNCHANGED cluster
    BY <1>1, <2>2 DEF cluster, SameParts
  <2> QED  BY <1>2, <2>1, <2>2
<1>5. /\ Smooth' => Smooth
      /\ Smooth' => o \notin objs'[t] /\ (o = "pod" => pod'[t].phase # "up")
  <2>1. CASE Delete(t, o) /\ UNCHANGED used
    BY <1>1, <2>1, DeleteIs DEF Smooth, used
  <2>2. CASE Slips
    BY <2>2 DEF Slips, Smooth, Typed, UsedType
  <2> QED  BY <1>2, <2>1, <2>2
<1>6. \A s \in Services : SamePrey(s)
  BY <1>3 DEF SamePrey, Alone, Handlers
<1>7. ASSUME NEW s \in Services, s # t PROVE Fine(s)'
  <2>1. ~Minds(h, s) /\ ~Minds(h, s)'
    BY <1>1, <1>3, <1>7 DEF Minds
  <2>2. Fine(s) /\ SameParts(s) /\ SamePrey(s) /\ Onwards(s)
    BY <1>1, <1>4, <1>5, <1>6, <1>7 DEF AllFine, Onwards
  <2>3. s \in Requests /\ h = s =>
           /\ job[s].op # "start" /\ job'[s].op # "start"
           /\ job[s].pc \notin {"count", "creating"}
           /\ job'[s].pc \notin {"idle", "count", "creating"}
    BY <1>1, <1>3, <1>7, <2>2 DEF Fine, Keyed
  <2> QED  BY <1>3, <2>1, <2>2, <2>3, Elsewhere
<1>8. Fine(t)'
  <2>1. /\ job'[h].pc \in {"stopping", "done", "failed", "sweep"}
        /\ t \in Requests => /\ job'[t].op = job[t].op /\ job'[t].svc = job[t].svc
                             /\ job'[t] = job[t] \/ h = t
    BY <1>1, <1>3 DEF Alone, Handlers
  <2>2. Unmade(t)' <=> Unmade(t)
    BY <1>1, <2>1 DEF Unmade
  <2>3. Keyed(t)'
    <3>1. CASE h = t
      BY <1>1, <1>3, <2>1, <3>1 DEF Fine, Keyed
    <3>2. CASE h # t
      BY <1>1, <2>1, <3>2 DEF Fine, Keyed
    <3> QED  BY <3>1, <3>2
  <2>4. Aimed(t)'
    <3>1. \A q \in Handlers : Minds(q, t)' => Minds(q, t)
      BY <1>1, <1>3 DEF Alone, Minds
    <3> QED  BY <1>1, <1>6, <2>2, <3>1 DEF Fine, Aimed, SamePrey
  <2>5. Fresh(t)'
    <3>1. t \in Requests /\ job'[t].pc # "creating" => job[t].pc # "creating"
      BY <1>1, <2>1
    <3>2. Unmade(t) => t \in Requests
      BY DEF Unmade
    <3> QED  BY <1>1, <1>4, <2>2, <3>1, <3>2 DEF Fine, Fresh
  <2>6. Making(t)'
    BY <1>1, <2>1 DEF Fine, Making, StartCalls
  <2>7. Within(t)'
    BY <1>1, <1>4 DEF Fine, Within
  <2>8. Tied(t)'
    <3>1. CASE h = t /\ t \in Requests /\ job[t].op = "start"
      <4>1. job[h].after = "failed"
        BY <1>1, <3>1 DEF Fine, Keyed
      <4> QED  BY <1>1, <1>3, <3>1, <4>1 DEF Tied
    <3>2. CASE h # t
      BY <1>1, <1>4, <2>1, <3>2 DEF Fine, Tied
    <3> QED  BY <2>1, <3>1, <3>2 DEF Tied
  <2>9. InOrder(t)'
    <3>1. t \in Requests /\ job'[t].pc = "creating" => t \in cut
      BY <1>1, <2>1 DEF Fine, InOrder, Minds
    <3> QED  BY <1>1, <3>1 DEF InOrder
  <2>10. Deleted(t)'
    <3> SUFFICES ASSUME Smooth', t \notin cut', NEW q \in Handlers,
                        job'[q].pc = "stopping", job'[q].svc = t
                 PROVE  /\ objs'[t] \subseteq job'[q].todo
                        /\ "pod" \notin job'[q].todo => pod'[t].phase # "up"
      BY DEF Deleted
    <3>1. \A p \in Handlers : job[p].pc = "stopping" /\ job[p].svc = t =>
            /\ objs[t] \subseteq job[p].todo
            /\ "pod" \notin job[p].todo => pod[t].phase # "up"
      BY <1>1, <1>5 DEF Fine, Deleted
    <3>2. CASE q # h
      BY <1>3, <1>4, <3>1, <3>2 DEF Alone
    <3>3. CASE q = h /\ job[h].todo # {o}
      BY <1>1, <1>3, <1>4, <1>5, <3>1, <3>3
    <3>4. CASE q = h /\ job[h].todo = {o}
      BY <1>1, <1>3, <3>4
    <3> QED  BY <3>2, <3>3, <3>4
  <2>11. Whole(t)'
    <3> SUFFICES ASSUME Smooth', t \notin cut', ~Attended(t)'
                 PROVE  objs'[t] = IF pod'[t].phase = "up" THEN kind'[t] ELSE {}
      BY DEF Whole
    <3>1. job[h].todo = {o}
      BY <1>1, <1>3 DEF Attended
    <3>2. /\ objs[t] \subseteq {o}
          /\ "pod" # o => pod[t].phase # "up"
      BY <1>1, <1>5, <3>1 DEF Fine, Deleted
    <3> QED  BY <1>4, <1>5, <3>2
  <2> QED  BY <2>3, <2>4, <2>5, <2>6, <2>7, <2>8, <2>9, <2>10, <2>11 DEF Fine
<1> QED  BY <1>7, <1>8 DEF AllFine

\* The sweep condemns what is listed, and stops it service by service.
LEMMA SweepFine ==
  ASSUME Typed, AllFine, Sweep \/ ReapEnd \/ ReapNext
  PROVE  AllFine'
<1>1. /\ Reaper \in Handlers /\ Reaper \notin Requests
      /\ job \in [Handlers -> Job] /\ job[Reaper] \in Job
  BY ConstantsAssumption DEF Handlers, Typed, JobType
<1>2. /\ UNCHANGED <<pod, objs, bound, kind, crashes, slips>> /\ Alone(Reaper)
      /\ job[Reaper].pc \in {"idle", "sweep"}
  BY <1>1 DEF Sweep, ReapEnd, ReapNext, cluster, used, Alone
<1>3. CASE Sweep \/ ReapEnd
  <2> SUFFICES ASSUME NEW s \in Services PROVE Fine(s)'
    BY DEF AllFine
  <2>1. /\ job'[Reaper].pc \in {"idle", "sweep"}
        /\ s \in job'[Reaper].prey => s \in job[Reaper].prey \/ s \in Listed
    BY <1>1, <1>3 DEF Sweep, ReapEnd, Condemned, Blank, Job
  <2>2. Fine(s) /\ SameParts(s) /\ Onwards(s)
    BY <1>2, <1>3 DEF AllFine, SameParts, Onwards, Smooth, Sweep, ReapEnd, history
  <2>3. SamePrey(s)
    BY <2>1, <2>2 DEF SamePrey, Fine, Fresh, Listed
  <2>4. ~Minds(Reaper, s) /\ ~Minds(Reaper, s)'
    BY <1>2, <2>1 DEF Minds
  <2> QED  BY <1>1, <1>2, <2>2, <2>3, <2>4, Elsewhere
<1>4. CASE ReapNext
  <2>1. PICK t \in job[Reaper].prey :
          /\ job' = [job EXCEPT ![Reaper] =
                       [BeginStop(Reaper, t, "sweep") EXCEPT !.prey = @ \ {t}]]
          /\ cut' = cut \union ({t} \intersect Starting)
    BY <1>4 DEF ReapNext
  <2>2. job'[Reaper] = [BeginStop(Reaper, t, "sweep") EXCEPT !.prey = @ \ {t}]
    BY <1>1, <2>1
  <2>3. /\ job'[Reaper].pc = "stopping" /\ job'[Reaper].svc = t
        /\ job'[Reaper].todo = StopCalls /\ job'[Reaper].prey = job[Reaper].prey \ {t}
    BY <2>2 DEF BeginStop, Blank
  <2> SUFFICES ASSUME NEW s \in Services PROVE Fine(s)'
    BY DEF AllFine
  <2>4. Fine(s) /\ SameParts(s) /\ SamePrey(s)
    BY <1>2, <2>3 DEF AllFine, SameParts, SamePrey
  <2>5. CASE s = t
    <3>1. ~Unmade(s)
      BY <2>1, <2>4, <2>5 DEF Fine, Aimed
    <3> QED  BY <1>1, <1>2, <2>1, <2>3, <2>4, <2>5, <3>1, JoinFine
  <2>6. CASE s # t
    <3>1. ~Minds(Reaper, s) /\ ~Minds(Reaper, s)'
      BY <1>2, <2>3, <2>6 DEF Minds
    <3>2. Onwards(s)
      BY <1>2, <2>1 DEF Onwards, Smooth
    <3> QED  BY <1>1, <1>2, <2>4, <3>1, <3>2, Elsewhere
  <2> QED  BY <2>5, <2>6
<1> QED  BY <1>3, <1>4

\* The pod of a service goes, or the collector takes its Secret; the clock.
LEMMA EnvironmentFine ==
  ASSUME Typed, AllFine, Environment \/ UNCHANGED vars
  PROVE  AllFine'
<1>1. UNCHANGED <<job, kind, cut, crashes, slips>>
  BY DEF Environment, Tick, PodGone, Collect, vars, used, history
<1> SUFFICES ASSUME NEW s \in Services PROVE Fine(s)'
  BY DEF AllFine
<1>2. Fine(s)
  BY DEF AllFine
<1>3. CASE SameParts(s)
  <2>1. SameMinds(s) /\ SameOwner(s) /\ SamePrey(s) /\ Onwards(s)
    BY <1>1 DEF SameMinds, SameOwner, SamePrey, Onwards, Smooth
  <2> QED  BY <1>2, <1>3, <2>1, UntouchedFine DEF Untouched
<1>4. ASSUME /\ objs'[s] \subseteq objs[s] /\ pod[s].phase # "up" /\ pod'[s].phase # "up"
             /\ pod[s].phase = "none" => pod'[s].phase = "none"
             /\ "secret" \in objs'[s] => (s \in bound' <=> s \in bound)
             /\ pod[s].phase = "dying" \/ s \in bound
      PROVE  Fine(s)'
  <2>1. (Unmade(s)' <=> Unmade(s)) /\ (Attended(s)' <=> Attended(s))
    BY <1>1 DEF Unmade, Attended
  <2>2. Keyed(s)' /\ Making(s)' /\ Within(s)'
    BY <1>1, <1>2, <1>4 DEF Fine, Keyed, Making, Within, StartCalls
  <2>3. Aimed(s)' /\ Fresh(s)' /\ Tied(s)'
    BY <1>1, <1>2, <1>4, <2>1 DEF Fine, Aimed, Fresh, Tied, Minds
  <2>4. InOrder(s)'
    BY <1>1, <1>2, <1>4 DEF Fine, InOrder
  <2>5. Deleted(s)'
    BY <1>1, <1>2, <1>4 DEF Fine, Deleted, Smooth
  <2>6. Whole(s)'
    BY <1>1, <1>2, <1>4, <2>1 DEF Fine, Whole, Smooth
  <2> QED  BY <2>2, <2>3, <2>4, <2>5, <2>6 DEF Fine
<1>5. CASE Tick \/ UNCHANGED vars
  BY <1>1, <1>3, <1>5 DEF Tick, vars, cluster, SameParts
<1>6. ASSUME NEW t \in Services, PodGone(t) PROVE Fine(s)'
  <2>1. /\ pod[t].phase = "dying" /\ pod'[t].phase = "none" /\ UNCHANGED <<objs, bound>>
        /\ \A q \in Services \ {t} : pod'[q] = pod[q]
    BY <1>6 DEF PodGone, NoPod, Typed, ClusterType, PodType
  <2>2. CASE s = t
    BY <1>4, <2>1, <2>2
  <2>3. CASE s # t
    BY <1>1, <1>3, <2>1, <2>3 DEF SameParts
  <2> QED  BY <2>2, <2>3
<1>7. ASSUME NEW t \in Services, Collect(t) PROVE Fine(s)'
  <2>1. /\ t \in bound /\ pod[t].phase = "none" /\ pod' = pod
        /\ objs'[t] = objs[t] \ {"secret"} /\ bound' = bound \ {t}
        /\ \A q \in Services \ {t} : objs'[q] = objs[q]
    BY <1>7 DEF Collect, Listed, Typed, ClusterType, ObjType
  <2>2. CASE s = t
    BY <1>4, <2>1, <2>2
  <2>3. CASE s # t
    BY <1>1, <1>3, <2>1, <2>3 DEF SameParts
  <2> QED  BY <2>2, <2>3
<1> QED  BY <1>5, <1>6, <1>7 DEF Environment

\* A restart leaves nobody at work.
LEMMA CrashFine ==
  ASSUME Typed, AllFine, Crash
  PROVE  AllFine'
<1> SUFFICES ASSUME NEW s \in Services PROVE Fine(s)'
  BY DEF AllFine
<1>1. Fine(s) /\ UNCHANGED <<pod, objs, bound, kind, cut>> /\ Reaper \notin Requests
  BY ConstantsAssumption DEF AllFine, Crash, cluster, history
<1>2. /\ job'[Reaper].prey = {}
      /\ \A h \in Handlers : job'[h].pc \in Over \union {"idle"}
  BY DEF Crash, Handlers, Blank, Over
<1>3. s \in Requests => \/ job'[s] = job[s]
                        \/ job'[s].pc = "lost" /\ job'[s].op = job[s].op /\ job'[s].svc = job[s].svc
  BY <1>1 DEF Crash, Handlers, Blank
<1>4. /\ \A h \in Handlers : ~Minds(h, s)' /\ job'[h].pc # "stopping"
      /\ s \in Requests => job'[s].pc \in Over \union {"idle"}
  BY <1>2 DEF Minds, Over, Handlers
<1>5. ~Smooth'
  <2>1. crashes' = crashes + 1 /\ crashes \in Nat
    BY DEF Crash, Typed, UsedType
  <2> QED  BY <2>1 DEF Smooth
<1>6. Keyed(s)'
  BY <1>1, <1>3, <1>4 DEF Fine, Keyed, Over
<1>7. Unmade(s)' => Unmade(s) /\ job[s].pc # "creating"
  BY <1>1, <1>3, <1>4 DEF Unmade, Fine, Keyed, Over
<1>8. Aimed(s)' /\ Fresh(s)'
  BY <1>1, <1>2, <1>4, <1>7 DEF Fine, Aimed, Fresh
<1>9. Making(s)' /\ InOrder(s)' /\ Deleted(s)' /\ Whole(s)'
  BY <1>4, <1>5 DEF Making, InOrder, Deleted, Whole, Over
<1>10. Within(s)' /\ Tied(s)'
  BY <1>1, <1>3, <1>4 DEF Fine, Within, Tied, Over
<1> QED  BY <1>6, <1>8, <1>9, <1>10 DEF Fine

\* The older service is whole, and no request has come.
LEMMA InitFine == Init => AllFine
<1> SUFFICES ASSUME Init, NEW s \in Services PROVE Fine(s)
  BY DEF AllFine
<1>1. /\ \A h \in Handlers : job[h] = Blank
      /\ s \in Requests => job[s] = Blank
  BY DEF Init, Handlers
<1>2. /\ Blank.pc = "idle" /\ Blank.op = "none" /\ Blank.prey = {}
      /\ Reaper \in Handlers
  BY DEF Blank, Handlers
<1>3. /\ kind[s] = (IF s = Older THEN Parts ELSE {}) /\ objs[s] = kind[s]
      /\ s # Older => pod[s].phase = "none"
      /\ s = Older => pod[s].phase = "up"
  BY DEF Init, NoPod
<1>4. Older \notin Requests
  BY ConstantsAssumption
<1>5. Keyed(s) /\ Making(s) /\ Tied(s) /\ InOrder(s)
  BY <1>1, <1>2 DEF Keyed, Making, Tied, InOrder
<1>6. Aimed(s) /\ Deleted(s)
  BY <1>1, <1>2 DEF Aimed, Deleted, Minds
<1>7. Fresh(s) /\ Within(s) /\ Whole(s)
  BY <1>3, <1>4 DEF Fresh, Within, Whole, Unmade
<1> QED  BY <1>5, <1>6, <1>7 DEF Fine

LEMMA FineNext == Typed /\ AllFine /\ [Next]_vars => AllFine'
<1> SUFFICES ASSUME Typed, AllFine, [Next]_vars PROVE AllFine'
  OBVIOUS
<1>1. ASSUME NEW r \in Requests, Arrive(r) \/ Serve(r) PROVE AllFine'
  <2>1. CASE Arrive(r)
    BY <2>1, ArriveStartFine, ArriveStopFine, ExtendFine DEF Arrive
  <2>2. CASE Count(r)
    <3>1. UNCHANGED <<pod, objs, bound, kind, cut, crashes, slips>> /\ job[r].pc = "count"
      BY <2>2 DEF Count, cluster, used
    <3>2. LimitReached => Go(r, "failed")
      BY <2>2 DEF Count
    <3> QED  BY <2>2, <3>1, <3>2, CountEndsFine, CountBeginsFine
  <2>3. CASE CallFails(r)
    <3>1. /\ UNCHANGED <<objs, bound, kind, cut, crashes, slips>> /\ Go(r, "failed")
          /\ job[r].pc = "count" => UNCHANGED pod
      BY <2>3 DEF CallFails, Renew, Throws, history
    <3> QED  BY <2>3, <3>1, CountEndsFine, ExtendFine
  <2>4. CASE DeleteNext(r)
    BY <2>4, DeleteNextFine DEF Handlers
  <2> QED  BY <1>1, <2>1, <2>2, <2>3, <2>4, CreateNextFine, CreateFailsFine, ExtendFine DEF Serve
<1>2. CASE Reap
  BY <1>2, SweepFine, DeleteNextFine DEF Reap, Handlers
<1> QED  BY <1>1, <1>2, EnvironmentFine, CrashFine DEF Next

LEMMA SpecFine == Spec => []AllFine
<1>1. Init => Typed /\ AllFine
  BY InitType, InitFine
<1>2. Typed /\ AllFine /\ [Next]_vars => (Typed /\ AllFine)'
  BY NextType, FineNext
<1> QED  BY <1>1, <1>2, PTL DEF Spec

\* The variables of a service that was announced go with its pod: whatever fails, is
\* stopped or restarts, its Secret is tied to the pod from before the announcement until
\* the Secret is gone.
THEOREM PreviewSecretTied == Spec => []SecretTied
<1>1. AllFine => SecretTied
  BY DEF AllFine, Fine, Tied, SecretTied, Services
<1> QED  BY <1>1, SpecFine, PTL

\* "Nada a medias", for any number of requests and failed calls: a service that nobody is
\* at work on has all its objects or none -- unless a restart, a lost delete or a stop of
\* its own start got in the way.
THEOREM PreviewAllOrNothing == Spec => []AllOrNothing
<1>1. AllFine => AllOrNothing
  BY DEF AllFine, Fine, Whole, Smooth, AllOrNothing
<1> QED  BY <1>1, SpecFine, PTL
==============================================================================
