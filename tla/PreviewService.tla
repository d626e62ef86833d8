---------------------------- MODULE PreviewService ----------------------------
(***************************************************************************)
(* Preview services: long-lived pods published under a public name, each    *)
(* with a policy, a Service and a route, and with an egress policy and a     *)
(* Secret if it asked for npm or for variables of its own.  Kubernetes is    *)
(* the only store: start, extend and stop of preview-service.service.ts and *)
(* the sweep of preview-service-reaper.service.ts work from what one listing *)
(* said.  One step of a handler is what happens up to and including one await.*)
(***************************************************************************)
EXTENDS Naturals, FiniteSets

CONSTANTS
  Requests,        \* HTTP requests; each is one call of start, extend or stop
  Reaper,          \* the cron sweep
  Older,           \* a service that an earlier run of the Executor started
  Ops,             \* operations the requests may ask for
  Parts,           \* the objects of a service that are told apart (in the code: Objects)
  Periods,         \* seconds that a request may ask for (ttlSeconds, extraSeconds)
  MaxTtl,          \* PREVIEW_SERVICE_MAX_TTL_SECONDS
  MaxConcurrent,   \* PREVIEW_SERVICE_MAX_CONCURRENT
  MaxTime,         \* bound: the clock
  MaxTroubles      \* bound: calls that throw, deletes that fail unheard, restarts

ASSUME ConstantsAssumption ==
  /\ Reaper \notin Requests /\ Older \notin Requests
  /\ Ops \subseteq {"start", "extend", "stop"}
  /\ Parts \subseteq {"egress", "secret", "ingress", "service", "route"}
  /\ Periods \subseteq Nat \ {0}
  /\ MaxTtl \in Nat \ {0} /\ MaxConcurrent \in Nat \ {0} /\ MaxTime \in Nat
  /\ MaxTroubles \in Nat

VARIABLES
  pod,     \* service -> its pod
  objs,    \* service -> the other objects that carry its id
  bound,   \* services whose Secret is owned by their pod
  kind,    \* service -> the objects its request asked for
  now,     \* the clock
  job,     \* handler -> where it is
  errors, slips, crashes,   \* the troubles there have been
  raced,   \* history: two starts have been between count and pod at once
  cut      \* history: services that a stop met while their start was in progress

cluster == <<pod, objs, bound>>
used    == <<errors, slips, crashes>>
history == <<raced, cut>>
vars    == <<cluster, kind, now, job, used, history>>

Handlers == Requests \union {Reaper}
\* randomUUID: a start creates a service of its own, named here after the request.
Services == Requests \union {Older}
Objects  == {"egress", "secret", "ingress", "service", "route"}
Over     == {"done", "failed", "lost"}
\* Every service is published; npm needs an egress policy, variables a Secret.
Kinds    == {Parts \ o : o \in SUBSET {"egress", "secret"}}

NoPod == [phase |-> "none", born |-> 0, expiry |-> 0]
Blank == [pc |-> "idle", op |-> "none", svc |-> Older, todo |-> {},
          after |-> "done", until |-> 0, prey |-> {}]

-----------------------------------------------------------------------------
(* What a listing says.  A pod being deleted is still listed.                *)

Listed == {s \in Services : pod[s].phase # "none"}

\* podToInfo: the annotation against the clock.
Expired(s) == pod[s].expiry <= now

\* Mutant: lets one service too many in.
LimitOffByOne == Cardinality(Listed) > MaxConcurrent

LimitReached == Cardinality(Listed) >= MaxConcurrent

Least(a, b) == IF a <= b THEN a ELSE b

Lifetime(asked) == Least(asked, MaxTtl)

\* Mutant: the cap is left to whoever asks.
ExtendedUncapped(s, extra) == pod[s].expiry + extra

\* extend: from the current expiry, never past the cap counted from the creation.
Extended(s, extra) == Least(pod[s].expiry + extra, pod[s].born + MaxTtl)

\* The order in which start makes its calls ("own" ties the Secret to the pod), and
\* that of stop: the traffic first, the pod and its Secret last.
StartRank == [egress |-> 1, secret |-> 2, pod |-> 3, own |-> 4,
              ingress |-> 5, service |-> 6, route |-> 7]
StopRank  == [route |-> 1, service |-> 2, ingress |-> 3, egress |-> 4,
              pod |-> 5, secret |-> 6]

\* The next of the calls that are left: a set of one.
Foremost(calls, rank) == {o \in calls : \A p \in calls : rank[o] <= rank[p]}

\* Mutant: the Secret is never tied.
StartUntied(k) == k \union {"pod"}

StartCalls(k) == k \union {"pod"} \union (IF "secret" \in k THEN {"own"} ELSE {})

\* Mutant: forgets the npm egress policy, which only some services have.
StopNoEgress == (Parts \ {"egress"}) \union {"pod"}

StopCalls == Parts \union {"pod"}

-----------------------------------------------------------------------------
(* Building blocks of a handler's step.                                    *)

\* What a request leaves behind once it has answered.
Go(h, l) ==
  job' = [job EXCEPT ![h] = [Blank EXCEPT !.pc = l, !.op = job[h].op, !.svc = job[h].svc]]

Trouble == errors + slips + crashes < MaxTroubles

\* An API call throws, or fails and the wrapper only logs it.
Throws == Trouble /\ errors' = errors + 1 /\ UNCHANGED <<slips, crashes>>
Slips  == Trouble /\ slips' = slips + 1 /\ UNCHANGED <<errors, crashes>>

\* The calls of stop, one after another, and then on.
BeginStop(h, s, then) ==
  [Blank EXCEPT !.pc = "stopping", !.op = job[h].op, !.svc = s, !.todo = StopCalls,
                !.after = then, !.prey = job[h].prey]

\* The starts that have counted and not created their pod yet, and those that
\* are not over.
Unseen   == {r \in Requests : job[r].pc = "creating" /\ "pod" \in job[r].todo}
Starting == {r \in Requests : job[r].pc = "creating"}

-----------------------------------------------------------------------------
(* A request arrives.  An id is known from a listing or from an answer.      *)

Known ==
  {Older} \union Listed \union {r \in Requests : job[r].op = "start" /\ job[r].pc = "done"}

ArriveStart(r) ==
  /\ "start" \in Ops /\ job[r].pc = "idle"
  /\ \E k \in Kinds, t \in Periods :
       /\ kind' = [kind EXCEPT ![r] = k]
       /\ job' = [job EXCEPT ![r] =
            [Blank EXCEPT !.pc = "count", !.op = "start", !.svc = r, !.until = Lifetime(t)]]
  /\ UNCHANGED <<cluster, now, used, history>>

ArriveExtend(r) ==
  /\ "extend" \in Ops /\ job[r].pc = "idle"
  /\ \E s \in Known, t \in Periods :
       /\ job' = [job EXCEPT ![r] =
            [Blank EXCEPT !.pc = "read", !.op = "extend", !.svc = s, !.until = t]]
  /\ UNCHANGED <<cluster, kind, now, used, history>>

ArriveStop(r) ==
  /\ "stop" \in Ops /\ job[r].pc = "idle"
  /\ \E s \in Known :
       /\ job' = [job EXCEPT ![r] = [BeginStop(r, s, "done") EXCEPT !.op = "stop"]]
       /\ cut' = cut \union ({s} \intersect Starting)
  /\ UNCHANGED <<cluster, kind, now, used, raced>>

-----------------------------------------------------------------------------
(* start                                                                    *)

\* listActivePods and the limit; the expiry is reckoned here, before the pod is.
Count(r) ==
  /\ job[r].pc = "count"
  /\ IF LimitReached THEN Go(r, "failed") /\ UNCHANGED raced
     ELSE /\ job' = [job EXCEPT ![r].pc = "creating", ![r].todo = StartCalls(kind[r]),
                                ![r].until = now + @]
          /\ raced' = (raced \/ Unseen # {})
  /\ UNCHANGED <<cluster, kind, now, used, cut>>

\* restartPolicy Always; the creationTimestamp is the API server's, the expiry an
\* annotation that was reckoned at the count.
NewPod(expiry) == [phase |-> "up", born |-> now, expiry |-> expiry]

\* A call of the try block takes effect.
Create(s, o, expiry) ==
  /\ pod' = [pod EXCEPT ![s] = IF o = "pod" THEN NewPod(expiry) ELSE @]
  /\ objs' = [objs EXCEPT ![s] = @ \union ({o} \intersect Objects)]
  /\ bound' = IF o = "own" THEN bound \union {s} ELSE bound

\* Mutant: a patch that puts up with a missing Secret.
UntiedNever(s, o) == FALSE

\* The Secret to tie is gone: setSecretOwnerPod throws.
Untied(s, o) == o = "own" /\ "secret" \notin objs[s]

CreateNext(r) ==
  /\ job[r].pc = "creating"
  /\ \E o \in Foremost(job[r].todo, StartRank) :
       /\ ~Untied(r, o)
       /\ Create(r, o, job[r].until)
       /\ IF job[r].todo = {o} THEN Go(r, "done")
          ELSE job' = [job EXCEPT ![r].todo = @ \ {o}]
  /\ UNCHANGED <<kind, now, used, history>>

\* Mutant: the error goes to the caller and what was created stays.
GiveUpHalfway(r) == Go(r, "failed")

\* The catch: everything this start may have created is stopped.
GiveUp(r) == job' = [job EXCEPT ![r] = BeginStop(r, r, "failed")]

\* The call throws; whether it took effect, the Executor cannot know.
CreateFails(r) ==
  /\ job[r].pc = "creating"
  /\ \E o \in Foremost(job[r].todo, StartRank) :
       \/ Untied(r, o) /\ UNCHANGED <<cluster, used>>
       \/ Throws /\ UNCHANGED cluster
       \/ ~Untied(r, o) /\ Throws /\ Create(r, o, job[r].until)
  /\ GiveUp(r)
  /\ UNCHANGED <<kind, now, history>>

-----------------------------------------------------------------------------
(* extend: read the annotation, then replace it.                            *)

Read(r) ==
  LET s == job[r].svc  next == Extended(s, job[r].until) IN
  /\ job[r].pc = "read"
  /\ IF s \in Listed /\ ~Expired(s) /\ next > pod[s].expiry
     THEN job' = [job EXCEPT ![r].pc = "patch", ![r].until = next]
     ELSE Go(r, "failed")
  /\ UNCHANGED <<cluster, kind, now, used, history>>

\* The annotation is replaced, whatever it has come to say since it was read.
Renew(r) ==
  /\ job[r].pc = "patch" /\ job[r].svc \in Listed
  /\ pod' = [pod EXCEPT ![job[r].svc].expiry = job[r].until]

\* replacePodAnnotationStrict: it fails only if the pod (or the call) does.
Patch(r) ==
  /\ job[r].pc = "patch"
  /\ IF job[r].svc \in Listed THEN Renew(r) /\ Go(r, "done")
     ELSE Go(r, "failed") /\ UNCHANGED pod
  /\ UNCHANGED <<objs, bound, kind, now, used, history>>

\* The first call of start and of extend throws, or the patch, which may have taken effect.
CallFails(r) ==
  /\ job[r].pc \in {"count", "read", "patch"}
  /\ Throws /\ Go(r, "failed")
  /\ Renew(r) \/ UNCHANGED pod
  /\ UNCHANGED <<objs, bound, kind, now, history>>

-----------------------------------------------------------------------------
(* stop: deletes that never throw, one await each.                          *)

\* It takes effect: a pod goes on terminating for a while.
Delete(s, o) ==
  /\ pod' = [pod EXCEPT ![s] =
       IF o = "pod" /\ s \in Listed THEN [@ EXCEPT !.phase = "dying"] ELSE @]
  /\ objs' = [objs EXCEPT ![s] = @ \ {o}]
  /\ bound' = IF o = "secret" THEN bound \ {s} ELSE bound

DeleteNext(h) ==
  LET s == job[h].svc IN
  /\ job[h].pc = "stopping"
  /\ \E o \in Foremost(job[h].todo, StopRank) :
       /\ IF job[h].todo # {o} THEN job' = [job EXCEPT ![h].todo = @ \ {o}]
          ELSE job' = [job EXCEPT ![h] =
                 [Blank EXCEPT !.pc = job[h].after, !.op = job[h].op,
                               !.svc = s, !.prey = job[h].prey]]
       /\ \/ Delete(s, o) /\ UNCHANGED used
          \/ /\ o \in objs[s] \/ (o = "pod" /\ s \in Listed)
             /\ Slips /\ UNCHANGED cluster
  /\ UNCHANGED <<kind, now, history>>

-----------------------------------------------------------------------------
(* The reaper: one listing, then stop of each expired service in turn.       *)

\* Mutant: the filter the wrong way round.
CondemnedRunning == {s \in Listed : ~Expired(s)}

Condemned == {s \in Listed : Expired(s)}

Sweep ==
  /\ job[Reaper].pc = "idle"
  /\ job' = IF Condemned = {} THEN job
            ELSE [job EXCEPT ![Reaper].pc = "sweep", ![Reaper].prey = Condemned]
  /\ UNCHANGED <<cluster, kind, now, used, history>>

ReapNext ==
  /\ job[Reaper].pc = "sweep"
  /\ \E s \in job[Reaper].prey :
       /\ job' = [job EXCEPT ![Reaper] =
                    [BeginStop(Reaper, s, "sweep") EXCEPT !.prey = @ \ {s}]]
       /\ cut' = cut \union ({s} \intersect Starting)
  /\ UNCHANGED <<cluster, kind, now, used, raced>>

ReapEnd ==
  /\ job[Reaper].pc = "sweep" /\ job[Reaper].prey = {}
  /\ job' = [job EXCEPT ![Reaper] = Blank]
  /\ UNCHANGED <<cluster, kind, now, used, history>>

-----------------------------------------------------------------------------
(* The cluster, the clock and the process.                                  *)

\* restartPolicy Always: only a deletion ends a service pod.
PodGone(s) ==
  /\ pod[s].phase = "dying"
  /\ pod' = [pod EXCEPT ![s] = NoPod]
  /\ UNCHANGED <<objs, bound, kind, now, job, used, history>>

\* The garbage collector takes a Secret whose owner is gone.
Collect(s) ==
  /\ s \in bound /\ s \notin Listed
  /\ objs' = [objs EXCEPT ![s] = @ \ {"secret"}]
  /\ bound' = bound \ {s}
  /\ UNCHANGED <<pod, kind, now, job, used, history>>

Tick ==
  /\ now < MaxTime /\ now' = now + 1
  /\ UNCHANGED <<cluster, kind, job, used, history>>

\* The Executor restarts: its handlers are lost, the cluster is not.
Crash ==
  /\ Trouble /\ crashes' = crashes + 1
  /\ job' = [h \in Handlers |->
       IF h = Reaper THEN Blank
       ELSE IF job[h].pc \in Over \union {"idle"} THEN job[h]
       ELSE [Blank EXCEPT !.pc = "lost", !.op = job[h].op, !.svc = job[h].svc]]
  /\ UNCHANGED <<cluster, kind, now, errors, slips, history>>

-----------------------------------------------------------------------------

Arrive(r) == ArriveStart(r) \/ ArriveExtend(r) \/ ArriveStop(r)

Serve(r) ==
  \/ Count(r) \/ CreateNext(r) \/ CreateFails(r)
  \/ Read(r) \/ Patch(r) \/ CallFails(r) \/ DeleteNext(r)

Reap == Sweep \/ ReapNext \/ ReapEnd \/ DeleteNext(Reaper)

Environment == Tick \/ \E s \in Services : PodGone(s) \/ Collect(s)

\* One service of an earlier run is up, with everything, and any time left.
Init ==
  /\ kind = [s \in Services |-> IF s = Older THEN Parts ELSE {}]
  /\ objs = kind
  /\ bound = {Older} \intersect {s \in Services : "secret" \in objs[s]}
  /\ \E t \in 1 .. MaxTtl :
       pod = [s \in Services |->
                IF s = Older THEN [phase |-> "up", born |-> 0, expiry |-> t] ELSE NoPod]
  /\ now = 0
  /\ job = [h \in Handlers |-> Blank]
  /\ errors = 0 /\ slips = 0 /\ crashes = 0
  /\ raced = FALSE /\ cut = {}

Next ==
  \/ \E r \in Requests : Arrive(r) \/ Serve(r)
  \/ Reap
  \/ Environment
  \/ Crash

\* Handlers are run by the event loop and their API calls end; the cron keeps
\* firing; Kubernetes finishes deletions.  No request has to arrive.
Fairness ==
  /\ \A r \in Requests : WF_vars(Serve(r))
  /\ WF_vars(Reap)
  /\ \A s \in Services : WF_vars(PodGone(s)) /\ WF_vars(Collect(s))

Spec == Init /\ [][Next]_vars /\ Fairness

-----------------------------------------------------------------------------
(* Properties.                                                             *)

Calls == Objects \union {"pod", "own"}

Job == [pc : {"idle", "count", "creating", "read", "patch", "stopping", "sweep"}
               \union Over,
        op : {"none", "start", "extend", "stop"}, svc : Services, todo : SUBSET Calls,
        after : {"done", "failed", "sweep"}, until : Nat, prey : SUBSET Services]

\* Every variable has its type, and an owner is written only on a Secret that exists.
TypeOK ==
  /\ pod \in [Services -> [phase : {"none", "up", "dying"}, born : Nat, expiry : Nat]]
  /\ objs \in [Services -> SUBSET Objects]
  /\ kind \in [Services -> SUBSET Objects]
  /\ bound \subseteq {s \in Services : "secret" \in objs[s]}
  /\ now \in 0 .. MaxTime
  /\ job \in [Handlers -> Job]
  /\ errors \in Nat /\ slips \in Nat /\ crashes \in Nat
  /\ errors + slips + crashes <= MaxTroubles
  /\ raced \in BOOLEAN /\ cut \subseteq Services

\* PREVIEW_SERVICE_MAX_CONCURRENT holds as long as no two starts were between the
\* count and the create at once, whatever expires, stops and fails meanwhile.
LimitUnlessRaced == raced \/ Cardinality(Listed) <= MaxConcurrent

\* "El cap duro": no service outlives MaxTtl counted from its creation, however
\* many extensions, which work from what they read before, are granted.
TtlCapped == \A s \in Listed : pod[s].expiry <= pod[s].born + MaxTtl

\* The handlers that may still create or delete something of a service.
Attended(s) ==
  \E h \in Handlers : job[h].svc = s /\ job[h].pc \in {"count", "creating", "stopping"}

\* "Nada a medias": when nobody is at work on a service, it has all its objects
\* or none, and none once its pod is being deleted -- if no restart, no lost
\* delete, and no stop of a start in progress got in the way.
AllOrNothing ==
  crashes = 0 /\ slips = 0 =>
    \A s \in Services \ cut : ~Attended(s) =>
      objs[s] = IF pod[s].phase = "up" THEN kind[s] ELSE {}

\* The variables of a service that was announced as running go with its pod: its
\* Secret is always tied to it, also when stop could not delete it.
SecretTied ==
  \A r \in Requests :
    job[r].op = "start" /\ job[r].pc = "done" /\ "secret" \in objs[r] => r \in bound

\* "Alarga la vida": replacing the expiry never brings it forward -- the owner who
\* was told of a later one "creeria que la demo sigue y se borraria".
ExtensionKept ==
  [][\A s \in Services : s \in Listed /\ pod'[s].phase # "none" =>
       pod'[s].expiry >= pod[s].expiry]_vars

\* A service whose time is over goes, unless an extension that had read it in
\* time renews it; deletes may be lost and the Executor may restart.
ExpiredGoes ==
  \A s \in Services :
    (s \in Listed /\ Expired(s)) ~> (s \notin Listed \/ ~Expired(s))
===============================================================================
