--------------------------- MODULE TerminalPtyProofs ---------------------------
(***************************************************************************)
(* What holds of interactive terminals whatever the number of workspaces,   *)
(* sessions and subscribers, and however much a shell writes.              *)
(***************************************************************************)
EXTENDS TerminalPty, FiniteSetTheorems, SequenceTheorems, TLAPS

-----------------------------------------------------------------------------
(* The operators that change a session or a subscriber keep them typed.    *)

\* A set of numbers has a smallest one: or its non-members, from 0 on, would be as many
\* as they are without 0.
LEMMA Smallest ==
  ASSUME NEW T \in SUBSET Nat, NEW n \in T
  PROVE  \E k \in T : \A j \in T : k <= j
<1> SUFFICES ASSUME \A k \in T : \E j \in T : j < k PROVE FALSE
  OBVIOUS
<1> DEFINE A == {i \in 0 .. n : \A j \in 0 .. i : j \notin T}
           up == [i \in A |-> i + 1]
<1>1. 0 \in A
  OBVIOUS
<1>2. IsFiniteSet(A)
  <2>1. IsFiniteSet(0 .. n)
    BY FS_Interval
  <2>2. A \in SUBSET (0 .. n)
    OBVIOUS
  <2> HIDE DEF A
  <2> QED  BY <2>1, <2>2, FS_Subset
<1>3. ASSUME NEW i \in A PROVE i + 1 \in A \ {0}
  <2>1. i # n
    OBVIOUS
  <2>2. i + 1 \notin T
    OBVIOUS
  <2>3. \A j \in 0 .. i + 1 : j \notin T
    BY <2>2
  <2>4. i + 1 \in 0 .. n
    BY <2>1
  <2> QED  BY <2>3, <2>4
<1>4. up \in Injection(A, A \ {0})
  <2>1. \A i, j \in A : i \in Nat /\ j \in Nat
    OBVIOUS
  <2> HIDE DEF A
  <2>2. up \in [A -> A \ {0}]
    BY <1>3
  <2> QED  BY <2>1, <2>2 DEF Injection, IsInjective
<1>5. IsFiniteSet(A \ {0}) /\ Cardinality(A \ {0}) = Cardinality(A) - 1
  <2> HIDE DEF A, up
  <2> QED  BY <1>1, <1>2, FS_RemoveElement
<1>6. Cardinality(A) <= Cardinality(A \ {0})
  <2> HIDE DEF A, up
  <2>1. PICK f : f \in Injection(A, A \ {0})
    BY <1>4
  <2>2. IsFiniteSet(A \ {0})
    BY <1>5
  <2> QED  BY <2>1, <2>2, FS_Injection
<1>7. Cardinality(A) \in Nat
  <2> HIDE DEF A, up
  <2> QED  BY <1>2, FS_CardinalityType
<1> HIDE DEF A
<1> QED  BY <1>5, <1>6, <1>7

\* Trimming leaves the end of a backlog: the last chunk, or what is within the cap.
LEMMA TrimSuffix ==
  ASSUME NEW S, NEW b \in Seq(S), b # <<>>
  PROVE  \E k \in 1 .. Len(b) : /\ Trim(b) = SubSeq(b, k, Len(b))
                                /\ k = Len(b) \/ Bytes(Trim(b)) <= MaxBacklog
<1> DEFINE Stops(k) == k = Len(b) \/ Bytes(SubSeq(b, k, Len(b))) <= MaxBacklog
           T == {k \in 1 .. Len(b) : Stops(k)}
           First(k) == Stops(k) /\ \A j \in 1 .. k - 1 : ~Stops(j)
           kept == CHOOSE k \in 1 .. Len(b) : First(k)
<1>1. Len(b) \in Nat \ {0}
  BY EmptySeq
<1> HIDE DEF Stops
<1>2. T \in SUBSET Nat /\ Len(b) \in T
  BY <1>1 DEF Stops
<1>3. PICK k \in T : \A j \in T : k <= j
  BY <1>2, Smallest
<1>4. k \in 1 .. Len(b) /\ First(k)
  BY <1>1, <1>3
<1>5. kept \in 1 .. Len(b) /\ First(kept)
  <2> HIDE DEF First
  <2> QED  BY <1>4
<1>6. Trim(b) = SubSeq(b, kept, Len(b))
  BY DEF Trim, Stops
<1>7. Stops(kept)
  BY <1>5
<1> HIDE DEF kept
<1> QED  BY <1>5, <1>6, <1>7 DEF Stops

\* An empty backlog weighs nothing.
LEMMA BytesNone == Bytes(<<>>) = 0
<1> DEFINE F(f) == f = [i \in 0 .. Len(<<>>) |-> IF i = 0 THEN 0 ELSE f[i - 1] + <<>>[i].size]
           sum == CHOOSE f : F(f)
<1>1. 0 .. Len(<<>>) = {0}
  OBVIOUS
<1>2. F([i \in {0} |-> 0])
  BY <1>1
<1>3. F(sum)
  <2> HIDE DEF F
  <2> QED  BY <1>2
<1>4. sum[0] = 0
  BY <1>1, <1>3
<1>5. Bytes(<<>>) = sum[Len(<<>>)]
  BY DEF Bytes
<1> QED  BY <1>1, <1>4, <1>5

\* Trimming a backlog leaves a backlog.
LEMMA TrimType ==
  ASSUME NEW S, NEW b \in Seq(S), b # <<>>
  PROVE  Trim(b) \in Seq(S)
<1>1. PICK k \in 1 .. Len(b) : Trim(b) = SubSeq(b, k, Len(b))
  BY TrimSuffix
<1> QED  BY <1>1

\* The ids of a backlog are numbers.
LEMMA IdsType ==
  ASSUME NEW b \in Seq([id : Nat, size : Sizes])
  PROVE  Ids(b) \in Seq(Nat)
<1> DEFINE Chunk == [id : Nat, size : Sizes]
<1>1. Len(b) \in Nat /\ \A i \in 1 .. Len(b) : b[i] \in Chunk
  <2> HIDE DEF Chunk
  <2>1. b \in Seq(Chunk)
    BY DEF Chunk
  <2> QED  BY <2>1
<1>2. \A r \in [id : Nat, size : Sizes] : r.id \in Nat
  OBVIOUS
<1>3. \A i \in 1 .. Len(b) : b[i].id \in Nat
  BY <1>1, <1>2
<1> QED  BY <1>1, <1>3 DEF Ids

\* Telling a subscriber leaves a subscriber.
LEMMA ToldType ==
  ASSUME NEW u \in SubRecord
  PROVE  Told(u) \in SubRecord
<1>1. \A n \in Nat : n + 1 \in Nat
  OBVIOUS
<1>2. u.exits \in Nat
  BY DEF SubRecord
<1>3. u.exits + 1 \in Nat
  BY <1>1, <1>2
<1> QED  BY <1>3, Zenon DEF Told, SubRecord

\* finish, from a typed session and typed subscribers, leaves a typed state.
LEMMA FinishType ==
  ASSUME TypeOK, NEW s \in Sessions, NEW final \in SesRecord,
         NEW subs \in [Subscribers -> SubRecord],
         Finish(s, final, subs), UNCHANGED ws
  PROVE  TypeOK'
<1>1. CASE st[s] # "live"
  BY <1>1 DEF TypeOK, Finish
<1>2. CASE st[s] = "live"
  <2>1. [final EXCEPT !.listener = Nil] \in SesRecord
    BY DEF SesRecord
  <2>2. ses' \in [Sessions -> SesRecord]
    BY <1>2, <2>1 DEF TypeOK, Finish
  <2>3. sub' \in [Subscribers -> SubRecord]
    BY <1>2, ToldType DEF Finish
  <2>4. st' \in [Sessions -> Stages] /\ byWorkspace' \in [Workspaces -> Sessions \union {Nil}]
    BY <1>2 DEF TypeOK, Finish, Stages
  <2> QED  BY <2>2, <2>3, <2>4 DEF TypeOK
<1> QED  BY <1>1, <1>2

-----------------------------------------------------------------------------
(* Type correctness.                                                       *)

LEMMA InitType == Init => TypeOK
<1> SUFFICES ASSUME Init PROVE TypeOK
  OBVIOUS
<1>1. NewSes \in SesRecord
  BY DEF NewSes, SesRecord
<1>2. NewSub \in SubRecord
  BY DEF NewSub, SubRecord
<1> QED  BY <1>1, <1>2 DEF Init, TypeOK, Stages

\* Output that arrives leaves a typed session, wherever it goes.
LEMMA HeardType ==
  ASSUME TypeOK, NEW s \in Sessions
  PROVE  /\ Heard(s) \in SesRecord
         /\ ses[s].seen + 1 \in Nat
         /\ ses[s].backlog \in Seq([id : Nat, size : Sizes])
<1>1. ses[s] \in SesRecord
  BY DEF TypeOK
<1>2. ses[s].seen \in Nat /\ ses[s].backlog \in Seq([id : Nat, size : Sizes])
  BY <1>1, Zenon DEF SesRecord
<1>3. ses[s].seen + 1 \in Nat
  BY <1>2
<1>4. Heard(s) \in SesRecord
  BY <1>1, <1>3, Zenon DEF Heard, SesRecord
<1> QED  BY <1>2, <1>3, <1>4

LEMMA DataKeptType ==
  ASSUME TypeOK, NEW s \in Sessions, DataKept(s)
  PROVE  TypeOK'
<1>1. PICK n \in Sizes :
        LET all == Append(ses[s].backlog, [id |-> ses[s].seen + 1, size |-> n])
        IN ses' = [ses EXCEPT ![s] =
             [Heard(s) EXCEPT !.backlog = Trim(all),
                              !.cut = @ \/ Len(Trim(all)) < Len(all)]]
  BY DEF DataKept
<1> DEFINE all == Append(ses[s].backlog, [id |-> ses[s].seen + 1, size |-> n])
           kept == [Heard(s) EXCEPT !.backlog = Trim(all),
                                    !.cut = @ \/ Len(Trim(all)) < Len(all)]
<1>2. all \in Seq([id : Nat, size : Sizes])
  <2> DEFINE Chunk == [id : Nat, size : Sizes]
             new == [id |-> ses[s].seen + 1, size |-> n]
  <2>1. ses[s].backlog \in Seq(Chunk) /\ new \in Chunk
    BY HeardType
  <2>2. Append(ses[s].backlog, new) \in Seq(Chunk)
    <3> HIDE DEF Chunk, new
    <3> QED  BY <2>1
  <2> QED  BY <2>2
<1>3. Trim(all) \in Seq([id : Nat, size : Sizes])
  <2>1. all # <<>>
    <3>1. ses[s].backlog \in Seq([id : Nat, size : Sizes])
      BY HeardType
    <3> QED  BY <3>1
  <2> HIDE DEF all
  <2> QED  BY <1>2, <2>1, TrimType
<1>4. kept \in SesRecord
  <2> HIDE DEF all
  <2>1. Heard(s) \in SesRecord
    BY HeardType
  <2>2. (Heard(s).cut \/ Len(Trim(all)) < Len(all)) \in BOOLEAN
    OBVIOUS
  <2> QED  BY <1>3, <2>1, <2>2, Zenon DEF SesRecord
<1>5. ses' = [ses EXCEPT ![s] = kept]
  BY <1>1
<1> HIDE DEF kept, all
<1> QED  BY <1>4, <1>5 DEF TypeOK, DataKept

LEMMA DataDeliveredType ==
  ASSUME TypeOK, NEW s \in Sessions, DataDelivered(s)
  PROVE  TypeOK'
<1> DEFINE x == ses[s].listener
           r == [Heard(s) EXCEPT !.out = Append(@, ses[s].seen + 1)]
           slow == [sub EXCEPT ![x].st = "done", ![x].end = "slow"]
<1>1. Heard(s) \in SesRecord /\ ses[s].seen + 1 \in Nat
  BY HeardType
<1>2. r \in SesRecord
  <2>1. Heard(s).out \in Seq(Nat)
    BY <1>1, Zenon DEF SesRecord
  <2>2. Append(Heard(s).out, ses[s].seen + 1) \in Seq(Nat)
    BY <1>1, <2>1
  <2> QED  BY <1>1, <2>2, Zenon DEF SesRecord
<1>3. [r EXCEPT !.listener = Nil] \in SesRecord
  <2> HIDE DEF r
  <2> QED  BY <1>2, Zenon DEF SesRecord
<1>4. slow \in [Subscribers -> SubRecord]
  <2>1. \A y \in Subscribers : [sub[y] EXCEPT !.st = "done", !.end = "slow"] \in SubRecord
    <3> SUFFICES ASSUME NEW y \in Subscribers
                 PROVE  [sub[y] EXCEPT !.st = "done", !.end = "slow"] \in SubRecord
      OBVIOUS
    <3>1. sub[y] \in SubRecord
      BY DEF TypeOK
    <3> QED  BY <3>1, Zenon DEF SubRecord
  <2> QED  BY <2>1 DEF TypeOK
<1>5. UNCHANGED ws
  BY DEF DataDelivered
<1>6. CASE ses' = [ses EXCEPT ![s] = r] /\ UNCHANGED <<byWorkspace, st, sub>>
  <2> HIDE DEF r
  <2> QED  BY <1>2, <1>5, <1>6 DEF TypeOK
<1>7. CASE Finish(s, [r EXCEPT !.listener = Nil], slow)
  <2> HIDE DEF r, slow
  <2> QED  BY <1>3, <1>4, <1>5, <1>7, FinishType
<1> QED  BY <1>6, <1>7 DEF DataDelivered

\* A subscriber that comes leaves the session and the subscribers typed.
LEMMA SubscribeType ==
  ASSUME TypeOK, NEW s \in Sessions, NEW x \in Subscribers,
         NEW k \in 0 .. Len(ses[s].backlog)
  PROVE  /\ Taken(s, x, k) \in SesRecord
         /\ Joined(s, x) \in [Subscribers -> SubRecord]
<1>1. Taken(s, x, k) \in SesRecord
  <2>1. ses[s] \in SesRecord
    BY DEF TypeOK
  <2>2. /\ ses[s].backlog \in Seq([id : Nat, size : Sizes])
        /\ ses[s].out \in Seq(Nat)
    BY <2>1, Zenon DEF SesRecord
  <2>3. SubSeq(ses[s].backlog, 1, k) \in Seq([id : Nat, size : Sizes])
    <3> DEFINE Chunk == [id : Nat, size : Sizes]
    <3> SUFFICES SubSeq(ses[s].backlog, 1, k) \in Seq(Chunk)
      OBVIOUS
    <3>1. ses[s].backlog \in Seq(Chunk)
      BY <2>2
    <3> HIDE DEF Chunk
    <3> QED  BY <3>1
  <2>4. ses[s].out \o Ids(SubSeq(ses[s].backlog, 1, k)) \in Seq(Nat)
    <3>1. Ids(SubSeq(ses[s].backlog, 1, k)) \in Seq(Nat)
      BY <2>3, IdsType
    <3> QED  BY <2>2, <3>1
  <2>5. (ses[s].cut \/ k < Len(ses[s].backlog)) \in BOOLEAN
    OBVIOUS
  <2>6. << >> \in Seq([id : Nat, size : Sizes])
    OBVIOUS
  <2> QED  BY <2>1, <2>4, <2>5, <2>6, Zenon DEF Taken, SesRecord
<1>2. Joined(s, x) \in [Subscribers -> SubRecord]
  <2>1. [NewSub EXCEPT !.st = "waiting", !.ses = s] \in SubRecord
    BY DEF NewSub, SubRecord
  <2>2. \A y \in Subscribers : [sub[y] EXCEPT !.replaced = TRUE] \in SubRecord
    <3> SUFFICES ASSUME NEW y \in Subscribers
                 PROVE  [sub[y] EXCEPT !.replaced = TRUE] \in SubRecord
      OBVIOUS
    <3>1. sub[y] \in SubRecord
      BY DEF TypeOK
    <3> QED  BY <3>1, Zenon DEF SubRecord
  <2>3. \A y \in Subscribers : sub[y] \in SubRecord
    BY DEF TypeOK
  <2> QED  BY <2>1, <2>2, <2>3 DEF Joined
<1> QED  BY <1>1, <1>2

\* The actions that only move a session from one stage to another, or mark it.
LEMMA StageType ==
  ASSUME TypeOK, NEW s \in Sessions,
         \/ \E w \in Workspaces : Open(w, s)
         \/ Connect(s) \/ OpenFails(s) \/ Opened(s) \/ Linger(s)
  PROVE  TypeOK'
<1>1. /\ byWorkspace' \in [Workspaces -> Sessions \union {Nil}]
      /\ st' \in [Sessions -> Stages]
      /\ ws' \in [Sessions -> Workspaces \union {Nil}]
  BY DEF TypeOK, Open, Connect, OpenFails, Opened, Linger, Stages
<1>2. UNCHANGED <<ses, sub>>
  BY DEF Open, Connect, OpenFails, Opened, Linger
<1> QED  BY <1>1, <1>2 DEF TypeOK

LEMMA MarkType ==
  ASSUME TypeOK, NEW s \in Sessions, Write(s) \/ GrowQuiet(s) \/ DataEarly(s)
  PROVE  TypeOK'
<1>1. ses[s] \in SesRecord
  BY DEF TypeOK
<1>2. ses[s].seen + 1 \in Nat
  BY HeardType
<1>3. /\ [ses[s] EXCEPT !.quiet = FALSE] \in SesRecord
      /\ [ses[s] EXCEPT !.quiet = TRUE] \in SesRecord
      /\ [ses[s] EXCEPT !.seen = ses[s].seen + 1, !.cut = TRUE] \in SesRecord
  BY <1>1, <1>2, Zenon DEF SesRecord
<1>4. \/ ses' = [ses EXCEPT ![s] = [ses[s] EXCEPT !.quiet = FALSE]]
      \/ ses' = [ses EXCEPT ![s] = [ses[s] EXCEPT !.quiet = TRUE]]
      \/ ses' = [ses EXCEPT ![s] = [ses[s] EXCEPT !.seen = ses[s].seen + 1, !.cut = TRUE]]
  BY DEF Write, GrowQuiet, DataEarly, TypeOK
<1>5. ses' \in [Sessions -> SesRecord]
  BY <1>3, <1>4 DEF TypeOK
<1>6. UNCHANGED <<byWorkspace, st, ws, sub>>
  BY DEF Write, GrowQuiet, DataEarly
<1> QED  BY <1>5, <1>6 DEF TypeOK

LEMMA CloseType ==
  ASSUME TypeOK, NEW s \in Sessions, Settle(s) \/ Close(s)
  PROVE  TypeOK'
<1>1. ses[s] \in SesRecord /\ sub \in [Subscribers -> SubRecord]
  BY DEF TypeOK
<1>2. [ses[s] EXCEPT !.settled = TRUE] \in SesRecord
  BY <1>1, Zenon DEF SesRecord
<1> QED  BY <1>1, <1>2, FinishType DEF Settle, Close

LEMMA ShutdownType ==
  ASSUME TypeOK, Shutdown
  PROVE  TypeOK'
<1>1. st' \in [Sessions -> Stages] /\ byWorkspace' \in [Workspaces -> Sessions \union {Nil}]
  BY DEF TypeOK, Shutdown, Stages
<1>2. ses' \in [Sessions -> SesRecord]
  <2>1. \A s \in Sessions : [ses[s] EXCEPT !.listener = Nil] \in SesRecord
    <3> SUFFICES ASSUME NEW s \in Sessions
                 PROVE  [ses[s] EXCEPT !.listener = Nil] \in SesRecord
      OBVIOUS
    <3>1. ses[s] \in SesRecord
      BY DEF TypeOK
    <3> QED  BY <3>1, Zenon DEF SesRecord
  <2> QED  BY <2>1 DEF TypeOK, Shutdown
<1>3. sub' \in [Subscribers -> SubRecord]
  BY ToldType DEF TypeOK, Shutdown
<1> QED  BY <1>1, <1>2, <1>3 DEF TypeOK, Shutdown

LEMMA SubscriberType ==
  ASSUME TypeOK, NEW x \in Subscribers,
         \/ \E s \in Sessions : Subscribe(x, s) \/ SubscribeSlow(x, s)
         \/ Abort(x)
  PROVE  TypeOK'
<1>1. ASSUME NEW s \in Sessions, Subscribe(x, s) PROVE TypeOK'
  <2>1. ses[s].backlog \in Seq([id : Nat, size : Sizes])
    BY HeardType
  <2>2. Len(ses[s].backlog) \in 0 .. Len(ses[s].backlog)
    BY <2>1
  <2>3. /\ Taken(s, x, Len(ses[s].backlog)) \in SesRecord
        /\ Joined(s, x) \in [Subscribers -> SubRecord]
    BY <2>2, SubscribeType
  <2>4. ses' \in [Sessions -> SesRecord]
    BY <1>1, <2>3 DEF Subscribe, TypeOK
  <2>5. sub' \in [Subscribers -> SubRecord]
    BY <1>1, <2>3, ToldType DEF Subscribe
  <2> QED  BY <1>1, <2>4, <2>5 DEF Subscribe, TypeOK
<1>2. ASSUME NEW s \in Sessions, SubscribeSlow(x, s) PROVE TypeOK'
  <2> DEFINE slow == [Joined(s, x) EXCEPT ![x].st = "done", ![x].end = "slow"]
  <2>1. PICK k \in 1 .. Len(ses[s].backlog) : Finish(s, Taken(s, x, k), slow)
    BY <1>2 DEF SubscribeSlow
  <2>2. ses[s].backlog \in Seq([id : Nat, size : Sizes])
    BY HeardType
  <2>3. k \in 0 .. Len(ses[s].backlog)
    BY <2>2
  <2>4. Taken(s, x, k) \in SesRecord /\ Joined(s, x) \in [Subscribers -> SubRecord]
    BY <2>3, SubscribeType
  <2>5. slow \in [Subscribers -> SubRecord]
    <3>1. Joined(s, x)[x] \in SubRecord
      BY <2>4
    <3>2. [Joined(s, x)[x] EXCEPT !.st = "done", !.end = "slow"] \in SubRecord
      BY <3>1, Zenon DEF SubRecord
    <3>3. slow = [Joined(s, x) EXCEPT ![x] = [Joined(s, x)[x] EXCEPT !.st = "done", !.end = "slow"]]
      BY <2>4
    <3> QED  BY <2>4, <3>2, <3>3
  <2>6. UNCHANGED ws
    BY <1>2 DEF SubscribeSlow
  <2> HIDE DEF slow
  <2> QED  BY <2>1, <2>4, <2>5, <2>6, FinishType
<1>3. CASE Abort(x)
  <2>1. [sub[x] EXCEPT !.st = "done", !.end = "aborted"] \in SubRecord
    <3>1. sub[x] \in SubRecord
      BY DEF TypeOK
    <3> QED  BY <3>1, Zenon DEF SubRecord
  <2>2. sub' \in [Subscribers -> SubRecord]
    <3>1. sub' = [sub EXCEPT ![x] = [sub[x] EXCEPT !.st = "done", !.end = "aborted"]]
      BY <1>3 DEF Abort, TypeOK
    <3> QED  BY <2>1, <3>1 DEF TypeOK
  <2>3. ses' \in [Sessions -> SesRecord]
    <3> DEFINE s == sub[x].ses
               left == IF ses[s].listener = x THEN Nil ELSE ses[s].listener
    <3>1. ses' = [ses EXCEPT ![s].listener = left]
      BY <1>3 DEF Abort
    <3>2. CASE s \notin Sessions
      BY <3>1, <3>2 DEF TypeOK
    <3>3. CASE s \in Sessions
      <4>1. ses[s] \in SesRecord
        BY <3>3 DEF TypeOK
      <4>2. left \in Subscribers \union {Nil}
        BY <4>1, Zenon DEF SesRecord
      <4>3. [ses[s] EXCEPT !.listener = left] \in SesRecord
        <5> HIDE DEF left
        <5> QED  BY <4>1, <4>2, Zenon DEF SesRecord
      <4>4. ses' = [ses EXCEPT ![s] = [ses[s] EXCEPT !.listener = left]]
        BY <3>1, <3>3 DEF TypeOK
      <4> HIDE DEF left, s
      <4> QED  BY <3>3, <4>3, <4>4 DEF TypeOK
    <3> QED  BY <3>2, <3>3
  <2> QED  BY <1>3, <2>2, <2>3 DEF Abort, TypeOK
<1> QED  BY <1>1, <1>2, <1>3

LEMMA NextType == TypeOK /\ [Next]_vars => TypeOK'
<1> SUFFICES ASSUME TypeOK, [Next]_vars PROVE TypeOK'
  OBVIOUS
<1>1. ASSUME NEW s \in Sessions,
             \/ \E w \in Workspaces : Open(w, s)
             \/ Connect(s) \/ OpenFails(s) \/ Opened(s) \/ Linger(s)
      PROVE  TypeOK'
  BY <1>1, StageType
<1>2. ASSUME NEW s \in Sessions, Settle(s) \/ Close(s) \/ CheckIdle(s)
      PROVE  TypeOK'
  BY <1>2, CloseType DEF CheckIdle
<1>3. ASSUME NEW s \in Sessions, Write(s) \/ GrowQuiet(s) \/ DataEarly(s)
      PROVE  TypeOK'
  BY <1>3, MarkType
<1>4. ASSUME NEW s \in Sessions, DataKept(s) \/ DataDelivered(s)
      PROVE  TypeOK'
  BY <1>4, DataKeptType, DataDeliveredType
<1>5. ASSUME NEW x \in Subscribers,
             \/ \E s \in Sessions : Subscribe(x, s) \/ SubscribeSlow(x, s)
             \/ Abort(x)
      PROVE  TypeOK'
  BY <1>5, SubscriberType
<1>6. CASE Shutdown
  BY <1>6, ShutdownType
<1>7. CASE UNCHANGED vars
  BY <1>7 DEF vars, TypeOK
<1> QED  BY <1>1, <1>2, <1>3, <1>4, <1>5, <1>6, <1>7 DEF Next

\* Sessions, reservations, backlogs and subscribers are what the service says they
\* are, at every moment.
THEOREM PtyTypes == Spec => []TypeOK
<1>1. Init => TypeOK
  BY InitType
<1>2. TypeOK /\ [Next]_vars => TypeOK'
  BY NextType
<1> QED  BY <1>1, <1>2, PTL DEF Spec

-----------------------------------------------------------------------------
(* The reservation.  ReservationExact is not inductive alone: a session that *)
(* holds must also have a workspace, or two sessions with none would do.     *)

Seated == \A s \in Sessions : st[s] \in Holding => ws[s] \in Workspaces

Reserved == TypeOK /\ Seated /\ ReservationExact

\* What a step does to the stages, workspaces and reservations, the rest left out.
Reserve(s, w) ==
  /\ byWorkspace[w] = Nil /\ st[s] = "unused"
  /\ byWorkspace' = [byWorkspace EXCEPT ![w] = s]
  /\ st' = [st EXCEPT ![s] = "opening"]
  /\ ws' = [ws EXCEPT ![s] = w]

Progress(s) ==
  /\ \/ st[s] = "opening" /\ st' = [st EXCEPT ![s] = "connected"]
     \/ st[s] = "connected" /\ st' = [st EXCEPT ![s] = "live"]
     \/ st[s] = "ended" /\ st' = [st EXCEPT ![s] = "gone"]
  /\ UNCHANGED <<byWorkspace, ws>>

Free(s) ==
  /\ st[s] \in Holding
  /\ \E over \in {"ended", "failed"} : st' = [st EXCEPT ![s] = over]
  /\ byWorkspace' = [byWorkspace EXCEPT ![ws[s]] = Nil]
  /\ UNCHANGED ws

\* finish frees a live session's workspace, and touches no reservation otherwise.
LEMMA FinishFrees ==
  ASSUME NEW s \in Sessions, NEW final, NEW subs, Finish(s, final, subs), UNCHANGED ws
  PROVE  Free(s) \/ UNCHANGED <<byWorkspace, st, ws>>
BY DEF Finish, Free, Holding

\* Every step reserves, moves on, frees one or all, or leaves the reservations alone.
LEMMA StepShape ==
  ASSUME [Next]_vars
  PROVE  \/ \E s \in Sessions, w \in Workspaces : Reserve(s, w)
         \/ \E s \in Sessions : Progress(s) \/ Free(s)
         \/ Shutdown
         \/ UNCHANGED <<byWorkspace, st, ws>>
<1> DEFINE Shape(s) == \/ \E w \in Workspaces : Reserve(s, w)
                       \/ Progress(s) \/ Free(s)
                       \/ UNCHANGED <<byWorkspace, st, ws>>
<1>1. ASSUME NEW s \in Sessions, NEW w \in Workspaces, Open(w, s) PROVE Shape(s)
  BY <1>1 DEF Open, Reserve
<1>2. ASSUME NEW s \in Sessions, Connect(s) \/ Opened(s) \/ Linger(s) PROVE Shape(s)
  BY <1>2 DEF Connect, Opened, Linger, Progress
<1>3. ASSUME NEW s \in Sessions, OpenFails(s) PROVE Shape(s)
  BY <1>3 DEF OpenFails, Free, Holding
<1>4. ASSUME NEW s \in Sessions, Settle(s) \/ Close(s) \/ CheckIdle(s) PROVE Shape(s)
  BY <1>4, FinishFrees DEF Settle, Close, CheckIdle
<1>5. ASSUME NEW s \in Sessions, Write(s) \/ GrowQuiet(s) \/ DataEarly(s) \/ DataKept(s)
      PROVE  Shape(s)
  BY <1>5 DEF Write, GrowQuiet, DataEarly, DataKept
<1>6. ASSUME NEW s \in Sessions, DataDelivered(s) PROVE Shape(s)
  BY <1>6, FinishFrees DEF DataDelivered
<1>7. ASSUME NEW s \in Sessions, NEW x \in Subscribers, Subscribe(x, s) PROVE Shape(s)
  BY <1>7 DEF Subscribe
<1>8. ASSUME NEW s \in Sessions, NEW x \in Subscribers, SubscribeSlow(x, s) PROVE Shape(s)
  BY <1>8, FinishFrees DEF SubscribeSlow
<1>9. ASSUME NEW x \in Subscribers, Abort(x) PROVE UNCHANGED <<byWorkspace, st, ws>>
  BY <1>9 DEF Abort
<1>10. CASE UNCHANGED vars
  BY <1>10 DEF vars
<1> QED  BY <1>1, <1>2, <1>3, <1>4, <1>5, <1>6, <1>7, <1>8, <1>9, <1>10 DEF Next

LEMMA ReservedInit == Init => Reserved
<1> SUFFICES ASSUME Init PROVE Seated /\ ReservationExact
  BY InitType DEF Reserved
<1> QED  BY ConstantsAssumption DEF Init, Seated, ReservationExact, Holding

LEMMA ReservedNext == Reserved /\ [Next]_vars => Reserved'
<1> SUFFICES ASSUME Reserved, [Next]_vars PROVE (Seated /\ ReservationExact)'
  BY NextType DEF Reserved
<1> USE DEF Reserved, TypeOK, Seated, ReservationExact
<1>1. ASSUME NEW s \in Sessions, NEW w \in Workspaces, Reserve(s, w)
      PROVE  (Seated /\ ReservationExact)'
  <2>1. \A t \in Sessions : st[t] \in Holding => ws[t] # w
    BY <1>1, ConstantsAssumption DEF Reserve
  <2>2. /\ st'[s] = "opening" /\ ws'[s] = w /\ byWorkspace'[w] = s
        /\ \A t \in Sessions : t # s => st'[t] = st[t] /\ ws'[t] = ws[t]
        /\ \A v \in Workspaces : v # w => byWorkspace'[v] = byWorkspace[v]
    BY <1>1 DEF Reserve
  <2>3. Seated'
    BY <2>2 DEF Holding
  <2>4. \A v \in Workspaces : byWorkspace[v] # s
    BY <1>1 DEF Reserve, Holding
  <2>5. ReservationExact'
    BY <2>1, <2>2, <2>4 DEF Holding
  <2> QED  BY <2>3, <2>5
<1>2. ASSUME NEW s \in Sessions, Progress(s) PROVE (Seated /\ ReservationExact)'
  BY <1>2 DEF Progress, Holding
<1>3. ASSUME NEW s \in Sessions, Free(s) PROVE (Seated /\ ReservationExact)'
  <2>1. /\ st'[s] \notin Holding /\ byWorkspace'[ws[s]] = Nil /\ ws' = ws
        /\ \A t \in Sessions : t # s => st'[t] = st[t]
        /\ \A v \in Workspaces : v # ws[s] => byWorkspace'[v] = byWorkspace[v]
    BY <1>3 DEF Free, Holding
  <2>2. byWorkspace[ws[s]] = s
    BY <1>3 DEF Free
  <2> QED  BY <2>1, <2>2, ConstantsAssumption
<1>4. CASE Shutdown
  <2> DEFINE Live == {s \in Sessions : st[s] = "live"}
  <2>1. /\ st' = [s \in Sessions |-> IF s \in Live THEN "ended" ELSE st[s]]
        /\ byWorkspace' = [w \in Workspaces |->
                             IF \E s \in Live : ws[s] = w THEN Nil ELSE byWorkspace[w]]
        /\ ws' = ws
    BY <1>4 DEF Shutdown
  <2>2. \A s \in Sessions : st'[s] \in Holding <=> st[s] \in Holding /\ s \notin Live
    BY <2>1 DEF Holding
  <2>3. \A w \in Workspaces, s \in Sessions :
          byWorkspace'[w] = s <=> byWorkspace[w] = s /\ s \notin Live
    BY <2>1, ConstantsAssumption DEF Holding
  <2> QED  BY <2>1, <2>2, <2>3
<1>5. CASE UNCHANGED <<byWorkspace, st, ws>>
  BY <1>5
<1> QED  BY <1>1, <1>2, <1>3, <1>4, <1>5, StepShape

LEMMA SpecReserved == Spec => []Reserved
<1> QED  BY ReservedInit, ReservedNext, PTL DEF Spec

\* The reservation of a workspace is exactly the session that holds it: open() never
\* refuses a free workspace, nor admits a second session to a taken one.
THEOREM PtyReservation == Spec => []ReservationExact
<1>1. Reserved => ReservationExact
  BY DEF Reserved
<1> QED  BY <1>1, SpecReserved, PTL

\* A workspace never has two interactive terminals, however late the end of an older
\* one is reported.
THEOREM PtyExclusive == Spec => []OneSessionPerWorkspace
<1>1. Reserved => OneSessionPerWorkspace
  BY DEF Reserved, Seated, ReservationExact, OneSessionPerWorkspace
<1> QED  BY <1>1, SpecReserved, PTL

-----------------------------------------------------------------------------
(* The service implements ExclusiveSessions.                               *)

LEMMA PromiseInit == Init => Promise!Init
BY DEF Init, Promise!Init, Owns, Spent, Holding

LEMMA PromiseStep ==
  ASSUME Reserved, [Next]_vars
  PROVE  [Promise!Next]_(Promise!vars)
<1> USE DEF Reserved, TypeOK, Owns, Spent, Promise!vars, Promise!Next
<1>1. ASSUME NEW s \in Sessions, NEW w \in Workspaces, Reserve(s, w)
      PROVE  Promise!Take(s, w)
  <2>1. Owns[s] = Nil /\ s \notin Spent
    BY <1>1 DEF Reserve, Holding
  <2>2. \A t \in Sessions : Owns[t] # w
    BY <1>1, ConstantsAssumption DEF Reserve, Holding, ReservationExact
  <2>3. Owns' = [Owns EXCEPT ![s] = w]
    BY <1>1 DEF Reserve, Holding
  <2>4. UNCHANGED Spent
    BY <1>1 DEF Reserve
  <2> QED  BY <2>1, <2>2, <2>3, <2>4 DEF Promise!Take
<1>2. ASSUME NEW s \in Sessions, Progress(s)
      PROVE  UNCHANGED Promise!vars
  <2>1. UNCHANGED Owns
    BY <1>2 DEF Progress, Holding
  <2>2. UNCHANGED Spent
    BY <1>2 DEF Progress
  <2> QED  BY <2>1, <2>2
<1>3. ASSUME NEW s \in Sessions, Free(s)
      PROVE  Promise!GiveBack(s)
  <2>1. Owns[s] # Nil
    BY <1>3, ConstantsAssumption DEF Free, Seated
  <2>2. Owns' = [Owns EXCEPT ![s] = Nil]
    BY <1>3 DEF Free, Holding
  <2>3. Spent' = Spent \union {s}
    BY <1>3 DEF Free
  <2> QED  BY <2>1, <2>2, <2>3 DEF Promise!GiveBack
<1>4. CASE Shutdown
  <2> DEFINE Live == {s \in Sessions : st[s] = "live"}
  <2>1. Live # {} /\ Live \in SUBSET Sessions
    BY <1>4 DEF Shutdown
  <2>2. /\ st' = [s \in Sessions |-> IF s \in Live THEN "ended" ELSE st[s]]
        /\ ws' = ws
    BY <1>4 DEF Shutdown
  <2>3. \A s \in Live : Owns[s] # Nil
    BY ConstantsAssumption DEF Seated, Holding
  <2>4. Owns' = [s \in Sessions |-> IF s \in Live THEN Nil ELSE Owns[s]]
    BY <2>2 DEF Holding
  <2>5. Spent' = Spent \union Live
    BY <2>2
  <2> HIDE DEF Live, Owns, Spent
  <2>6. Promise!GiveAllBack(Live)
    BY <2>1, <2>3, <2>4, <2>5 DEF Promise!GiveAllBack
  <2> QED  BY <2>1, <2>6
<1>5. CASE UNCHANGED <<byWorkspace, st, ws>>
  BY <1>5
<1> QED  BY <1>1, <1>2, <1>3, <1>4, <1>5, StepShape

\* Opening, losing and closing terminals is, seen from the workspaces, taking one that
\* is free and giving it back once and for all.
THEOREM PtyKeepsPromise == Spec => KeepsPromise
<1>1. Init => Promise!Init
  BY PromiseInit
<1>2. Reserved /\ [Next]_vars => [Promise!Next]_(Promise!vars)
  BY PromiseStep
<1> QED  BY <1>1, <1>2, SpecReserved, PTL DEF Spec, KeepsPromise, Promise!Spec

-----------------------------------------------------------------------------
(* Who waits is answered.  ListenerAnswered is not inductive alone: a live   *)
(* session must tell only somebody that waits for it, and a session that has *)
(* ended must remember nobody that could still listen elsewhere.             *)

\* A subscriber in its right mind waits for a live session that knows it.
Waits(x) ==
  sub[x].st = "waiting" /\ ~sub[x].replaced =>
    sub[x].ses \in Sessions /\ st[sub[x].ses] = "live" /\ ses[sub[x].ses].listener = x

\* Only a subscriber whose call has resolved has heard of an end, and once.
HeardOnce(x) ==
  /\ sub[x].exits \in {0, 1}
  /\ sub[x].st # "done" => sub[x].exits = 0

\* Whoever a session remembers waits for it, or is done with.
Remembers(s) ==
  LET y == ses[s].listener IN
  y # Nil => \/ st[s] = "live" /\ sub[y].st = "waiting" /\ sub[y].ses = s /\ ~sub[y].replaced
             \/ st[s] \in {"ended", "gone"} /\ sub[y].st = "done"

Answering ==
  /\ TypeOK
  /\ \A x \in Subscribers : Waits(x) /\ HeardOnce(x)
  /\ \A s \in Sessions : Remembers(s)

LEMMA AnsweringInit == Init => Answering
<1> SUFFICES ASSUME Init PROVE Answering
  OBVIOUS
<1>1. TypeOK
  BY InitType
<1>2. /\ \A x \in Subscribers : sub[x].st = "idle" /\ sub[x].exits = 0
      /\ \A s \in Sessions : ses[s].listener = Nil
  BY DEF Init, NewSub, NewSes
<1> QED  BY <1>1, <1>2 DEF Answering, Waits, HeardOnce, Remembers

\* Types of what the argument looks at.
LEMMA ListenerTypes ==
  ASSUME TypeOK
  PROVE  /\ \A s \in Sessions : ses[s] \in SesRecord
                                /\ ses[s].listener \in Subscribers \union {Nil}
         /\ \A x \in Subscribers : sub[x] \in SubRecord
                                /\ sub[x].exits \in Nat /\ sub[x].replaced \in BOOLEAN
         /\ Nil \notin Subscribers
<1>1. \A s \in Sessions : ses[s] \in SesRecord
  BY DEF TypeOK
<1>2. \A x \in Subscribers : sub[x] \in SubRecord
  BY DEF TypeOK
<1>3. \A r \in SesRecord : r.listener \in Subscribers \union {Nil}
  BY DEF SesRecord
<1>4. \A u \in SubRecord : u.exits \in Nat /\ u.replaced \in BOOLEAN
  BY DEF SubRecord
<1> QED  BY <1>1, <1>2, <1>3, <1>4, ConstantsAssumption

\* A step that leaves listeners and subscribers alone, and only opens sessions or
\* forgets them once they have ended.
Apart ==
  /\ UNCHANGED sub
  /\ \A s \in Sessions :
       /\ ses'[s].listener = ses[s].listener
       /\ \/ st'[s] = st[s]
          \/ st[s] \notin {"live", "ended", "gone"}
          \/ st[s] = "ended" /\ st'[s] = "gone"

LEMMA ApartAnswers ==
  ASSUME Answering, TypeOK', Apart
  PROVE  Answering'
<1> USE DEF Apart
<1>1. ASSUME NEW x \in Subscribers PROVE Waits(x)' /\ HeardOnce(x)'
  <2>1. Waits(x) /\ HeardOnce(x)
    BY DEF Answering
  <2> QED  BY <2>1 DEF Waits, HeardOnce
<1>2. ASSUME NEW s \in Sessions PROVE Remembers(s)'
  <2>1. Remembers(s)
    BY DEF Answering
  <2> QED  BY <2>1 DEF Remembers
<1> QED  BY <1>1, <1>2 DEF Answering

\* The sessions of Over end, each telling whoever it remembers.
Ends(Over) ==
  /\ \A s \in Over : st[s] = "live" /\ st'[s] = "ended" /\ ses'[s].listener = Nil
  /\ \A s \in Sessions \ Over : st'[s] = st[s] /\ ses'[s].listener = ses[s].listener
  /\ \A x \in Subscribers :
       sub'[x] = IF \E s \in Over : ses[s].listener = x THEN Told(sub[x]) ELSE sub[x]

LEMMA EndsAnswers ==
  ASSUME Answering, TypeOK', NEW Over \in SUBSET Sessions, Ends(Over)
  PROVE  Answering'
<1> USE DEF Ends
<1>0. TypeOK
  BY DEF Answering
<1>1. \A x \in Subscribers : /\ Told(sub[x]).st = "done"
                             /\ Told(sub[x]).exits = sub[x].exits + 1
  <2> SUFFICES ASSUME NEW x \in Subscribers
               PROVE  /\ Told(sub[x]).st = "done"
                      /\ Told(sub[x]).exits = sub[x].exits + 1
    OBVIOUS
  <2>1. sub[x] \in SubRecord
    BY <1>0, ListenerTypes
  <2> QED  BY <2>1 DEF Told, SubRecord
<1>2. ASSUME NEW x \in Subscribers PROVE Waits(x)' /\ HeardOnce(x)'
  <2>1. Waits(x) /\ HeardOnce(x)
    BY DEF Answering
  <2>2. CASE \E s \in Over : ses[s].listener = x
    <3>1. PICK s \in Over : ses[s].listener = x
      BY <2>2
    <3>2. Remembers(s)
      BY DEF Answering
    <3>3. sub[x].st = "waiting"
      BY <1>0, <3>1, <3>2, ListenerTypes DEF Remembers
    <3>4. sub'[x].st = "done" /\ sub'[x].exits = 1
      BY <1>1, <2>1, <2>2, <3>3 DEF HeardOnce
    <3> QED  BY <3>4 DEF Waits, HeardOnce
  <2>3. CASE ~ \E s \in Over : ses[s].listener = x
    <3>1. sub'[x] = sub[x]
      BY <2>3
    <3> QED  BY <2>1, <2>3, <3>1 DEF Waits, HeardOnce
  <2> QED  BY <2>2, <2>3
<1>3. ASSUME NEW s \in Sessions PROVE Remembers(s)'
  <2>1. CASE s \in Over
    BY <2>1 DEF Remembers
  <2>2. CASE s \notin Over
    <3> DEFINE y == ses[s].listener
    <3>1. CASE y = Nil
      BY <2>2, <3>1 DEF Remembers
    <3>2. CASE y # Nil
      <4>1. y \in Subscribers /\ Remembers(s)
        BY <1>0, <3>2, ListenerTypes DEF Answering
      <4>2. ASSUME NEW t \in Over, ses[t].listener = y PROVE FALSE
        <5>1. Remembers(t) /\ st[t] = "live"
          BY DEF Answering
        <5>2. sub[y].st = "waiting" /\ sub[y].ses = t
          BY <3>2, <4>2, <5>1 DEF Remembers
        <5> QED  BY <2>2, <3>2, <4>1, <5>2 DEF Remembers
      <4>3. sub'[y] = sub[y]
        BY <4>1, <4>2
      <4> QED  BY <2>2, <4>1, <4>3 DEF Remembers
    <3> QED  BY <3>1, <3>2
  <2> QED  BY <2>1, <2>2
<1> QED  BY <1>2, <1>3 DEF Answering

\* x comes to s, which forgets whoever it remembered; what becomes of x is told apart
\* below.
Comes(x, s) ==
  /\ sub[x].st = "idle" /\ st[s] \in {"live", "ended"}
  /\ \A t \in Sessions \ {s} : st'[t] = st[t] /\ ses'[t].listener = ses[t].listener
  /\ \A y \in Subscribers \ {x} :
       /\ sub'[y].st = sub[y].st /\ sub'[y].ses = sub[y].ses /\ sub'[y].exits = sub[y].exits
       /\ sub'[y].replaced <=> sub[y].replaced \/ y = ses[s].listener
  /\ \/ /\ st[s] = "live" /\ st'[s] = "live" /\ ses'[s].listener = x
        /\ sub'[x].st = "waiting" /\ sub'[x].ses = s
        /\ ~sub'[x].replaced /\ sub'[x].exits = 0
     \/ /\ st'[s] = "ended" /\ ses'[s].listener \in {x, Nil}
        /\ sub'[x].st = "done" /\ sub'[x].exits \in {0, 1}

LEMMA ComesAnswers ==
  ASSUME Answering, TypeOK', NEW x \in Subscribers, NEW s \in Sessions, Comes(x, s)
  PROVE  Answering'
<1> USE DEF Comes
<1>0. TypeOK
  BY DEF Answering
<1>1. ASSUME NEW y \in Subscribers PROVE Waits(y)' /\ HeardOnce(y)'
  <2>1. Waits(y) /\ HeardOnce(y)
    BY DEF Answering
  <2>2. CASE y = x
    BY <2>2 DEF Waits, HeardOnce
  <2>3. CASE y # x
    <3>1. /\ sub'[y].st = sub[y].st /\ sub'[y].ses = sub[y].ses /\ sub'[y].exits = sub[y].exits
          /\ sub'[y].replaced <=> sub[y].replaced \/ y = ses[s].listener
      BY <2>3
    <3>2. HeardOnce(y)'
      BY <2>1, <3>1 DEF HeardOnce
    <3>3. Waits(y)'
      <4> SUFFICES ASSUME sub'[y].st = "waiting", ~sub'[y].replaced
                   PROVE  /\ sub'[y].ses \in Sessions
                          /\ st'[sub'[y].ses] = "live"
                          /\ ses'[sub'[y].ses].listener = y
        BY DEF Waits
      <4>1. sub[y].st = "waiting" /\ ~sub[y].replaced /\ y # ses[s].listener
        BY <3>1
      <4>2. sub[y].ses \in Sessions /\ st[sub[y].ses] = "live" /\ ses[sub[y].ses].listener = y
        BY <2>1, <4>1 DEF Waits
      <4>3. sub[y].ses \in Sessions \ {s}
        BY <4>1, <4>2
      <4> QED  BY <3>1, <4>2, <4>3
    <3> QED  BY <3>2, <3>3
  <2> QED  BY <2>2, <2>3
<1>2. ASSUME NEW t \in Sessions PROVE Remembers(t)'
  <2>1. CASE t = s
    BY <2>1 DEF Remembers
  <2>2. CASE t # s
    <3> DEFINE y == ses[t].listener
    <3>1. st'[t] = st[t] /\ ses'[t].listener = y
      BY <2>2
    <3>2. CASE y = Nil
      BY <3>1, <3>2 DEF Remembers
    <3>3. CASE y # Nil
      <4>1. y \in Subscribers /\ Remembers(t) /\ Remembers(s)
        BY <1>0, <3>3, ListenerTypes DEF Answering
      <4>2. y # x
        BY <3>3, <4>1 DEF Remembers
      <4>3. st[t] = "live" => y # ses[s].listener
        BY <2>2, <3>3, <4>1 DEF Remembers
      <4>4. /\ sub'[y].st = sub[y].st /\ sub'[y].ses = sub[y].ses
            /\ sub'[y].replaced <=> sub[y].replaced \/ y = ses[s].listener
        BY <4>1, <4>2
      <4> HIDE DEF Comes
      <4> QED  BY <3>1, <3>3, <4>1, <4>3, <4>4 DEF Remembers
    <3> QED  BY <3>2, <3>3
  <2> QED  BY <2>1, <2>2
<1> QED  BY <1>1, <1>2 DEF Answering

\* The call of x resolves without the end having come; its session, if it is there,
\* may end with it, and no longer remembers x.
Leaves(x) ==
  /\ sub[x].st = "waiting" /\ sub'[x].st = "done" /\ sub'[x].exits = sub[x].exits
  /\ \A y \in Subscribers \ {x} : sub'[y] = sub[y]
  /\ \A s \in Sessions :
       IF ses[s].listener = x /\ sub[x].ses = s
       THEN ses'[s].listener = Nil
       ELSE st'[s] = st[s] /\ ses'[s].listener = ses[s].listener

LEMMA LeavesAnswers ==
  ASSUME Answering, TypeOK', NEW x \in Subscribers, Leaves(x)
  PROVE  Answering'
<1> USE DEF Leaves
<1>0. TypeOK
  BY DEF Answering
<1>1. ASSUME NEW y \in Subscribers PROVE Waits(y)' /\ HeardOnce(y)'
  <2>1. Waits(y) /\ HeardOnce(y)
    BY DEF Answering
  <2>2. CASE y = x
    BY <2>1, <2>2 DEF Waits, HeardOnce
  <2>3. CASE y # x
    BY <2>1, <2>3 DEF Waits, HeardOnce
  <2> QED  BY <2>2, <2>3
<1>2. ASSUME NEW s \in Sessions PROVE Remembers(s)'
  <2> DEFINE y == ses[s].listener
  <2>1. Remembers(s)
    BY DEF Answering
  <2>2. CASE y = x
    BY <2>1, <2>2, ListenerTypes, <1>0 DEF Remembers
  <2>3. CASE y = Nil
    BY <1>0, <2>3, ListenerTypes DEF Remembers
  <2>4. CASE y # x /\ y # Nil
    <3>1. y \in Subscribers
      BY <1>0, <2>4, ListenerTypes
    <3> QED  BY <2>1, <2>4, <3>1 DEF Remembers
  <2> QED  BY <2>2, <2>3, <2>4
<1> QED  BY <1>1, <1>2 DEF Answering

\* finish, whoever calls it with the listener and the subscribers as they are: a live
\* session ends, and one that is not is left as it was.
LEMMA FinishEnds ==
  ASSUME TypeOK, NEW s \in Sessions, NEW final \in SesRecord,
         final.listener = ses[s].listener, Finish(s, final, sub)
  PROVE  Apart \/ Ends({s})
<1>0. /\ ses \in [Sessions -> SesRecord] /\ st \in [Sessions -> Stages]
      /\ sub \in [Subscribers -> SubRecord]
  BY DEF TypeOK
<1>1. [final EXCEPT !.listener = Nil].listener = Nil
  BY DEF SesRecord
<1>2. CASE st[s] # "live"
  BY <1>0, <1>2 DEF Finish, Apart
<1>3. CASE st[s] = "live"
  <2>1. /\ st' = [st EXCEPT ![s] = "ended"]
        /\ ses' = [ses EXCEPT ![s] = [final EXCEPT !.listener = Nil]]
        /\ sub' = [x \in Subscribers |->
                     IF x = final.listener THEN Told(sub[x]) ELSE sub[x]]
    BY <1>3 DEF Finish
  <2> QED  BY <1>0, <1>1, <1>3, <2>1 DEF Ends
<1> QED  BY <1>2, <1>3

LEMMA CloseAnswers ==
  ASSUME Answering, TypeOK', NEW s \in Sessions, Settle(s) \/ Close(s)
  PROVE  Answering'
<1>0. TypeOK /\ ses[s] \in SesRecord
  BY ListenerTypes DEF Answering
<1>1. [ses[s] EXCEPT !.settled = TRUE] \in SesRecord
  BY <1>0, Zenon DEF SesRecord
<1>2. [ses[s] EXCEPT !.settled = TRUE].listener = ses[s].listener
  BY <1>0 DEF SesRecord
<1>3. Apart \/ Ends({s})
  BY <1>0, <1>1, <1>2, FinishEnds DEF Settle, Close
<1> QED  BY <1>3, ApartAnswers, EndsAnswers

LEMMA ShutdownAnswers ==
  ASSUME Answering, TypeOK', Shutdown
  PROVE  Answering'
<1> DEFINE Live == {s \in Sessions : st[s] = "live"}
<1>0. TypeOK /\ \A s \in Sessions : ses[s] \in SesRecord
  BY ListenerTypes DEF Answering
<1>1. \A s \in Sessions : [ses[s] EXCEPT !.listener = Nil].listener = Nil
  BY <1>0 DEF SesRecord
<1>2. Ends(Live)
  BY <1>1 DEF Shutdown, Ends
<1>3. Live \in SUBSET Sessions
  OBVIOUS
<1> QED  BY <1>2, <1>3, EndsAnswers

\* The steps that change neither who listens nor who waits.
LEMMA ApartSteps ==
  ASSUME TypeOK, NEW s \in Sessions,
         \/ \E w \in Workspaces : Open(w, s)
         \/ Connect(s) \/ OpenFails(s) \/ Opened(s) \/ Linger(s)
         \/ Write(s) \/ GrowQuiet(s) \/ DataEarly(s) \/ DataKept(s)
  PROVE  Apart
<1>0. /\ ses \in [Sessions -> SesRecord] /\ st \in [Sessions -> Stages]
      /\ ses[s] \in SesRecord /\ Heard(s) \in SesRecord
  BY HeardType DEF TypeOK
<1>1. CASE \/ \E w \in Workspaces : Open(w, s)
           \/ Connect(s) \/ OpenFails(s) \/ Opened(s) \/ Linger(s)
  BY <1>0, <1>1 DEF Apart, Open, Connect, OpenFails, Opened, Linger
<1>2. CASE Write(s) \/ GrowQuiet(s)
  <2>1. PICK b \in BOOLEAN : ses' = [ses EXCEPT ![s] = [ses[s] EXCEPT !.quiet = b]]
    BY <1>0, <1>2 DEF Write, GrowQuiet
  <2>2. [ses[s] EXCEPT !.quiet = b].listener = ses[s].listener
    BY <1>0 DEF SesRecord
  <2>3. UNCHANGED <<st, sub>>
    BY <1>2 DEF Write, GrowQuiet
  <2> QED  BY <1>0, <2>1, <2>2, <2>3 DEF Apart
<1>3. CASE DataEarly(s)
  BY <1>0, <1>3 DEF Apart, DataEarly, SesRecord
<1>4. CASE DataKept(s)
  <2>1. PICK b, c : ses' = [ses EXCEPT ![s] = [Heard(s) EXCEPT !.backlog = b, !.cut = c]]
    BY <1>4 DEF DataKept
  <2>2. Heard(s).listener = ses[s].listener
    BY <1>0 DEF Heard, SesRecord
  <2>3. [Heard(s) EXCEPT !.backlog = b, !.cut = c].listener = Heard(s).listener
    BY <1>0 DEF SesRecord
  <2>4. UNCHANGED <<st, sub>>
    BY <1>4 DEF DataKept
  <2> QED  BY <1>0, <2>1, <2>2, <2>3, <2>4 DEF Apart
<1> QED  BY <1>1, <1>2, <1>3, <1>4

\* A chunk taken by the listener, or too much for it.
LEMMA DeliveredAnswers ==
  ASSUME Answering, TypeOK', NEW s \in Sessions, DataDelivered(s)
  PROVE  Answering'
<1> DEFINE x == ses[s].listener
           r == [Heard(s) EXCEPT !.out = Append(@, ses[s].seen + 1)]
           slow == [sub EXCEPT ![x].st = "done", ![x].end = "slow"]
           dropped == [r EXCEPT !.listener = Nil]
<1>0. /\ TypeOK /\ ses[s] \in SesRecord /\ Heard(s) \in SesRecord
      /\ ses \in [Sessions -> SesRecord] /\ st \in [Sessions -> Stages]
      /\ sub \in [Subscribers -> SubRecord]
  BY HeardType, ListenerTypes DEF Answering, TypeOK
<1>1. st[s] = "live" /\ x # Nil /\ x \in Subscribers /\ sub[x] \in SubRecord
  BY <1>0, ListenerTypes DEF DataDelivered
<1>2. r.listener = x /\ dropped.listener = Nil /\ [dropped EXCEPT !.listener = Nil].listener = Nil
  <2>1. Heard(s).listener = x
    BY <1>0 DEF Heard, SesRecord
  <2>2. DOMAIN Heard(s) = DOMAIN ses[s] /\ "listener" \in DOMAIN ses[s]
    BY <1>0 DEF SesRecord
  <2> QED  BY <2>1, <2>2
<1>3. CASE ses' = [ses EXCEPT ![s] = r] /\ UNCHANGED <<byWorkspace, st, sub>>
  <2> HIDE DEF r, dropped
  <2>1. Apart
    BY <1>0, <1>2, <1>3 DEF Apart
  <2> QED  BY <2>1, ApartAnswers
<1>4. CASE Finish(s, dropped, slow)
  <2>1. /\ slow[x].st = "done" /\ slow[x].exits = sub[x].exits
        /\ \A y \in Subscribers \ {x} : slow[y] = sub[y]
    BY <1>0, <1>1 DEF SubRecord
  <2> HIDE DEF r, dropped, slow
  <2>2. /\ st' = [st EXCEPT ![s] = "ended"]
        /\ ses' = [ses EXCEPT ![s] = [dropped EXCEPT !.listener = Nil]]
        /\ sub' = [y \in Subscribers |->
                     IF y = dropped.listener THEN Told(slow[y]) ELSE slow[y]]
    BY <1>1, <1>4 DEF Finish
  <2>3. \A y \in Subscribers : sub'[y] = slow[y]
    BY <1>0, <1>2, <2>2, ListenerTypes
  <2>4. /\ ses'[s].listener = Nil
        /\ \A t \in Sessions \ {s} : st'[t] = st[t] /\ ses'[t].listener = ses[t].listener
    BY <1>0, <1>2, <2>2
  <2>5. sub[x].st = "waiting" /\ sub[x].ses = s
    <3>1. Remembers(s)
      BY DEF Answering
    <3> QED  BY <1>1, <3>1 DEF Remembers
  <2>6. Leaves(x)
    BY <1>1, <2>1, <2>3, <2>4, <2>5 DEF Leaves
  <2> QED  BY <1>1, <2>6, LeavesAnswers
<1> QED  BY <1>3, <1>4 DEF DataDelivered

LEMMA AbortAnswers ==
  ASSUME Answering, TypeOK', NEW x \in Subscribers, Abort(x)
  PROVE  Answering'
<1>0. /\ TypeOK /\ ses \in [Sessions -> SesRecord] /\ sub \in [Subscribers -> SubRecord]
      /\ sub[x] \in SubRecord
  BY ListenerTypes DEF Answering, TypeOK
<1>1. /\ sub'[x].st = "done" /\ sub'[x].exits = sub[x].exits
      /\ \A y \in Subscribers \ {x} : sub'[y] = sub[y]
  BY <1>0 DEF Abort, SubRecord
<1>2. ASSUME NEW s \in Sessions
      PROVE  IF ses[s].listener = x /\ sub[x].ses = s
             THEN ses'[s].listener = Nil
             ELSE st'[s] = st[s] /\ ses'[s].listener = ses[s].listener
  <2> DEFINE left == IF ses[s].listener = x THEN Nil ELSE ses[s].listener
  <2>1. ses[s] \in SesRecord
    BY <1>0
  <2>2. CASE sub[x].ses = s
    <3>1. ses'[s] = [ses[s] EXCEPT !.listener = left] /\ st'[s] = st[s]
      BY <1>0, <2>2 DEF Abort
    <3>2. ses'[s].listener = left
      BY <2>1, <3>1 DEF SesRecord
    <3> QED  BY <2>2, <3>1, <3>2
  <2>3. CASE sub[x].ses # s
    BY <1>0, <2>3 DEF Abort
  <2> QED  BY <2>2, <2>3
<1>3. Leaves(x)
  BY <1>1, <1>2 DEF Leaves, Abort
<1> QED  BY <1>3, LeavesAnswers

\* What Joined makes of the subscribers.
LEMMA JoinedFields ==
  ASSUME TypeOK, NEW s \in Sessions, NEW x \in Subscribers
  PROVE  /\ Joined(s, x)[x] \in SubRecord
         /\ Joined(s, x)[x].st = "waiting" /\ Joined(s, x)[x].ses = s
         /\ Joined(s, x)[x].replaced = FALSE /\ Joined(s, x)[x].exits = 0
         /\ \A y \in Subscribers \ {x} :
              /\ Joined(s, x)[y].st = sub[y].st /\ Joined(s, x)[y].ses = sub[y].ses
              /\ Joined(s, x)[y].exits = sub[y].exits
              /\ Joined(s, x)[y].replaced <=> sub[y].replaced \/ y = ses[s].listener
<1> DEFINE new == [NewSub EXCEPT !.st = "waiting", !.ses = s]
<1>1. /\ new \in SubRecord /\ new.st = "waiting" /\ new.ses = s
      /\ new.replaced = FALSE /\ new.exits = 0
  BY DEF NewSub, SubRecord
<1>2. Joined(s, x)[x] = new
  BY DEF Joined
<1>3. ASSUME NEW y \in Subscribers \ {x}
      PROVE  /\ Joined(s, x)[y].st = sub[y].st /\ Joined(s, x)[y].ses = sub[y].ses
             /\ Joined(s, x)[y].exits = sub[y].exits
             /\ Joined(s, x)[y].replaced <=> sub[y].replaced \/ y = ses[s].listener
  <2> DEFINE old == [sub[y] EXCEPT !.replaced = TRUE]
  <2>1. sub[y] \in SubRecord /\ sub[y].replaced \in BOOLEAN
    BY ListenerTypes
  <2>2. /\ old.st = sub[y].st /\ old.ses = sub[y].ses /\ old.exits = sub[y].exits
        /\ old.replaced = TRUE
    BY <2>1 DEF SubRecord
  <2> HIDE DEF old
  <2>3. Joined(s, x)[y] = IF y = ses[s].listener THEN old ELSE sub[y]
    BY DEF Joined, old
  <2> QED  BY <2>1, <2>2, <2>3
<1> HIDE DEF new
<1> QED  BY <1>1, <1>2, <1>3

LEMMA SubscribeAnswers ==
  ASSUME Answering, TypeOK', NEW s \in Sessions, NEW x \in Subscribers, Subscribe(x, s)
  PROVE  Answering'
<1> DEFINE k == Len(ses[s].backlog)
           j == Joined(s, x)
<1>0. /\ TypeOK /\ ses \in [Sessions -> SesRecord] /\ sub \in [Subscribers -> SubRecord]
      /\ ses[s] \in SesRecord
  BY ListenerTypes DEF Answering, TypeOK
<1>1. k \in 0 .. Len(ses[s].backlog)
  BY <1>0, HeardType
<1>2. j \in [Subscribers -> SubRecord]
  BY <1>0, <1>1, SubscribeType
<1>3. Taken(s, x, k).listener = x
  BY <1>0 DEF Taken, SesRecord
<1>4. /\ ses'[s].listener = x /\ UNCHANGED st
      /\ \A t \in Sessions \ {s} : ses'[t].listener = ses[t].listener
  BY <1>0, <1>3 DEF Subscribe
<1>5. sub' = IF st[s] = "live" THEN j ELSE [j EXCEPT ![x] = Told(j[x])]
  BY DEF Subscribe
<1>6. Told(j[x]).st = "done" /\ Told(j[x]).exits = 1
  <2>1. j[x] \in SubRecord /\ j[x].exits = 0
    BY <1>0, JoinedFields
  <2> HIDE DEF j
  <2> QED  BY <2>1 DEF Told, SubRecord
<1> HIDE DEF j
<1>7. /\ \A y \in Subscribers \ {x} : sub'[y] = j[y]
      /\ sub'[x] = IF st[s] = "live" THEN j[x] ELSE Told(j[x])
  BY <1>2, <1>5
<1>8. \A y \in Subscribers \ {x} :
        /\ sub'[y].st = sub[y].st /\ sub'[y].ses = sub[y].ses /\ sub'[y].exits = sub[y].exits
        /\ sub'[y].replaced <=> sub[y].replaced \/ y = ses[s].listener
  <2> TAKE y \in Subscribers \ {x}
  <2>1. sub'[y] = Joined(s, x)[y]
    BY <1>7 DEF j
  <2>2. /\ Joined(s, x)[y].st = sub[y].st /\ Joined(s, x)[y].ses = sub[y].ses
        /\ Joined(s, x)[y].exits = sub[y].exits
        /\ Joined(s, x)[y].replaced <=> sub[y].replaced \/ y = ses[s].listener
    <3>1. TypeOK
      BY DEF Answering
    <3> QED  BY <3>1, JoinedFields
  <2> QED  BY <2>1, <2>2, Zenon
<1>9. /\ j[x].st = "waiting" /\ j[x].ses = s /\ ~j[x].replaced /\ j[x].exits = 0
  BY <1>0, JoinedFields DEF j
<1>10. sub[x].st = "idle" /\ st[s] \in {"live", "ended"} /\ st' = st
  BY DEF Subscribe
<1>11. Comes(x, s)
  BY <1>4, <1>6, <1>7, <1>8, <1>9, <1>10 DEF Comes
<1> QED  BY <1>11, ComesAnswers

LEMMA SlowAnswers ==
  ASSUME Answering, TypeOK', NEW s \in Sessions, NEW x \in Subscribers, SubscribeSlow(x, s)
  PROVE  Answering'
<1> DEFINE j == Joined(s, x)
           slow == [j EXCEPT ![x].st = "done", ![x].end = "slow"]
<1>0. /\ TypeOK /\ ses \in [Sessions -> SesRecord] /\ sub \in [Subscribers -> SubRecord]
      /\ st \in [Sessions -> Stages] /\ ses[s] \in SesRecord
  BY ListenerTypes DEF Answering, TypeOK
<1>1. PICK k \in 1 .. Len(ses[s].backlog) : Finish(s, Taken(s, x, k), slow)
  BY DEF SubscribeSlow
<1>2. k \in 0 .. Len(ses[s].backlog)
  BY <1>0, HeardType
<1>3. Taken(s, x, k) \in SesRecord /\ j \in [Subscribers -> SubRecord]
  BY <1>0, <1>2, SubscribeType
<1> DEFINE final == Taken(s, x, k)
<1>4. final.listener = x
  BY <1>0 DEF Taken, SesRecord
<1>5. [final EXCEPT !.listener = Nil].listener = Nil
  <2> HIDE DEF final
  <2>1. final \in SesRecord
    BY <1>3 DEF final
  <2> QED  BY <2>1 DEF SesRecord
<1>6. j[x] \in SubRecord /\ j[x].exits = 0
  BY <1>0, JoinedFields
<1> HIDE DEF j, final
<1>7. /\ slow[x] \in SubRecord /\ slow[x].st = "done" /\ slow[x].exits = 0
      /\ \A y \in Subscribers \ {x} : slow[y] = j[y]
  <2>1. slow[x] = [j[x] EXCEPT !.st = "done", !.end = "slow"]
    BY <1>3
  <2>2. [j[x] EXCEPT !.st = "done", !.end = "slow"] \in SubRecord
    BY <1>6, Zenon DEF SubRecord
  <2>3. /\ [j[x] EXCEPT !.st = "done", !.end = "slow"].st = "done"
        /\ [j[x] EXCEPT !.st = "done", !.end = "slow"].exits = 0
    BY <1>6 DEF SubRecord
  <2>4. \A y \in Subscribers \ {x} : slow[y] = j[y]
    BY <1>3
  <2> QED  BY <2>1, <2>2, <2>3, <2>4
<1> HIDE DEF slow
<1>8. Told(slow[x]).st = "done" /\ Told(slow[x]).exits = 1
  BY <1>7 DEF Told, SubRecord
<1>9. Finish(s, final, slow)
  BY <1>1 DEF final
<1>10. /\ st'[s] = "ended" /\ ses'[s].listener \in {x, Nil}
       /\ \A t \in Sessions \ {s} : st'[t] = st[t] /\ ses'[t].listener = ses[t].listener
       /\ \A y \in Subscribers \ {x} : sub'[y] = j[y]
       /\ sub'[x].st = "done" /\ sub'[x].exits \in {0, 1}
  <2>1. CASE st[s] = "live"
    <3>1. /\ st' = [st EXCEPT ![s] = "ended"]
          /\ ses' = [ses EXCEPT ![s] = [final EXCEPT !.listener = Nil]]
          /\ sub' = [y \in Subscribers |-> IF y = final.listener THEN Told(slow[y]) ELSE slow[y]]
      BY <1>9, <2>1 DEF Finish
    <3> QED  BY <1>0, <1>4, <1>5, <1>7, <1>8, <3>1
  <2>2. CASE st[s] # "live"
    <3>1. ses' = [ses EXCEPT ![s] = final] /\ sub' = slow /\ UNCHANGED st
      BY <1>9, <2>2 DEF Finish
    <3> QED  BY <1>0, <1>4, <1>7, <2>2, <3>1 DEF SubscribeSlow
  <2> QED  BY <2>1, <2>2
<1>11. \A y \in Subscribers \ {x} :
        /\ sub'[y].st = sub[y].st /\ sub'[y].ses = sub[y].ses /\ sub'[y].exits = sub[y].exits
        /\ sub'[y].replaced <=> sub[y].replaced \/ y = ses[s].listener
  <2> TAKE y \in Subscribers \ {x}
  <2>1. sub'[y] = Joined(s, x)[y]
    BY <1>10 DEF j
  <2>2. /\ Joined(s, x)[y].st = sub[y].st /\ Joined(s, x)[y].ses = sub[y].ses
        /\ Joined(s, x)[y].exits = sub[y].exits
        /\ Joined(s, x)[y].replaced <=> sub[y].replaced \/ y = ses[s].listener
    <3>1. TypeOK
      BY DEF Answering
    <3> QED  BY <3>1, JoinedFields
  <2> QED  BY <2>1, <2>2, Zenon
<1>12. sub[x].st = "idle" /\ st[s] \in {"live", "ended"}
  BY DEF SubscribeSlow
<1>13. Comes(x, s)
  BY <1>10, <1>11, <1>12 DEF Comes
<1> QED  BY <1>13, ComesAnswers

LEMMA AnsweringNext == Answering /\ [Next]_vars => Answering'
<1> SUFFICES ASSUME Answering, [Next]_vars PROVE Answering'
  OBVIOUS
<1>0. TypeOK /\ TypeOK'
  BY NextType DEF Answering
<1>1. ASSUME NEW s \in Sessions,
             \/ \E w \in Workspaces : Open(w, s)
             \/ Connect(s) \/ OpenFails(s) \/ Opened(s) \/ Linger(s)
             \/ Write(s) \/ GrowQuiet(s) \/ DataEarly(s) \/ DataKept(s)
      PROVE  Answering'
  BY <1>0, <1>1, ApartSteps, ApartAnswers
<1>2. ASSUME NEW s \in Sessions, Settle(s) \/ Close(s) \/ CheckIdle(s)
      PROVE  Answering'
  BY <1>0, <1>2, CloseAnswers DEF CheckIdle
<1>3. ASSUME NEW s \in Sessions, DataDelivered(s)
      PROVE  Answering'
  BY <1>0, <1>3, DeliveredAnswers
<1>4. ASSUME NEW s \in Sessions, NEW x \in Subscribers, Subscribe(x, s) \/ SubscribeSlow(x, s)
      PROVE  Answering'
  BY <1>0, <1>4, SubscribeAnswers, SlowAnswers
<1>5. ASSUME NEW x \in Subscribers, Abort(x)
      PROVE  Answering'
  BY <1>0, <1>5, AbortAnswers
<1>6. CASE Shutdown
  BY <1>0, <1>6, ShutdownAnswers
<1>7. CASE UNCHANGED vars
  <2>1. Apart
    BY <1>7 DEF vars, Apart
  <2> QED  BY <1>0, <2>1, ApartAnswers
<1> QED  BY <1>1, <1>2, <1>3, <1>4, <1>5, <1>6, <1>7 DEF Next

\* Jin_Core is never left waiting on a session that will not answer: whoever has not
\* been replaced waits for a live session that remembers it, and an end is told once.
THEOREM PtyListenerAnswered == Spec => []ListenerAnswered
<1>1. Answering => ListenerAnswered
  BY DEF Answering, Waits, HeardOnce, ListenerAnswered
<1> QED  BY <1>1, AnsweringInit, AnsweringNext, PTL DEF Spec

-----------------------------------------------------------------------------
(* What Core reads.  OutputFaithful is not inductive alone: the backlog must  *)
(* be empty while somebody listens, or the next chunk would overtake it, and  *)
(* no id may be beyond what the shell has written.                            *)

Chunk == [id : Nat, size : Sizes]

\* A sequence that rises, and stays within n.
Rises(f, n) ==
  /\ \A i, j \in 1 .. Len(f) : i < j => f[i] < f[j]
  /\ \A i \in 1 .. Len(f) : f[i] <= n

\* What was handed out and what is kept, one after the other.
Read(o, b) == o \o Ids(b)

\* It is in order, and nothing is missing unless something was given up.
Faithful(o, b, n, cut) ==
  /\ Rises(Read(o, b), n)
  /\ ~cut => Len(Read(o, b)) = n /\ \A i \in 1 .. n : Read(o, b)[i] = i

\* Chunk by chunk.
LEMMA ReadAt ==
  ASSUME NEW o \in Seq(Nat), NEW b \in Seq(Chunk)
  PROVE  /\ Read(o, b) \in Seq(Nat)
         /\ Len(Read(o, b)) = Len(o) + Len(b)
         /\ \A i \in 1 .. Len(o) : Read(o, b)[i] = o[i]
         /\ \A i \in Len(o) + 1 .. Len(o) + Len(b) : Read(o, b)[i] = b[i - Len(o)].id
<1>1. Ids(b) \in Seq(Nat)
  BY IdsType DEF Chunk
<1>2. Len(o) \in Nat /\ Len(b) \in Nat
  OBVIOUS
<1>3. Len(Ids(b)) = Len(b) /\ \A j \in 1 .. Len(b) : Ids(b)[j] = b[j].id
  BY <1>1, <1>2 DEF Ids
<1>4. \A i \in Len(o) + 1 .. Len(o) + Len(b) : i - Len(o) \in 1 .. Len(b)
  BY <1>2
<1> DEFINE p == Ids(b)
<1>5. /\ o \o p \in Seq(Nat) /\ Len(o \o p) = Len(o) + Len(p)
      /\ \A i \in 1 .. Len(o) + Len(p) :
           (o \o p)[i] = IF i <= Len(o) THEN o[i] ELSE p[i - Len(o)]
  <2> HIDE DEF p
  <2> QED  BY <1>1, ConcatProperties DEF p
<1>6. Read(o, b) = o \o p
  BY DEF Read
<1>7. \A j \in 1 .. Len(b) : p[j] = b[j].id
  BY <1>3
<1> HIDE DEF p
<1>8. \A i \in 1 .. Len(o) : (o \o p)[i] = o[i]
  BY <1>2, <1>3, <1>5 DEF p
<1>9. \A i \in Len(o) + 1 .. Len(o) + Len(b) : (o \o p)[i] = b[i - Len(o)].id
  <2> TAKE i \in Len(o) + 1 .. Len(o) + Len(b)
  <2>1. Len(p) = Len(b)
    BY <1>3 DEF p
  <2>2. (o \o p)[i] = p[i - Len(o)]
    BY <1>2, <1>5, <2>1
  <2> QED  BY <1>4, <1>7, <2>2
<1> QED  BY <1>3, <1>5, <1>6, <1>8, <1>9 DEF p

\* With nothing kept, what was handed out is all.
LEMMA ReadNone ==
  ASSUME NEW o \in Seq(Nat)
  PROVE  Read(o, <<>>) = o
<1>1. <<>> \in Seq(Chunk) /\ Len(<<>>) = 0 /\ Len(o) \in Nat
  OBVIOUS
<1>2. /\ Read(o, <<>>) \in Seq(Nat) /\ Len(Read(o, <<>>)) = Len(o) + Len(<<>>)
      /\ \A i \in 1 .. Len(o) : Read(o, <<>>)[i] = o[i]
  <2>1. <<>> \in Seq(Chunk)
    BY <1>1
  <2> QED  BY <2>1, ReadAt, Zenon
<1>3. Len(Read(o, <<>>)) = Len(o)
  BY <1>1, <1>2
<1> QED  BY <1>2, <1>3, SeqEqual

\* What a number at the end of a sequence leaves.
LEMMA AppendAt ==
  ASSUME NEW f \in Seq(Nat), NEW e \in Nat
  PROVE  /\ Append(f, e) \in Seq(Nat) /\ Len(Append(f, e)) = Len(f) + 1
         /\ Append(f, e)[Len(f) + 1] = e
         /\ \A i \in 1 .. Len(f) : Append(f, e)[i] = f[i]
OBVIOUS

\* Whatever is left of a rising sequence rises.
LEMMA Subsequence ==
  ASSUME NEW f \in Seq(Nat), NEW h \in Seq(Nat), NEW n \in Nat, Rises(f, n),
         NEW g \in [1 .. Len(h) -> 1 .. Len(f)],
         \A i, j \in 1 .. Len(h) : i < j => g[i] < g[j],
         \A i \in 1 .. Len(h) : h[i] = f[g[i]]
  PROVE  Rises(h, n)
BY DEF Rises

\* The next chunk is beyond all there was.
LEMMA NextRises ==
  ASSUME NEW f \in Seq(Nat), NEW n \in Nat, Rises(f, n)
  PROVE  Rises(Append(f, n + 1), n + 1)
<1> DEFINE h == Append(f, n + 1)
<1>1. /\ Len(f) \in Nat /\ Len(h) = Len(f) + 1 /\ h[Len(f) + 1] = n + 1
      /\ \A i \in 1 .. Len(f) : h[i] = f[i]
      /\ \A i \in 1 .. Len(f) : f[i] \in Nat
  OBVIOUS
<1> HIDE DEF h
<1>2. \A i, j \in 1 .. Len(h) : i < j => h[i] < h[j]
  <2> SUFFICES ASSUME NEW i \in 1 .. Len(h), NEW j \in 1 .. Len(h), i < j
               PROVE  h[i] < h[j]
    OBVIOUS
  <2>1. i \in 1 .. Len(f) /\ f[i] <= n /\ h[i] = f[i] /\ f[i] \in Nat
    BY <1>1 DEF Rises
  <2>0. j = Len(f) + 1 \/ j \in 1 .. Len(f)
    <3>1. Len(f) \in Nat /\ Len(h) = Len(f) + 1
      BY <1>1
    <3> QED  BY <3>1
  <2>2. CASE j = Len(f) + 1
    BY <1>1, <2>1, <2>2
  <2>3. CASE j \in 1 .. Len(f)
    BY <1>1, <2>1, <2>3 DEF Rises
  <2> QED  BY <2>0, <2>2, <2>3
<1>3. \A i \in 1 .. Len(h) : h[i] <= n + 1
  <2> SUFFICES ASSUME NEW i \in 1 .. Len(h) PROVE h[i] <= n + 1
    OBVIOUS
  <2>1. CASE i = Len(f) + 1
    BY <1>1, <2>1
  <2>2. CASE i \in 1 .. Len(f)
    BY <1>1, <2>2 DEF Rises
  <2> QED  BY <1>1, <2>1, <2>2
<1> QED  BY <1>2, <1>3 DEF Rises, h

\* A chunk handed to the listener while nothing is kept.
LEMMA HandedFaithful ==
  ASSUME NEW o \in Seq(Nat), NEW n \in Nat, NEW cut, Faithful(o, <<>>, n, cut)
  PROVE  Faithful(Append(o, n + 1), <<>>, n + 1, cut)
<1> DEFINE h == Append(o, n + 1)
<1>1. /\ h \in Seq(Nat) /\ Len(o) \in Nat /\ Len(h) = Len(o) + 1 /\ h[Len(o) + 1] = n + 1
      /\ \A i \in 1 .. Len(o) : h[i] = o[i]
  OBVIOUS
<1>2. Rises(h, n + 1)
  BY ReadNone, NextRises DEF Faithful
<1> HIDE DEF h
<1>3. ~cut => Len(o) = n /\ \A i \in 1 .. n : o[i] = i
  BY ReadNone DEF Faithful
<1>4. ~cut => Len(h) = n + 1 /\ \A i \in 1 .. n + 1 : h[i] = i
  BY <1>1, <1>3
<1>5. Read(h, <<>>) = h
  BY <1>1, ReadNone
<1>6. Faithful(h, <<>>, n + 1, cut)
  BY <1>2, <1>4, <1>5 DEF Faithful
<1> QED  BY <1>6 DEF h

\* A chunk kept behind the others, the first k - 1 of which are given up.
LEMMA KeptFaithful ==
  ASSUME NEW o \in Seq(Nat), NEW b \in Seq(Chunk), NEW n \in Nat, NEW cut,
         Faithful(o, b, n, cut), NEW c \in Chunk, c.id = n + 1,
         NEW k \in 1 .. Len(b) + 1
  PROVE  Faithful(o, SubSeq(Append(b, c), k, Len(b) + 1), n + 1, cut \/ k > 1)
<1> DEFINE L == Len(b)
           M == Len(o)
           all == Append(b, c)
           t == SubSeq(all, k, L + 1)
           f == Append(Read(o, b), n + 1)
           h == Read(o, t)
           g == [i \in 1 .. Len(h) |-> IF i <= M THEN i ELSE i + k - 1]
<1>1. L \in Nat /\ M \in Nat
  OBVIOUS
<1>2. /\ all \in Seq(Chunk) /\ Len(all) = L + 1 /\ all[L + 1] = c
      /\ \A j \in 1 .. L : all[j] = b[j]
  <2> HIDE DEF Chunk
  <2> QED  OBVIOUS
<1>3. t \in Seq(Chunk) /\ Len(t) = L + 2 - k /\ \A j \in 1 .. L + 2 - k : t[j] = all[k + j - 1]
  <2> HIDE DEF Chunk, all
  <2> QED  BY <1>1, <1>2
<1> HIDE DEF all, t
<1>4. /\ Read(o, b) \in Seq(Nat) /\ Len(Read(o, b)) = M + L
      /\ \A i \in 1 .. M : Read(o, b)[i] = o[i]
      /\ \A i \in M + 1 .. M + L : Read(o, b)[i] = b[i - M].id
  BY ReadAt
<1>5. /\ f \in Seq(Nat) /\ Len(f) = M + L + 1 /\ f[M + L + 1] = n + 1
      /\ \A i \in 1 .. M + L : f[i] = Read(o, b)[i]
  <2> DEFINE r == Read(o, b)
             e == n + 1
  <2>1. r \in Seq(Nat) /\ Len(r) = M + L /\ e \in Nat
    BY <1>4
  <2>2. f = Append(r, e)
    OBVIOUS
  <2> HIDE DEF r, e, f, g, h
  <2>3. /\ Append(r, e) \in Seq(Nat) /\ Len(Append(r, e)) = Len(r) + 1
        /\ Append(r, e)[Len(r) + 1] = e
        /\ \A i \in 1 .. Len(r) : Append(r, e)[i] = r[i]
    BY <2>1, AppendAt
  <2>4. /\ f \in Seq(Nat) /\ Len(f) = M + L + 1 /\ f[M + L + 1] = e
        /\ \A i \in 1 .. M + L : f[i] = r[i]
    BY <2>1, <2>2, <2>3
  <2> QED  BY <2>4 DEF r, e
<1>6. Rises(f, n + 1)
  BY <1>4, NextRises DEF Faithful
<1>7. /\ h \in Seq(Nat) /\ Len(h) = M + L + 2 - k
      /\ \A i \in 1 .. M : h[i] = o[i]
      /\ \A i \in M + 1 .. M + L + 2 - k : h[i] = t[i - M].id
  <2>1. /\ h \in Seq(Nat) /\ Len(h) = M + Len(t)
        /\ \A i \in 1 .. M : h[i] = o[i]
        /\ \A i \in M + 1 .. M + Len(t) : h[i] = t[i - M].id
    BY <1>3, ReadAt
  <2>2. M + Len(t) = M + L + 2 - k
    BY <1>1, <1>3
  <2> QED  BY <2>1, <2>2
<1> HIDE DEF f, h
<1>8. \A i \in 1 .. M : f[i] = o[i]
  BY <1>1, <1>4, <1>5
<1>9. \A j \in 1 .. L + 1 : f[M + j] = all[j].id
  <2> TAKE j \in 1 .. L + 1
  <2>1. CASE j = L + 1
    BY <1>1, <1>2, <1>5, <2>1
  <2>2. CASE j \in 1 .. L
    <3>1. M + j \in M + 1 .. M + L /\ (M + j) - M = j /\ M + j \in 1 .. M + L
      BY <1>1, <2>2
    <3>2. f[M + j] = b[j].id
      BY <1>4, <1>5, <3>1
    <3> QED  BY <1>2, <2>2, <3>2
  <2> QED  BY <1>1, <2>1, <2>2
<1>10. \A i \in 1 .. Len(h) : h[i] = f[g[i]]
  <2> TAKE i \in 1 .. Len(h)
  <2>1. CASE i <= M
    <3>1. i \in 1 .. M /\ g[i] = i
      BY <1>1, <1>7, <2>1
    <3> HIDE DEF g
    <3> QED  BY <1>7, <1>8, <3>1
  <2>2. CASE i > M
    <3>1. /\ i - M \in 1 .. L + 2 - k /\ k + (i - M) - 1 \in 1 .. L + 1
          /\ M + (k + (i - M) - 1) = i + k - 1 /\ i \in M + 1 .. M + L + 2 - k
      BY <1>1, <1>7, <2>2
    <3>2. h[i] = all[k + (i - M) - 1].id
      BY <1>3, <1>7, <3>1
    <3>3. h[i] = f[i + k - 1]
      BY <1>9, <3>1, <3>2
    <3> QED  BY <1>1, <1>7, <2>2, <3>3
  <2> QED  BY <1>1, <1>7, <2>1, <2>2
<1>11. /\ g \in [1 .. Len(h) -> 1 .. Len(f)]
       /\ \A i, j \in 1 .. Len(h) : i < j => g[i] < g[j]
  <2>1. Len(h) = M + L + 2 - k /\ Len(f) = M + L + 1
    BY <1>5, <1>7
  <2>2. \A i \in 1 .. Len(h) : i + k - 1 \in 1 .. Len(f) /\ i \in 1 .. Len(f)
    BY <1>1, <2>1
  <2>3. \A i \in 1 .. Len(h) : g[i] = IF i <= M THEN i ELSE i + k - 1
    OBVIOUS
  <2>4. g \in [1 .. Len(h) -> 1 .. Len(f)]
    BY <2>2
  <2> HIDE DEF g
  <2>5. \A i, j \in 1 .. Len(h) : i < j => g[i] < g[j]
    BY <1>1, <2>1, <2>3
  <2> QED  BY <2>4, <2>5
<1>12. Rises(h, n + 1)
  <2>1. f \in Seq(Nat) /\ h \in Seq(Nat) /\ n + 1 \in Nat
    BY <1>5, <1>7
  <2> HIDE DEF g
  <2> QED  BY <2>1, <1>6, <1>10, <1>11, Subsequence
<1>13. ASSUME ~cut, ~(k > 1)
       PROVE  Len(h) = n + 1 /\ \A i \in 1 .. n + 1 : h[i] = i
  <2>1. M + L = n /\ \A i \in 1 .. n : Read(o, b)[i] = i
    BY <1>4, <1>13 DEF Faithful
  <2>2. k = 1 /\ Len(h) = n + 1 /\ Len(f) = n + 1
    <3>1. Len(h) = M + L + 2 - k /\ Len(f) = M + L + 1
      BY <1>5, <1>7
    <3> QED  BY <1>1, <1>13, <2>1, <3>1
  <2>3. \A i \in 1 .. n + 1 : f[i] = i
    <3> TAKE i \in 1 .. n + 1
    <3>1. CASE i = n + 1
      BY <1>5, <2>1, <3>1
    <3>2. CASE i \in 1 .. n
      BY <1>5, <2>1, <3>2
    <3>3. i = n + 1 \/ i \in 1 .. n
      OBVIOUS
    <3> QED  BY <3>1, <3>2, <3>3
  <2>4. \A i \in 1 .. n + 1 : g[i] = i
    BY <1>1, <2>2
  <2> HIDE DEF g
  <2> QED  BY <1>10, <2>2, <2>3, <2>4
<1> QED  BY <1>12, <1>13 DEF Faithful, h, t, all

\* A subscriber that takes the first k chunks of the backlog.
LEMMA TakenFaithful ==
  ASSUME NEW o \in Seq(Nat), NEW b \in Seq(Chunk), NEW n \in Nat, NEW cut,
         Faithful(o, b, n, cut), NEW k \in 0 .. Len(b)
  PROVE  Faithful(o \o Ids(SubSeq(b, 1, k)), <<>>, n, cut \/ k < Len(b))
<1> DEFINE L == Len(b)
           M == Len(o)
           t == SubSeq(b, 1, k)
           f == Read(o, b)
           h == Read(o, t)
           g == [i \in 1 .. Len(h) |-> i]
<1>1. L \in Nat /\ M \in Nat
  OBVIOUS
<1>2. t \in Seq(Chunk) /\ Len(t) = k /\ \A j \in 1 .. k : t[j] = b[j]
  <2> HIDE DEF Chunk
  <2> QED  BY <1>1
<1> HIDE DEF t
<1>3. /\ f \in Seq(Nat) /\ Len(f) = M + L
      /\ \A i \in 1 .. M : f[i] = o[i]
      /\ \A i \in M + 1 .. M + L : f[i] = b[i - M].id
  BY ReadAt
<1>4. /\ h \in Seq(Nat) /\ Len(h) = M + k
      /\ \A i \in 1 .. M : h[i] = o[i]
      /\ \A i \in M + 1 .. M + k : h[i] = t[i - M].id
  BY <1>2, ReadAt
<1>5. Rises(f, n) /\ (~cut => Len(f) = n /\ \A i \in 1 .. n : f[i] = i)
  BY DEF Faithful
<1>6. h = o \o Ids(t)
  BY DEF Read
<1> HIDE DEF f, h
<1>7. \A i \in 1 .. M + k : h[i] = f[i]
  <2> TAKE i \in 1 .. M + k
  <2>1. CASE i <= M
    BY <1>1, <1>3, <1>4, <2>1
  <2>2. CASE i > M
    <3>1. i - M \in 1 .. k /\ i \in M + 1 .. M + k /\ i \in M + 1 .. M + L
      BY <1>1, <2>2
    <3> QED  BY <1>2, <1>3, <1>4, <3>1
  <2> QED  BY <1>1, <2>1, <2>2
<1>8. Rises(h, n)
  <2>1. /\ g \in [1 .. Len(h) -> 1 .. Len(f)]
        /\ \A i, j \in 1 .. Len(h) : i < j => g[i] < g[j]
        /\ \A i \in 1 .. Len(h) : h[i] = f[g[i]]
    BY <1>1, <1>3, <1>4, <1>7
  <2> HIDE DEF g
  <2> QED  BY <1>3, <1>4, <1>5, <2>1, Subsequence
<1>9. ~(cut \/ k < L) => Len(h) = n /\ \A i \in 1 .. n : h[i] = i
  BY <1>1, <1>3, <1>4, <1>5, <1>7
<1>10. Read(h, <<>>) = h
  BY <1>4, ReadNone
<1>11. Faithful(h, <<>>, n, cut \/ k < L)
  BY <1>8, <1>9, <1>10 DEF Faithful
<1> QED  BY <1>6, <1>11 DEF t

\* What is kept is within the cap, or a single chunk, or nothing.
Bounded(b) == Len(b) <= 1 \/ Bytes(b) <= MaxBacklog

Stream(r) ==
  /\ r.listener # Nil => r.backlog = <<>>
  /\ Faithful(r.out, r.backlog, r.seen, r.cut)
  /\ Bounded(r.backlog)

Streams == TypeOK /\ \A s \in Sessions : Stream(ses[s])

\* What is known of a session's stream.
LEMMA StreamTypes ==
  ASSUME NEW r \in SesRecord
  PROVE  /\ r.backlog \in Seq(Chunk) /\ r.out \in Seq(Nat)
         /\ r.seen \in Nat /\ r.cut \in BOOLEAN
BY Zenon DEF SesRecord, Chunk

\* A session whose listener leaves, or whose timers move, has the same stream.
LEMMA SameStream ==
  ASSUME NEW r, NEW q, Stream(r),
         q.listener \in {r.listener, Nil}, q.backlog = r.backlog, q.out = r.out,
         q.seen = r.seen, q.cut = r.cut
  PROVE  Stream(q)
BY DEF Stream

\* A chunk lost is one the stream has given up.
LEMMA LostStream ==
  ASSUME NEW r \in SesRecord, NEW q, Stream(r),
         q.listener = r.listener, q.backlog = r.backlog, q.out = r.out,
         q.seen = r.seen + 1, q.cut = TRUE
  PROVE  Stream(q)
<1> DEFINE f == Read(r.out, r.backlog)
<1>1. r.out \in Seq(Nat) /\ r.backlog \in Seq(Chunk) /\ r.seen \in Nat
  BY StreamTypes
<1>2. f \in Seq(Nat) /\ Rises(f, r.seen)
  BY <1>1, ReadAt DEF Stream, Faithful
<1> HIDE DEF f
<1>3. \A i \in 1 .. Len(f) : f[i] \in Nat
  BY <1>2
<1>4. Rises(f, r.seen + 1)
  <2>1. \A i \in 1 .. Len(f) : f[i] <= r.seen + 1
    <3> TAKE i \in 1 .. Len(f)
    <3>1. f[i] \in Nat /\ f[i] <= r.seen /\ r.seen \in Nat
      BY <1>1, <1>2, <1>3 DEF Rises
    <3> QED  BY <3>1
  <2> QED  BY <1>2, <2>1 DEF Rises
<1>5. Faithful(q.out, q.backlog, q.seen, q.cut)
  BY <1>4 DEF Faithful, f
<1> QED  BY <1>5 DEF Stream

\* The listener's chunk, and what the listener finds kept, leave the stream whole.
LEMMA HandedStream ==
  ASSUME NEW r \in SesRecord, NEW q, Stream(r), r.listener # Nil,
         q.backlog = r.backlog, q.out = Append(r.out, r.seen + 1),
         q.seen = r.seen + 1, q.cut = r.cut
  PROVE  Stream(q)
<1>1. r.out \in Seq(Nat) /\ r.seen \in Nat
  BY StreamTypes
<1>2. r.backlog = <<>> /\ q.backlog = <<>>
  BY DEF Stream
<1>3. Faithful(r.out, <<>>, r.seen, r.cut)
  BY <1>2 DEF Stream
<1>4. Faithful(Append(r.out, r.seen + 1), <<>>, r.seen + 1, r.cut)
  BY <1>1, <1>3, HandedFaithful
<1>5. Faithful(q.out, q.backlog, q.seen, q.cut)
  BY <1>2, <1>4
<1> QED  BY <1>2, <1>5 DEF Stream

LEMMA TakenStream ==
  ASSUME NEW r \in SesRecord, NEW q, Stream(r), NEW k \in 0 .. Len(r.backlog),
         q.backlog = <<>>, q.out = r.out \o Ids(SubSeq(r.backlog, 1, k)),
         q.seen = r.seen, q.cut = (r.cut \/ k < Len(r.backlog))
  PROVE  Stream(q)
<1>1. r.out \in Seq(Nat) /\ r.backlog \in Seq(Chunk) /\ r.seen \in Nat
  BY StreamTypes
<1>2. Faithful(r.out \o Ids(SubSeq(r.backlog, 1, k)), <<>>, r.seen, r.cut \/ k < Len(r.backlog))
  BY <1>1, TakenFaithful DEF Stream
<1>3. Faithful(q.out, q.backlog, q.seen, q.cut)
  BY <1>2
<1>4. Bounded(q.backlog)
  BY DEF Bounded
<1> QED  BY <1>3, <1>4 DEF Stream

\* A chunk kept goes behind the others, and the oldest make room.
LEMMA KeptStream ==
  ASSUME NEW r \in SesRecord, NEW q, Stream(r), NEW c \in Chunk, c.id = r.seen + 1,
         q.listener = Nil, q.backlog = Trim(Append(r.backlog, c)),
         q.out = r.out, q.seen = r.seen + 1,
         q.cut = (r.cut \/ Len(Trim(Append(r.backlog, c))) < Len(Append(r.backlog, c)))
  PROVE  Stream(q)
<1> DEFINE b == r.backlog
           all == Append(b, c)
<1>1. r.out \in Seq(Nat) /\ b \in Seq(Chunk) /\ r.seen \in Nat
  BY StreamTypes
<1>2. all \in Seq(Chunk) /\ Len(all) = Len(b) + 1 /\ all # <<>> /\ Len(b) \in Nat
  BY <1>1, AppendProperties
<1>3. PICK k \in 1 .. Len(b) + 1 : /\ Trim(all) = SubSeq(all, k, Len(b) + 1)
                                   /\ k = Len(b) + 1 \/ Bytes(Trim(all)) <= MaxBacklog
  <2> HIDE DEF all
  <2> QED  BY <1>2, TrimSuffix
<1>4. Len(Trim(all)) = Len(b) + 2 - k
  <2> HIDE DEF all
  <2> QED  BY <1>2, <1>3
<1>5. Faithful(r.out, Trim(all), r.seen + 1, r.cut \/ k > 1)
  <2>1. Faithful(r.out, b, r.seen, r.cut)
    BY DEF Stream
  <2> HIDE DEF b
  <2>2. Faithful(r.out, SubSeq(Append(b, c), k, Len(b) + 1), r.seen + 1, r.cut \/ k > 1)
    BY <1>1, <2>1, KeptFaithful
  <2> QED  BY <1>3, <2>2
<1>6. k > 1 <=> Len(Trim(all)) < Len(all)
  BY <1>2, <1>4
<1> HIDE DEF all, b
<1>7. q.cut = (r.cut \/ Len(Trim(all)) < Len(all)) /\ q.backlog = Trim(all)
  BY DEF all, b
<1>8. Faithful(q.out, q.backlog, q.seen, q.cut)
  BY <1>5, <1>6, <1>7 DEF Faithful
<1>9. Bounded(q.backlog)
  BY <1>2, <1>3, <1>4, <1>7 DEF Bounded
<1> QED  BY <1>8, <1>9 DEF Stream

\* finish leaves the stream its caller gave the session.
LEMMA FinishStreams ==
  ASSUME Streams, TypeOK', NEW s \in Sessions, NEW final \in SesRecord, Stream(final),
         NEW subs, Finish(s, final, subs)
  PROVE  Streams'
<1> DEFINE freed == [final EXCEPT !.listener = Nil]
<1>1. /\ freed.listener = Nil /\ freed.backlog = final.backlog /\ freed.out = final.out
      /\ freed.seen = final.seen /\ freed.cut = final.cut
  BY DEF SesRecord
<1> HIDE DEF freed
<1>2. Stream(freed)
  BY <1>1, SameStream
<1>3. ses' = [ses EXCEPT ![s] = final] \/ ses' = [ses EXCEPT ![s] = freed]
  BY DEF Finish, freed
<1> QED  BY <1>2, <1>3 DEF Streams, TypeOK

LEMMA StreamsInit == Init => Streams
<1> SUFFICES ASSUME Init PROVE \A s \in Sessions : Stream(ses[s])
  BY InitType DEF Streams
<1>1. /\ NewSes.listener = Nil /\ NewSes.backlog = <<>> /\ NewSes.out = <<>> /\ NewSes.seen = 0
  BY DEF NewSes
<1>2. <<>> \in Seq(Nat) /\ Len(<<>>) = 0
  OBVIOUS
<1>3. Read(<<>>, <<>>) = <<>>
  BY <1>2, ReadNone
<1>4. Stream(NewSes)
  BY <1>1, <1>2, <1>3 DEF Stream, Faithful, Rises, Bounded
<1> QED  BY <1>4 DEF Init

\* The steps that leave every stream alone.
LEMMA QuietStreams ==
  ASSUME Streams, TypeOK', NEW s \in Sessions,
         \/ \E w \in Workspaces : Open(w, s)
         \/ Connect(s) \/ OpenFails(s) \/ Opened(s) \/ Linger(s)
         \/ Write(s) \/ GrowQuiet(s)
  PROVE  Streams'
<1>1. CASE \/ \E w \in Workspaces : Open(w, s)
           \/ Connect(s) \/ OpenFails(s) \/ Opened(s) \/ Linger(s)
  <2>1. UNCHANGED ses
    BY <1>1 DEF Open, Connect, OpenFails, Opened, Linger
  <2> QED  BY <2>1 DEF Streams
<1>2. CASE Write(s) \/ GrowQuiet(s)
  <2>1. ses[s] \in SesRecord /\ Stream(ses[s])
    BY DEF Streams, TypeOK
  <2>2. PICK q \in BOOLEAN : ses' = [ses EXCEPT ![s] = [ses[s] EXCEPT !.quiet = q]]
    BY <1>2 DEF Write, GrowQuiet, Streams, TypeOK
  <2> DEFINE r == [ses[s] EXCEPT !.quiet = q]
  <2>3. /\ r.listener = ses[s].listener /\ r.backlog = ses[s].backlog
        /\ r.out = ses[s].out /\ r.seen = ses[s].seen /\ r.cut = ses[s].cut
    BY <2>1 DEF SesRecord
  <2> HIDE DEF r
  <2>4. Stream(r)
    BY <2>1, <2>3, SameStream
  <2> QED  BY <2>2, <2>4 DEF Streams, TypeOK, r
<1> QED  BY <1>1, <1>2

LEMMA CloseStreams ==
  ASSUME Streams, TypeOK', NEW s \in Sessions, Settle(s) \/ Close(s)
  PROVE  Streams'
<1>1. ses[s] \in SesRecord /\ Stream(ses[s])
  BY DEF Streams, TypeOK
<1> DEFINE r == [ses[s] EXCEPT !.settled = TRUE]
<1>2. r \in SesRecord
  BY <1>1, Zenon DEF SesRecord
<1>3. /\ r.listener = ses[s].listener /\ r.backlog = ses[s].backlog
      /\ r.out = ses[s].out /\ r.seen = ses[s].seen /\ r.cut = ses[s].cut
  BY <1>1 DEF SesRecord
<1>4. Finish(s, r, sub) \/ Finish(s, ses[s], sub)
  BY DEF Settle, Close
<1> HIDE DEF r
<1>5. Stream(r)
  BY <1>1, <1>3, SameStream
<1> QED  BY <1>1, <1>2, <1>4, <1>5, FinishStreams

LEMMA ShutdownStreams ==
  ASSUME Streams, TypeOK', Shutdown
  PROVE  Streams'
<1> SUFFICES ASSUME NEW s \in Sessions PROVE Stream(ses'[s])
  BY DEF Streams
<1>1. ses[s] \in SesRecord /\ Stream(ses[s])
  BY DEF Streams, TypeOK
<1> DEFINE r == [ses[s] EXCEPT !.listener = Nil]
<1>2. /\ r.listener = Nil /\ r.backlog = ses[s].backlog
      /\ r.out = ses[s].out /\ r.seen = ses[s].seen /\ r.cut = ses[s].cut
  BY <1>1 DEF SesRecord
<1>3. ses'[s] = r \/ ses'[s] = ses[s]
  BY DEF Shutdown
<1> HIDE DEF r
<1>4. Stream(r)
  BY <1>1, <1>2, SameStream
<1> QED  BY <1>1, <1>3, <1>4

\* What handleData leaves of the session, field by field.
LEMMA HeardFields ==
  ASSUME TypeOK, NEW s \in Sessions
  PROVE  /\ Heard(s) \in SesRecord
         /\ Heard(s).listener = ses[s].listener /\ Heard(s).backlog = ses[s].backlog
         /\ Heard(s).out = ses[s].out /\ Heard(s).seen = ses[s].seen + 1
         /\ Heard(s).cut = ses[s].cut
<1>1. ses[s] \in SesRecord
  BY DEF TypeOK
<1> QED  BY <1>1, HeardType DEF Heard, SesRecord

LEMMA EarlyStreams ==
  ASSUME Streams, TypeOK', NEW s \in Sessions, DataEarly(s)
  PROVE  Streams'
<1> DEFINE r == [ses[s] EXCEPT !.seen = ses[s].seen + 1, !.cut = TRUE]
<1>1. ses[s] \in SesRecord /\ Stream(ses[s])
  BY DEF Streams, TypeOK
<1>2. ses' = [ses EXCEPT ![s] = r]
  BY DEF DataEarly, Streams, TypeOK
<1>3. /\ r.listener = ses[s].listener /\ r.backlog = ses[s].backlog
      /\ r.out = ses[s].out /\ r.seen = ses[s].seen + 1 /\ r.cut = TRUE
  BY <1>1 DEF SesRecord
<1> HIDE DEF r
<1>4. Stream(r)
  BY <1>1, <1>3, LostStream
<1> QED  BY <1>2, <1>4 DEF Streams, TypeOK

LEMMA KeptStreams ==
  ASSUME Streams, TypeOK', NEW s \in Sessions, DataKept(s)
  PROVE  Streams'
<1>0. /\ TypeOK /\ ses[s] \in SesRecord /\ Stream(ses[s]) /\ ses[s].listener = Nil
  BY DEF Streams, TypeOK, DataKept
<1>1. PICK n \in Sizes :
        LET all == Append(ses[s].backlog, [id |-> ses[s].seen + 1, size |-> n])
        IN ses' = [ses EXCEPT ![s] =
             [Heard(s) EXCEPT !.backlog = Trim(all),
                              !.cut = @ \/ Len(Trim(all)) < Len(all)]]
  BY DEF DataKept
<1> DEFINE c == [id |-> ses[s].seen + 1, size |-> n]
           all == Append(ses[s].backlog, c)
           lost == Heard(s).cut \/ Len(Trim(all)) < Len(all)
           r == [Heard(s) EXCEPT !.backlog = Trim(all), !.cut = lost]
<1>2. ses' = [ses EXCEPT ![s] = r]
  BY <1>1
<1>3. c \in Chunk /\ c.id = ses[s].seen + 1
  BY <1>0, HeardType DEF Chunk
<1> HIDE DEF c
<1>4. /\ r.listener = Nil /\ r.backlog = Trim(all) /\ r.out = ses[s].out
      /\ r.seen = ses[s].seen + 1 /\ r.cut = lost
  <2> HIDE DEF all, lost
  <2>1. /\ Heard(s) \in SesRecord
        /\ Heard(s).listener = Nil /\ Heard(s).out = ses[s].out
        /\ Heard(s).seen = ses[s].seen + 1
    BY <1>0, HeardFields
  <2> QED  BY <2>1 DEF SesRecord
<1>5. lost = (ses[s].cut \/ Len(Trim(all)) < Len(all))
  BY <1>0, HeardFields
<1> HIDE DEF r, lost
<1>6. Stream(r)
  BY <1>0, <1>3, <1>4, <1>5, KeptStream
<1> QED  BY <1>2, <1>6 DEF Streams, TypeOK

LEMMA DeliveredStreams ==
  ASSUME Streams, TypeOK', NEW s \in Sessions, DataDelivered(s)
  PROVE  Streams'
<1> DEFINE x == ses[s].listener
           r == [Heard(s) EXCEPT !.out = Append(@, ses[s].seen + 1)]
           q == [r EXCEPT !.listener = Nil]
           slow == [sub EXCEPT ![x].st = "done", ![x].end = "slow"]
<1>0. /\ TypeOK /\ ses[s] \in SesRecord /\ Stream(ses[s]) /\ x # Nil
      /\ ses[s].seen \in Nat /\ ses[s].out \in Seq(Nat)
  BY StreamTypes DEF Streams, TypeOK, DataDelivered
<1>1. ses' = [ses EXCEPT ![s] = r] \/ Finish(s, q, slow)
  BY DEF DataDelivered
<1>2. r \in SesRecord
  <2>1. Heard(s) \in SesRecord /\ Append(Heard(s).out, ses[s].seen + 1) \in Seq(Nat)
    BY <1>0, HeardFields
  <2> QED  BY <2>1, Zenon DEF SesRecord
<1>3. /\ r.listener = x /\ r.backlog = ses[s].backlog
      /\ r.out = Append(ses[s].out, ses[s].seen + 1)
      /\ r.seen = ses[s].seen + 1 /\ r.cut = ses[s].cut
  <2> DEFINE out == Append(Heard(s).out, ses[s].seen + 1)
  <2>1. r = [Heard(s) EXCEPT !.out = out]
    OBVIOUS
  <2>2. out = Append(ses[s].out, ses[s].seen + 1)
    BY <1>0, HeardFields
  <2> HIDE DEF out
  <2> QED  BY <1>0, <2>1, <2>2, HeardFields DEF SesRecord
<1> HIDE DEF r
<1>4. Stream(r)
  BY <1>0, <1>3, HandedStream
<1>5. /\ q.listener = Nil /\ q.backlog = r.backlog /\ q.out = r.out
      /\ q.seen = r.seen /\ q.cut = r.cut
  BY <1>2 DEF SesRecord
<1>6. q \in SesRecord
  BY <1>2, Zenon DEF SesRecord
<1> HIDE DEF q, slow
<1>7. Stream(q)
  BY <1>4, <1>5, SameStream
<1>8. CASE ses' = [ses EXCEPT ![s] = r]
  BY <1>4, <1>8 DEF Streams, TypeOK
<1>9. CASE Finish(s, q, slow)
  BY <1>6, <1>7, <1>9, FinishStreams
<1> QED  BY <1>1, <1>8, <1>9

\* The session of a subscriber that comes.
LEMMA SubscriberStream ==
  ASSUME Streams, NEW s \in Sessions, NEW x \in Subscribers,
         NEW k \in 0 .. Len(ses[s].backlog)
  PROVE  Taken(s, x, k) \in SesRecord /\ Stream(Taken(s, x, k))
<1> DEFINE q == Taken(s, x, k)
           out == ses[s].out \o Ids(SubSeq(ses[s].backlog, 1, k))
<1>1. TypeOK /\ ses[s] \in SesRecord /\ Stream(ses[s])
  BY DEF Streams, TypeOK
<1>2. q \in SesRecord
  BY <1>1, SubscribeType
<1>3. /\ q.backlog = <<>> /\ q.out = out /\ q.seen = ses[s].seen
      /\ q.cut = (ses[s].cut \/ k < Len(ses[s].backlog))
  <2>1. q = [ses[s] EXCEPT !.listener = x, !.backlog = <<>>, !.out = out,
                           !.cut = ses[s].cut \/ k < Len(ses[s].backlog)]
    BY DEF Taken
  <2> HIDE DEF out, q
  <2> QED  BY <1>1, <2>1 DEF SesRecord
<1> HIDE DEF q
<1>4. Stream(q)
  BY <1>1, <1>3, TakenStream
<1> QED  BY <1>2, <1>4 DEF q

LEMMA SubscribeStreams ==
  ASSUME Streams, TypeOK', NEW s \in Sessions, NEW x \in Subscribers,
         Subscribe(x, s) \/ SubscribeSlow(x, s)
  PROVE  Streams'
<1>0. ses[s].backlog \in Seq(Chunk) /\ Len(ses[s].backlog) \in Nat
  <2>1. ses[s].backlog \in Seq(Chunk)
    BY StreamTypes DEF Streams, TypeOK
  <2> QED  BY <2>1
<1>1. CASE Subscribe(x, s)
  <2> DEFINE q == Taken(s, x, Len(ses[s].backlog))
  <2>1. Stream(q)
    BY <1>0, SubscriberStream
  <2>2. ses' = [ses EXCEPT ![s] = q]
    BY <1>1 DEF Subscribe
  <2> HIDE DEF q
  <2> QED  BY <2>1, <2>2 DEF Streams, TypeOK
<1>2. CASE SubscribeSlow(x, s)
  <2> DEFINE slow == [Joined(s, x) EXCEPT ![x].st = "done", ![x].end = "slow"]
  <2>1. PICK k \in 1 .. Len(ses[s].backlog) : Finish(s, Taken(s, x, k), slow)
    BY <1>2 DEF SubscribeSlow
  <2>2. k \in 0 .. Len(ses[s].backlog)
    BY <1>0
  <2>3. Taken(s, x, k) \in SesRecord /\ Stream(Taken(s, x, k))
    BY <2>2, SubscriberStream
  <2> HIDE DEF slow
  <2> QED  BY <2>1, <2>3, FinishStreams
<1> QED  BY <1>1, <1>2

LEMMA AbortStreams ==
  ASSUME Streams, TypeOK', NEW x \in Subscribers, Abort(x)
  PROVE  Streams'
<1> SUFFICES ASSUME NEW s \in Sessions PROVE Stream(ses'[s])
  BY DEF Streams
<1> DEFINE left == IF ses[s].listener = x THEN Nil ELSE ses[s].listener
           r == [ses[s] EXCEPT !.listener = left]
<1>1. ses[s] \in SesRecord /\ Stream(ses[s])
  BY DEF Streams, TypeOK
<1>2. ses'[s] = r \/ ses'[s] = ses[s]
  BY DEF Abort, Streams, TypeOK
<1>3. /\ r.listener \in {ses[s].listener, Nil} /\ r.backlog = ses[s].backlog
      /\ r.out = ses[s].out /\ r.seen = ses[s].seen /\ r.cut = ses[s].cut
  BY <1>1 DEF SesRecord
<1> HIDE DEF r
<1>4. Stream(r)
  BY <1>1, <1>3, SameStream
<1> QED  BY <1>1, <1>2, <1>4

LEMMA StreamsNext == Streams /\ [Next]_vars => Streams'
<1> SUFFICES ASSUME Streams, [Next]_vars PROVE Streams'
  OBVIOUS
<1>0. TypeOK'
  BY NextType DEF Streams
<1>1. ASSUME NEW s \in Sessions,
             \/ \E w \in Workspaces : Open(w, s)
             \/ Connect(s) \/ OpenFails(s) \/ Opened(s) \/ Linger(s)
             \/ Write(s) \/ GrowQuiet(s)
      PROVE  Streams'
  BY <1>0, <1>1, QuietStreams
<1>2. ASSUME NEW s \in Sessions, Settle(s) \/ Close(s) \/ CheckIdle(s)
      PROVE  Streams'
  BY <1>0, <1>2, CloseStreams DEF CheckIdle
<1>3. ASSUME NEW s \in Sessions, DataEarly(s) \/ DataKept(s) \/ DataDelivered(s)
      PROVE  Streams'
  BY <1>0, <1>3, EarlyStreams, KeptStreams, DeliveredStreams
<1>4. ASSUME NEW s \in Sessions, NEW x \in Subscribers, Subscribe(x, s) \/ SubscribeSlow(x, s)
      PROVE  Streams'
  BY <1>0, <1>4, SubscribeStreams
<1>5. ASSUME NEW x \in Subscribers, Abort(x)
      PROVE  Streams'
  BY <1>0, <1>5, AbortStreams
<1>6. CASE Shutdown
  BY <1>0, <1>6, ShutdownStreams
<1>7. CASE UNCHANGED vars
  BY <1>7 DEF vars, Streams, TypeOK
<1> QED  BY <1>1, <1>2, <1>3, <1>4, <1>5, <1>6, <1>7 DEF Next

LEMMA SpecStreams == Spec => []Streams
<1> QED  BY StreamsInit, StreamsNext, PTL DEF Spec

\* What Jin_Core reads over all its reconnections is in order and never twice, and is
\* all that the shell wrote unless the service had to give something up.
THEOREM PtyOutputFaithful == Spec => []OutputFaithful
<1>1. Streams => OutputFaithful
  <2> SUFFICES ASSUME Streams, NEW s \in Sessions
               PROVE  LET read == ses[s].out \o Ids(ses[s].backlog) IN
                      /\ \A i, j \in 1 .. Len(read) : i < j => read[i] < read[j]
                      /\ ~ses[s].cut => read = [i \in 1 .. ses[s].seen |-> i]
    BY DEF OutputFaithful
  <2> DEFINE f == Read(ses[s].out, ses[s].backlog)
  <2>1. /\ ses[s].out \in Seq(Nat) /\ ses[s].backlog \in Seq(Chunk)
    BY StreamTypes DEF Streams, TypeOK
  <2>2. f \in Seq(Nat)
    BY <2>1, ReadAt
  <2>3. Rises(f, ses[s].seen) /\ (~ses[s].cut => Len(f) = ses[s].seen
                                     /\ \A i \in 1 .. ses[s].seen : f[i] = i)
    BY DEF Streams, Stream, Faithful
  <2>4. f = ses[s].out \o Ids(ses[s].backlog)
    BY DEF Read
  <2> HIDE DEF f
  <2>5. \A i, j \in 1 .. Len(f) : i < j => f[i] < f[j]
    BY <2>3 DEF Rises
  <2>6. ~ses[s].cut => f = [i \in 1 .. ses[s].seen |-> i]
    BY <2>2, <2>3
  <2> QED  BY <2>4, <2>5, <2>6
<1> QED  BY <1>1, SpecStreams, PTL

\* What waits for a subscriber stays below MAX_BACKLOG_BYTES, one large chunk excepted,
\* whatever the sizes of the chunks.
THEOREM PtyBacklogBounded == Spec => []BacklogBounded
<1>1. Streams => BacklogBounded
  <2> SUFFICES ASSUME Streams, NEW s \in Sessions
               PROVE  Bytes(ses[s].backlog) <= MaxBacklog \/ Len(ses[s].backlog) = 1
    BY DEF BacklogBounded
  <2>1. ses[s].backlog \in Seq(Chunk) /\ Bounded(ses[s].backlog)
    BY StreamTypes DEF Streams, TypeOK, Stream
  <2>2. CASE ses[s].backlog = <<>>
    BY <2>2, BytesNone, ConstantsAssumption
  <2>3. CASE ses[s].backlog # <<>>
    <3>1. Len(ses[s].backlog) \in Nat \ {0}
      BY <2>1, <2>3
    <3> QED  BY <2>1, <3>1 DEF Bounded
  <2> QED  BY <2>2, <2>3
<1> QED  BY <1>1, SpecStreams, PTL
==============================================================================
