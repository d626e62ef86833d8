-------------------------- MODULE TerminalExecProofs --------------------------
(***************************************************************************)
(* What holds of streamed commands whatever the number of requests, the     *)
(* sizes of the chunks, the characters they break, and the cap.             *)
(***************************************************************************)
EXTENDS TerminalExec, FiniteSetTheorems, TLAPS

-----------------------------------------------------------------------------
(* The life of one request.                                                *)

\* The last event of a request that is done is its only final one, says of an output that
\* was cut that it was, and is missing only for a client that has gone.
Closes(q) ==
  LET k == Len(q.events)
  IN /\ \A i \in 1 .. k : q.events[i] \in Final => i = k
     /\ q.truncated => k > 0 /\ q.events[k] = "cut"
     /\ ~q.gone => k > 0 /\ q.events[k] \in Final

\* There is no connection before the one that is opened, and its exit closes it, so that
\* nothing more arrives; the final event is written last of all; what the client was given
\* was counted, and until the output is cut it is all that arrived but what the decoders
\* hold; once it is cut the handle that exec has, or gets, is aborted.
Sound(q) ==
  /\ q.st \in {"idle", "checking", "opening", "refused"} => q.conn = "none" /\ q.events = <<>>
  /\ q.exit # "no" => q.conn = "closed"
  /\ q.st # "done" => q.events \in Seq({"out"})
  /\ q.st = "done" => q.exit # "no" /\ Closes(q)
  /\ q.given <= MaxOutput
  /\ ~q.truncated => q.sent = q.arrived /\ q.given + q.held["out"] + q.held["err"] = q.arrived
  /\ q.st = "running" /\ q.truncated => q.conn # "up"

\* What exec does for a request, and what happens to it.
Own(r) == Call(r) \/ Check(r) \/ Connect(r) \/ ConnectFails(r) \/ Resume(r) \/ Answer(r)
Event(r) == Output(r) \/ Status(r) \/ Closed(r) \/ Watchdog(r) \/ Leave(r)
PodStep == StopPod \/ StopPodSlips \/ StopForgets \/ StartPod

LEMMA Steps == Next <=> (\E r \in Requests : Own(r) \/ Event(r)) \/ PodStep
BY DEF Next, Own, Event, PodStep

ReqType == req \in [Requests -> ReqRecord]

\* The request becomes q, and the others stay as they are.
Becomes(r, q) == req' = [req EXCEPT ![r] = q]

LEMMA BecomesType ==
  ASSUME ReqType, NEW r \in Requests, NEW q \in ReqRecord, Becomes(r, q)
  PROVE  ReqType' /\ req'[r] = q /\ \A s \in Requests \ {r} : req'[s] = req[s]
BY DEF ReqType, Becomes

-----------------------------------------------------------------------------
(* The chunk that arrives, and the last event.                             *)

\* The request once a chunk of n bytes of stream k has arrived, of which its decoder holds h.
Received(q, k, n, h) == [Forward(q, k, n, h) EXCEPT !.arrived = q.arrived + n]

\* A chunk that is given is counted and shows no final event; one that is not cuts the
\* output, and aborts the handle that exec has.
LEMMA ForwardSound ==
  ASSUME NEW q \in ReqRecord, Sound(q), q.conn \in {"up", "closing"},
         NEW k \in {"out", "err"}, NEW n \in Sizes, NEW h \in Withheld(q.held[k], n)
  PROVE  Received(q, k, n, h) \in ReqRecord /\ Sound(Received(q, k, n, h))
<1> DEFINE a == q.arrived + n
           v == Received(q, k, n, h)
<1>0. n \in Nat /\ MaxOutput \in Nat /\ a \in Nat
  BY ConstantsAssumption DEF ReqRecord
<1>1. /\ q.exit = "no" /\ q.st \notin {"idle", "checking", "opening", "refused", "done"}
      /\ q.sent \in Nat /\ q.given \in Nat /\ q.events \in Seq({"out"})
      /\ q.held \in [{"out", "err"} -> 0 .. 3] /\ q.held[k] \in 0 .. 3
  BY DEF Sound, ReqRecord
<1>5. h \in 0 .. 3 /\ h <= q.held[k] + n
  BY <1>0, <1>1 DEF Withheld
<1>6. q.sent + n \in Nat
  BY <1>0, <1>1
<1>2. CASE q.truncated
  <2>1. v = [q EXCEPT !.arrived = a]
    BY <1>2 DEF Received, Forward
  <2>2. v \in ReqRecord
    BY <1>0, <2>1 DEF ReqRecord
  <2>3. Sound(v)
    BY <1>1, <1>2, <2>1 DEF Sound, ReqRecord
  <2> QED  BY <2>2, <2>3
<1>3. CASE ~q.truncated /\ q.sent + n > MaxOutput
  <2> DEFINE c == IF q.st = "running" THEN Closing(q.conn) ELSE q.conn
  <2>1. c \in {"none", "up", "closing", "closed"} /\ (q.st = "running" => c # "up")
    BY DEF Closing, ReqRecord
  <2>2. v = [q EXCEPT !.sent = q.sent + n, !.truncated = TRUE, !.conn = c, !.arrived = a]
    BY <1>3 DEF Received, Forward, Cut
  <2> HIDE DEF c, v
  <2>3. v \in ReqRecord
    BY <1>0, <1>6, <2>1, <2>2, Zenon DEF ReqRecord
  <2>5. Sound(v)
    BY <1>1, <2>1, <2>2 DEF Sound, ReqRecord
  <2> QED  BY <2>3, <2>5 DEF v
<1>4. CASE ~q.truncated /\ ~(q.sent + n > MaxOutput)
  <2> DEFINE g == q.given + q.held[k] + n - h
             d == [q.held EXCEPT ![k] = h]
             e == IF h = q.held[k] + n THEN q.events ELSE Append(q.events, "out")
  <2>1. v = [q EXCEPT !.sent = q.sent + n, !.held = d, !.given = g, !.events = e, !.arrived = a]
    <3>1. Forward(q, k, n, h) = [q EXCEPT !.sent = q.sent + n, !.held = d, !.given = g, !.events = e]
      BY <1>4 DEF Forward, Give, ReqRecord
    <3> QED  BY <3>1 DEF Received
  <2>2. e \in Seq({"out"}) /\ e \in Seq({"out", "exit", "cut", "error"})
    BY <1>1
  <2>3. d \in [{"out", "err"} -> 0 .. 3]
    BY <1>1, <1>5
  <2>4. g \in Nat
    BY <1>0, <1>1, <1>5
  <2>5. d["out"] + d["err"] = q.held["out"] + q.held["err"] - q.held[k] + h
    BY <1>1, <1>5
  <2>6. q.held["out"] \in 0 .. 3 /\ q.held["err"] \in 0 .. 3 /\ d["out"] \in 0 .. 3 /\ d["err"] \in 0 .. 3
    BY <1>1, <2>3
  <2>7. q.given + q.held["out"] + q.held["err"] = q.arrived /\ q.sent = q.arrived /\ q.arrived \in Nat
    BY <1>4 DEF Sound, ReqRecord
  <2>8. g + d["out"] + d["err"] = a /\ q.sent + n = a /\ g <= MaxOutput
    <3> HIDE DEF d
    <3>1. g + d["out"] + d["err"] = a /\ q.sent + n = a
      <4> DEFINE y == q.held["out"] z == q.held["err"] i == q.held[k] y2 == d["out"] z2 == d["err"]
                 x == q.given b == q.arrived
      <4>1. y \in Int /\ z \in Int /\ i \in Int /\ y2 \in Int /\ z2 \in Int /\ x \in Int /\ b \in Int
        BY <1>1, <2>6, <2>7
      <4>2. n \in Int /\ h \in Int
        BY <1>0, <1>5
      <4>3. x + y + z = b /\ y2 + z2 = y + z - i + h
        BY <2>5, <2>7
      <4>4. x + i + n - h + y2 + z2 = b + n
        <5> HIDE DEF x, y, z, i, y2, z2, b
        <5> QED  BY <4>1, <4>2, <4>3
      <4> QED  BY <2>7, <4>4
    <3>2. g \in Nat /\ d["out"] \in Nat /\ d["err"] \in Nat
      BY <2>4, <2>6
    <3> HIDE DEF g
    <3> QED  BY <1>0, <1>4, <3>1, <3>2
  <2> HIDE DEF e, d, g, v
  <2>9. v \in ReqRecord
    BY <1>0, <1>6, <2>1, <2>2, <2>3, <2>4, Zenon DEF ReqRecord
  <2>10. /\ v.st = q.st /\ v.conn = q.conn /\ v.exit = q.exit /\ v.sent = q.sent + n /\ v.held = d
         /\ v.truncated = q.truncated /\ v.events = e /\ v.given = g /\ v.arrived = a
    BY <2>1 DEF ReqRecord
  <2> HIDE DEF a
  <2>11. Sound(v)
    BY <1>1, <1>4, <2>2, <2>8, <2>10 DEF Sound
  <2> QED  BY <2>9, <2>11 DEF v
<1> QED  BY <1>2, <1>3, <1>4

\* At most one event is written last, and it is the final one.
LEMMA EndingShape ==
  ASSUME NEW q \in ReqRecord
  PROVE  \/ Ending(q) = <<>> /\ q.gone /\ ~q.truncated
         \/ \E f \in Final : Ending(q) = <<f>> /\ (q.truncated => f = "cut")
BY DEF Ending, Final, ReqRecord

LEMMA StreamType ==
  ASSUME NEW q \in ReqRecord
  PROVE  Stream(q) \in Seq({"out", "exit", "cut", "error"})
<1> DEFINE E == {"out", "exit", "cut", "error"}
<1>1. ASSUME NEW t \in E PROVE <<t>> \in Seq(E)
  BY <1>1
<1>2. Ending(q) \in Seq(E)
  <2>1. Ending(q) = <<>> \/ \E f \in E : Ending(q) = <<f>>
    BY EndingShape DEF Final
  <2>2. <<>> \in Seq(E)
    OBVIOUS
  <2> HIDE DEF E
  <2> QED  BY <1>1, <2>1, <2>2
<1>3. q.events \in Seq(E)
  BY DEF ReqRecord
<1>4. q.events \o Ending(q) \in Seq(E)
  <2> HIDE DEF E
  <2> QED  BY <1>2, <1>3
<1>5. <<"error">> \in Seq(E)
  BY <1>1
<1> QED  BY <1>4, <1>5, Zenon DEF Stream

LEMMA StreamCloses ==
  ASSUME NEW q \in ReqRecord, q.events \in Seq({"out"}), NEW v \in ReqRecord, v.events = Stream(q),
         v.gone = q.gone, v.truncated = q.truncated
  PROVE  Closes(v)
<1> DEFINE e == q.events
           k == Len(e)
<1>1. k \in Nat /\ \A i \in 1 .. k : e[i] \notin Final
  BY DEF Final
<1>2. CASE Stream(q) = e /\ q.gone /\ ~q.truncated
  BY <1>1, <1>2 DEF Closes
<1>3. ASSUME NEW f \in Final, Stream(q) = Append(e, f), q.truncated => f = "cut"
      PROVE  Closes(v)
  <2>1. Len(v.events) = k + 1 /\ v.events[k + 1] = f /\ \A i \in 1 .. k : v.events[i] = e[i]
    BY <1>3
  <2> QED  BY <1>1, <1>3, <2>1 DEF Closes
<1>4. \/ Stream(q) = e /\ q.gone /\ ~q.truncated
      \/ \E f \in Final : Stream(q) = Append(e, f) /\ (q.truncated => f = "cut")
  <2>1. CASE Ending(q) = <<>> /\ q.gone /\ ~q.truncated
    <3>1. e \o Ending(q) = e
      BY <2>1
    <3>2. CASE e = <<>>
      <4>1. Stream(q) = <<"error">> /\ Append(e, "error") = <<"error">>
        BY <3>1, <3>2 DEF Stream
      <4> QED  BY <2>1, <4>1 DEF Final
    <3>3. CASE e # <<>>
      BY <2>1, <3>1, <3>3 DEF Stream
    <3> QED  BY <3>2, <3>3
  <2>2. ASSUME NEW f \in Final, Ending(q) = <<f>>, q.truncated => f = "cut"
        PROVE  Stream(q) = Append(e, f)
    <3>1. e \o Ending(q) = Append(e, f)
      BY <2>2
    <3>2. Append(e, f) # <<>>
      OBVIOUS
    <3> QED  BY <3>1, <3>2 DEF Stream
  <2> QED  BY <2>1, <2>2, EndingShape
<1> QED  BY <1>2, <1>3, <1>4

-----------------------------------------------------------------------------
(* Every step leaves every request sound.                                  *)

LEMMA OwnSound ==
  ASSUME ReqType, NEW r \in Requests, Sound(req[r]), Own(r)
  PROVE  \E q \in ReqRecord : Sound(q) /\ Becomes(r, q)
<1> DEFINE o == req[r]
<1>0. o \in ReqRecord
  BY DEF ReqType
<1>1. ASSUME NEW st \in {"checking", "opening", "refused"}, o.st \in {"idle", "checking", "opening"},
             Becomes(r, [o EXCEPT !.st = st])
      PROVE  \E q \in ReqRecord : Sound(q) /\ Becomes(r, q)
  <2> DEFINE v == [o EXCEPT !.st = st]
  <2>1. v \in ReqRecord
    BY <1>0, <1>1 DEF ReqRecord, Stages
  <2>2. Sound(v)
    BY <1>0, <1>1 DEF Sound, ReqRecord
  <2> QED  BY <1>1, <2>1, <2>2
<1>2. CASE Call(r) \/ Check(r) \/ ConnectFails(r)
  <2>1. o.st \in {"idle", "checking", "opening"}
    BY <1>2 DEF Call, Check, ConnectFails
  <2>2. \E st \in {"checking", "opening", "refused"} : Becomes(r, [o EXCEPT !.st = st])
    BY <1>2 DEF Call, Check, ConnectFails, Over, Becomes
  <2> QED  BY <1>1, <2>1, <2>2
<1>3. CASE Connect(r)
  <2> DEFINE v == [o EXCEPT !.st = "open", !.conn = "up"]
  <2>1. v \in ReqRecord
    BY <1>0, Zenon DEF ReqRecord, Stages
  <2>2. o.st = "opening" /\ o.exit = "no"
    BY <1>0, <1>3 DEF Connect, Sound, ReqRecord
  <2>3. Sound(v)
    BY <1>0, <2>2 DEF Sound, ReqRecord
  <2>4. Becomes(r, v)
    BY <1>3 DEF Connect, Becomes
  <2> QED  BY <2>1, <2>3, <2>4
<1>4. CASE Resume(r)
  <2> DEFINE c == IF o.truncated THEN Closing(o.conn) ELSE o.conn
             v == [o EXCEPT !.st = "running", !.conn = c]
  <2>1. c \in {"none", "up", "closing", "closed"} /\ (o.truncated => c # "up") /\ (o.conn = "closed" => c = "closed")
    BY <1>0 DEF Closing, ReqRecord
  <2>2. Becomes(r, v) /\ o.st = "open"
    BY <1>4 DEF Resume, Becomes
  <2> HIDE DEF c
  <2>3. v \in ReqRecord
    BY <1>0, <2>1 DEF ReqRecord, Stages
  <2>4. Sound(v)
    BY <1>0, <2>1, <2>2 DEF Sound, ReqRecord
  <2> QED  BY <2>2, <2>3, <2>4
<1>5. CASE Answer(r)
  <2> DEFINE e == Stream(o)
             v == [o EXCEPT !.st = "done", !.events = e]
  <2>1. o.st = "running" /\ o.exit # "no" /\ Becomes(r, v)
    BY <1>5 DEF Answer, Becomes
  <2>2. e \in Seq({"out", "exit", "cut", "error"})
    BY <1>0, StreamType
  <2>3. v \in ReqRecord
    <3> HIDE DEF e
    <3> QED  BY <1>0, <2>2 DEF ReqRecord, Stages
  <2>4. v.events = e /\ v.gone = o.gone /\ v.truncated = o.truncated
    BY <1>0 DEF ReqRecord
  <2>5. Closes(v)
    BY <1>0, <2>1, <2>3, <2>4, StreamCloses DEF Sound
  <2>6. /\ v.st = "done" /\ v.exit = o.exit /\ v.conn = o.conn
        /\ v.given = o.given /\ v.sent = o.sent /\ v.held = o.held /\ v.arrived = o.arrived
    BY <1>0 DEF ReqRecord
  <2> HIDE DEF v
  <2>7. Sound(v)
    BY <2>1, <2>4, <2>5, <2>6 DEF Sound
  <2> QED  BY <2>1, <2>3, <2>7
<1> QED  BY <1>2, <1>3, <1>4, <1>5 DEF Own

LEMMA EventSound ==
  ASSUME ReqType, NEW r \in Requests, Sound(req[r]), Event(r)
  PROVE  \E q \in ReqRecord : Sound(q) /\ Becomes(r, q)
<1> DEFINE o == req[r]
<1>0. o \in ReqRecord
  BY DEF ReqType
<1>1. CASE Output(r)
  <2>1. PICK k \in {"out", "err"}, n \in Sizes : \E h \in Withheld(o.held[k], n) :
          req' = [req EXCEPT ![r] = [Forward(req[r], k, n, h) EXCEPT !.arrived = @ + n]]
    BY <1>1, Zenon DEF Output
  <2>2. PICK h \in Withheld(o.held[k], n) :
          req' = [req EXCEPT ![r] = [Forward(req[r], k, n, h) EXCEPT !.arrived = @ + n]]
    BY <2>1, Zenon
  <2>3. Forward(o, k, n, h).arrived = o.arrived
    BY <1>0 DEF Forward, Cut, Give, ReqRecord
  <2>4. [Forward(o, k, n, h) EXCEPT !.arrived = @ + n] = Received(o, k, n, h)
    BY <2>3, Zenon DEF Received
  <2>5. Becomes(r, Received(o, k, n, h))
    BY <2>2, <2>4, Zenon DEF Becomes
  <2>6. o.conn \in {"up", "closing"}
    BY <1>1 DEF Output
  <2> QED  BY <1>0, <2>5, <2>6, ForwardSound
<1>2. CASE Status(r) \/ Closed(r)
  <2>1. PICK x \in {"code", "broken"} : Becomes(r, [o EXCEPT !.exit = x, !.conn = "closed"])
    <3>1. [o EXCEPT !.exit = "code", !.conn = "closed"] = [o EXCEPT !.conn = "closed", !.exit = "code"]
      OBVIOUS
    <3> QED  BY <1>2, <3>1 DEF Status, Closed, Becomes
  <2> DEFINE v == [o EXCEPT !.exit = x, !.conn = "closed"]
  <2>2. v \in ReqRecord
    BY <1>0 DEF ReqRecord
  <2>3. o.conn \in {"up", "closing"} /\ o.exit = "no"
    BY <1>0, <1>2 DEF Status, Closed, Sound, ReqRecord
  <2>4. Sound(v)
    BY <1>0, <2>3 DEF Sound, ReqRecord
  <2> QED  BY <2>1, <2>2, <2>4
<1>3. CASE Watchdog(r)
  <2> DEFINE v == [o EXCEPT !.conn = "closing"]
  <2>1. o.st = "running" /\ o.conn = "up" /\ Becomes(r, v)
    BY <1>3 DEF Watchdog, Becomes
  <2>2. v \in ReqRecord
    BY <1>0 DEF ReqRecord
  <2>3. Sound(v)
    BY <1>0, <2>1 DEF Sound, ReqRecord
  <2> QED  BY <2>1, <2>2, <2>3
<1>4. CASE Leave(r)
  <2> DEFINE c == IF o.st = "running" THEN Closing(o.conn) ELSE o.conn
             v == [o EXCEPT !.gone = TRUE, !.conn = c]
  <2>1. c \in {"none", "up", "closing", "closed"} /\ (c = o.conn \/ (o.conn = "up" /\ c = "closing"))
    BY <1>0 DEF Closing, ReqRecord
  <2>2. o.st \in Between /\ Becomes(r, v)
    BY <1>4 DEF Leave, Becomes
  <2> HIDE DEF c
  <2>3. v \in ReqRecord
    BY <1>0, <2>1 DEF ReqRecord
  <2>4. Sound(v)
    BY <1>0, <2>1, <2>2 DEF Sound, Between, ReqRecord
  <2> QED  BY <2>2, <2>3, <2>4
<1> QED  BY <1>1, <1>2, <1>3, <1>4 DEF Event

IInv ==
  /\ busy \in BOOLEAN /\ stop \in {"no", "deleting"} /\ up \in BOOLEAN /\ ReqType
  /\ \A r \in Requests : Sound(req[r])

LEMMA InitInv == Init => IInv
<1> SUFFICES ASSUME Init PROVE IInv
  OBVIOUS
<1>1. NewReq \in ReqRecord /\ Sound(NewReq)
  BY ConstantsAssumption DEF NewReq, ReqRecord, Stages, Sound
<1> QED  BY <1>1, Zenon DEF Init, IInv, ReqType

LEMMA NextInv == IInv /\ [Next]_vars => IInv'
<1> SUFFICES ASSUME IInv, [Next]_vars PROVE IInv'
  OBVIOUS
<1>0. ReqType
  BY DEF IInv
<1>1. CASE UNCHANGED vars
  BY <1>1 DEF vars, IInv, ReqType
<1>2. ASSUME NEW r \in Requests, Own(r) \/ Event(r) PROVE IInv'
  <2>1. PICK q \in ReqRecord : Sound(q) /\ Becomes(r, q)
    BY <1>2, OwnSound, EventSound DEF IInv
  <2>2. ReqType' /\ \A s \in Requests : Sound(req'[s])
    BY <1>0, <2>1, BecomesType DEF IInv
  <2>3. UNCHANGED <<up, stop>> /\ busy' \in BOOLEAN
    BY <1>2 DEF IInv, Own, Event, Call, Check, Connect, ConnectFails, Resume, Answer, Over, Output, Status,
         Closed, Watchdog, Leave
  <2> QED  BY <2>2, <2>3 DEF IInv
<1>3. CASE PodStep
  <2>1. UNCHANGED req
    BY <1>3 DEF PodStep, StopPod, StopPodSlips, StopForgets, StartPod
  <2>2. busy' \in BOOLEAN /\ up' \in BOOLEAN /\ stop' \in {"no", "deleting"}
    BY <1>3 DEF IInv, PodStep, StopPod, StopPodSlips, StopForgets, StartPod
  <2> QED  BY <2>1, <2>2 DEF IInv, ReqType
<1> QED  BY <1>1, <1>2, <1>3, Steps

LEMMA SpecInv == Spec => []IInv
BY InitInv, NextInv, PTL DEF Spec

\* Every variable of the streamed commands has its type.
THEOREM ExecTypes == Spec => []TypeOK
<1>1. IInv => TypeOK
  BY DEF IInv, ReqType, TypeOK
<1> QED  BY <1>1, SpecInv, PTL

\* The client is never given more than the cap, and a command that passed it is not left
\* connected, even if it did so before there was a handle to abort it with.
THEOREM ExecOutputCapped == Spec => []OutputCapped
<1>1. IInv => OutputCapped
  BY DEF IInv, Sound, OutputCapped
<1> QED  BY <1>1, SpecInv, PTL

\* A client that was not given all of the output is told so, last of all, whatever the
\* order of cap, timeout, status and close.
THEOREM ExecCutIsSaid == Spec => []CutIsSaid
<1>1. IInv => CutIsSaid
  BY DEF IInv, Sound, Closes, CutIsSaid
<1> QED  BY <1>1, SpecInv, PTL

\* "Siempre termina con un evento exit (o error)": a client that stays reads one final
\* event and nothing after it, and one that gets an HTTP error no event at all.
THEOREM ExecOneAnswer == Spec => []OneAnswer
<1>1. ASSUME IInv, NEW r \in Requests
      PROVE  LET e == req[r].events
                 n == Cardinality({i \in 1 .. Len(e) : e[i] \in Final})
             IN /\ req[r].st \in Between \union {"refused"} => n = 0
                /\ req[r].st = "refused" => e = <<>>
                /\ req[r].st = "done" => n <= 1
                /\ req[r].st = "done" /\ ~req[r].gone => n = 1 /\ e[Len(e)] \in Final
  <2> DEFINE e == req[r].events
             k == Len(e)
             F == {i \in 1 .. k : e[i] \in Final}
  <2>0. Sound(req[r]) /\ k \in Nat
    BY <1>1 DEF IInv, ReqType, ReqRecord
  <2>1. CASE F = {}
    <3>1. Cardinality(F) = 0
      BY <2>1, FS_EmptySet
    <3>2. ~(req[r].st = "done" /\ ~req[r].gone)
      BY <2>0, <2>1 DEF Sound, Closes
    <3> QED  BY <2>0, <3>1, <3>2 DEF Sound
  <2>2. CASE F # {}
    <3>1. req[r].st = "done"
      BY <2>0, <2>2 DEF Sound, Final
    <3>2. F = {k}
      BY <2>0, <2>2, <3>1 DEF Sound, Closes
    <3>3. Cardinality(F) = 1
      BY <3>2, FS_Singleton
    <3>4. e[k] \in Final
      BY <3>2
    <3> QED  BY <3>1, <3>3, <3>4 DEF Between
  <2> QED  BY <2>1, <2>2
<1>2. IInv => OneAnswer
  BY <1>1 DEF OneAnswer
<1> QED  BY <1>2, SpecInv, PTL

\* Once it is answered, nothing that still happens to a request changes its answer: no
\* chunk, status or close of the connection, and no client that goes.
THEOREM ExecAnswerStays ==
  Spec => [][\A r \in Requests : req[r].st \in {"done", "refused"} => req'[r] = req[r]]_vars
<1> DEFINE Stays == \A r \in Requests : req[r].st \in {"done", "refused"} => req'[r] = req[r]
<1>1. ASSUME IInv, [Next]_vars, NEW r \in Requests, req[r].st \in {"done", "refused"}
      PROVE  req'[r] = req[r]
  <2>1. CASE UNCHANGED req
    BY <2>1
  <2>2. ASSUME NEW s \in Requests, Own(s) \/ Event(s) PROVE req'[r] = req[r]
    <3>1. CASE s = r
      <4>1. req[r].conn \notin {"up", "closing"}
        BY <1>1 DEF IInv, Sound
      <4> QED  BY <1>1, <2>2, <3>1, <4>1 DEF Own, Event, Call, Check, Connect, ConnectFails, Resume, Answer,
                 Output, Status, Closed, Watchdog, Leave, Between
    <3>2. CASE s # r
      BY <1>1, <2>2, <3>2, OwnSound, EventSound, BecomesType DEF IInv
    <3> QED  BY <3>1, <3>2
  <2> QED  BY <1>1, <2>1, <2>2, Steps DEF vars, PodStep, StopPod, StopPodSlips, StopForgets, StartPod
<1>2. IInv /\ [Next]_vars => [Stays]_vars
  BY <1>1
<1> QED  BY <1>2, SpecInv, PTL DEF Spec
==============================================================================
