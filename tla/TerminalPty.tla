------------------------------ MODULE TerminalPty ------------------------------
(***************************************************************************)
(* terminal-pty.service.ts: interactive terminals.  The service keeps the   *)
(* sessions and the reservation of each workspace in memory; the shell runs *)
(* in the pod behind a websocket, which delivers output and settles its     *)
(* exit code whenever it likes; Jin_Core subscribes to the output, leaves    *)
(* and comes back.  A step is what runs between two awaits.                 *)
(***************************************************************************)
EXTENDS Integers, Sequences

CONSTANTS
  Workspaces,
  Sessions,      \* ids of sessions: one per call of open
  Subscribers,   \* calls of subscribe
  Nil,
  Sizes,         \* sizes a chunk of output can have
  MaxBacklog,    \* MAX_BACKLOG_BYTES
  MaxChunks      \* bound: chunks a shell writes

ASSUME ConstantsAssumption ==
  /\ Nil \notin Workspaces \union Sessions \union Subscribers
  /\ Sizes \subseteq Nat \ {0}
  /\ MaxBacklog \in Nat \ {0} /\ MaxChunks \in Nat

VARIABLES
  byWorkspace,  \* workspace -> the session that reserved it, or Nil
  st,           \* session -> how far it is
  ws,           \* session -> its workspace
  ses,          \* session -> its listener, backlog and timers
  sub           \* subscriber -> its state

vars == <<byWorkspace, st, ws, ses, sub>>

\* opening: reserved, awaiting the pod; connected: the socket is up but open has
\* not resumed; ended: finished, kept for ENDED_LINGER_MS.
Stages  == {"unused", "opening", "connected", "live", "ended", "gone", "failed"}
Holding == {"opening", "connected", "live"}

\* seen, out and cut are history: chunks the shell wrote, those handed to a
\* subscriber, and whether any was given up.
NewSes == [listener |-> Nil, backlog |-> <<>>, settled |-> FALSE, quiet |-> FALSE,
           seen |-> 0, out |-> <<>>, cut |-> FALSE]
NewSub == [st |-> "idle", ses |-> Nil, exits |-> 0, end |-> "none", replaced |-> FALSE]

Init ==
  /\ byWorkspace = [w \in Workspaces |-> Nil]
  /\ st = [s \in Sessions |-> "unused"]
  /\ ws = [s \in Sessions |-> Nil]
  /\ ses = [s \in Sessions |-> NewSes]
  /\ sub = [x \in Subscribers |-> NewSub]

-----------------------------------------------------------------------------
(* open                                                                    *)

\* Mutant: the workspace is looked at, and reserved only once the shell is up.
OpenUnreserved(w, s) ==
  /\ byWorkspace[w] = Nil /\ st[s] = "unused"
  /\ st' = [st EXCEPT ![s] = "opening"]
  /\ ws' = [ws EXCEPT ![s] = w]
  /\ UNCHANGED <<byWorkspace, ses, sub>>

\* The workspace is reserved before the first await.
Open(w, s) ==
  /\ byWorkspace[w] = Nil /\ st[s] = "unused"
  /\ byWorkspace' = [byWorkspace EXCEPT ![w] = s]
  /\ st' = [st EXCEPT ![s] = "opening"]
  /\ ws' = [ws EXCEPT ![s] = w]
  /\ UNCHANGED <<ses, sub>>

\* requirePodForPty has answered and the socket of openPty is up.
Connect(s) ==
  /\ st[s] = "opening"
  /\ st' = [st EXCEPT ![s] = "connected"]
  /\ UNCHANGED <<byWorkspace, ws, ses, sub>>

OpenFails(s) ==
  /\ st[s] \in {"opening", "connected"}
  /\ byWorkspace' = [byWorkspace EXCEPT ![ws[s]] = Nil]
  /\ st' = [st EXCEPT ![s] = "failed"]
  /\ UNCHANGED <<ws, ses, sub>>

Opened(s) ==
  /\ st[s] = "connected"
  /\ st' = [st EXCEPT ![s] = "live"]
  /\ UNCHANGED <<byWorkspace, ws, ses, sub>>

-----------------------------------------------------------------------------
(* The end of a session.                                                   *)

\* A subscriber is told of the end, and its call resolves.
Told(u) == [u EXCEPT !.st = "done", !.exits = @ + 1, !.end = "told"]

\* Mutant: a late finish frees the workspace again.
FinishAgain(s, final, subs) ==
  /\ st' = [st EXCEPT ![s] = "ended"]
  /\ byWorkspace' = [byWorkspace EXCEPT ![ws[s]] = Nil]
  /\ ses' = [ses EXCEPT ![s] = [final EXCEPT !.listener = Nil]]
  /\ sub' = [x \in Subscribers |-> IF x = final.listener THEN Told(subs[x]) ELSE subs[x]]

\* Mutant: the workspace is freed, the listener not told.
FinishSilent(s, final, subs) ==
  IF st[s] # "live" THEN /\ ses' = [ses EXCEPT ![s] = final] /\ sub' = subs
                         /\ UNCHANGED <<byWorkspace, st>>
  ELSE /\ st' = [st EXCEPT ![s] = "ended"]
       /\ byWorkspace' = [byWorkspace EXCEPT ![ws[s]] = Nil]
       /\ ses' = [ses EXCEPT ![s] = [final EXCEPT !.listener = Nil]]
       /\ sub' = subs

\* finish tells the listener, frees the workspace at once and keeps the session
\* for a while; a second finish does nothing.  final and subs are the session and
\* the subscribers as the caller leaves them.
Finish(s, final, subs) ==
  IF st[s] # "live" THEN /\ ses' = [ses EXCEPT ![s] = final] /\ sub' = subs
                         /\ UNCHANGED <<byWorkspace, st>>
  ELSE /\ st' = [st EXCEPT ![s] = "ended"]
       /\ byWorkspace' = [byWorkspace EXCEPT ![ws[s]] = Nil]
       /\ ses' = [ses EXCEPT ![s] = [final EXCEPT !.listener = Nil]]
       /\ sub' = [x \in Subscribers |->
                    IF x = final.listener THEN Told(subs[x]) ELSE subs[x]]

\* exitCode settles: the shell exited, the connection broke, or close() closed it
\* and the session ended long ago.
Settle(s) ==
  /\ st[s] \in {"live", "ended", "gone"} /\ ~ses[s].settled
  /\ Finish(s, [ses[s] EXCEPT !.settled = TRUE], sub)
  /\ UNCHANGED ws

\* close, on a session the map still has.
Close(s) ==
  /\ st[s] = "live"
  /\ Finish(s, ses[s], sub)
  /\ UNCHANGED ws

\* onModuleDestroy terminates every session that is live.
Shutdown ==
  LET Live == {s \in Sessions : st[s] = "live"} IN
  /\ Live # {}
  /\ st' = [s \in Sessions |-> IF s \in Live THEN "ended" ELSE st[s]]
  /\ byWorkspace' = [w \in Workspaces |->
                       IF \E s \in Live : ws[s] = w THEN Nil ELSE byWorkspace[w]]
  /\ ses' = [s \in Sessions |->
               IF s \in Live THEN [ses[s] EXCEPT !.listener = Nil] ELSE ses[s]]
  /\ sub' = [x \in Subscribers |->
               IF \E s \in Live : ses[s].listener = x THEN Told(sub[x]) ELSE sub[x]]
  /\ UNCHANGED ws

\* The linger timer drops an ended session from the map.
Linger(s) ==
  /\ st[s] = "ended"
  /\ st' = [st EXCEPT ![s] = "gone"]
  /\ UNCHANGED <<byWorkspace, ws, ses, sub>>

\* The owner types; the idle clock runs; checkIdle closes a session left alone.
Write(s) ==
  /\ st[s] = "live"
  /\ ses' = [ses EXCEPT ![s].quiet = FALSE]
  /\ UNCHANGED <<byWorkspace, st, ws, sub>>

GrowQuiet(s) ==
  /\ st[s] = "live" /\ ~ses[s].quiet
  /\ ses' = [ses EXCEPT ![s].quiet = TRUE]
  /\ UNCHANGED <<byWorkspace, st, ws, sub>>

CheckIdle(s) ==
  /\ ses[s].quiet /\ Close(s)

-----------------------------------------------------------------------------
(* Output, from the pod to whoever listens.                                *)

Bytes(b) ==
  LET sum[i \in 0 .. Len(b)] == IF i = 0 THEN 0 ELSE sum[i - 1] + b[i].size
  IN sum[Len(b)]
Ids(b)   == [i \in 1 .. Len(b) |-> b[i].id]

\* Mutant: stops dropping one chunk early.
TrimOnce(b) == IF Bytes(b) > MaxBacklog /\ Len(b) > 1 THEN Tail(b) ELSE b

\* The backlog drops its oldest chunks while it is too long, but never the last.
Trim(b) ==
  LET Stops(k) == k = Len(b) \/ Bytes(SubSeq(b, k, Len(b))) <= MaxBacklog
      kept == CHOOSE k \in 1 .. Len(b) : Stops(k) /\ \A j \in 1 .. k - 1 : ~Stops(j)
  IN SubSeq(b, kept, Len(b))

\* A chunk that arrives before open has resumed finds no session and is lost.
DataEarly(s) ==
  /\ st[s] = "connected" /\ ses[s].seen < MaxChunks
  /\ ses' = [ses EXCEPT ![s].seen = @ + 1, ![s].cut = TRUE]
  /\ UNCHANGED <<byWorkspace, st, ws, sub>>

\* What handleData leaves of the session, whoever gets the chunk.
Heard(s) == [ses[s] EXCEPT !.seen = @ + 1, !.quiet = FALSE]

DataKept(s) ==
  /\ st[s] = "live" /\ ses[s].listener = Nil /\ ses[s].seen < MaxChunks
  /\ \E n \in Sizes :
       LET all == Append(ses[s].backlog, [id |-> ses[s].seen + 1, size |-> n])
       IN ses' = [ses EXCEPT ![s] =
            [Heard(s) EXCEPT !.backlog = Trim(all),
                             !.cut = @ \/ Len(Trim(all)) < Len(all)]]
  /\ UNCHANGED <<byWorkspace, st, ws, sub>>

\* The listener takes the chunk; one that does not keep up is released, and the
\* session is closed without telling it of the end.
DataDelivered(s) ==
  LET x == ses[s].listener
      r == [Heard(s) EXCEPT !.out = Append(@, ses[s].seen + 1)]
  IN /\ st[s] = "live" /\ x # Nil /\ ses[s].seen < MaxChunks
     /\ \/ ses' = [ses EXCEPT ![s] = r] /\ UNCHANGED <<byWorkspace, st, sub>>
        \/ Finish(s, [r EXCEPT !.listener = Nil],
                  [sub EXCEPT ![x].st = "done", ![x].end = "slow"])
     /\ UNCHANGED ws

-----------------------------------------------------------------------------
(* subscribe                                                               *)

\* Mutant: a reconnection hands out the backlog and keeps it.
TakenTwice(s, x, k) ==
  [ses[s] EXCEPT !.listener = x, !.out = @ \o Ids(SubSeq(ses[s].backlog, 1, k))]

\* Mutant: the backlog is taken away instead of emptied.
TakenAway(s, x, k) == [TakenTwice(s, x, k) EXCEPT !.backlog = Nil]

\* The session once x has listened and taken k chunks of the backlog.
Taken(s, x, k) ==
  [ses[s] EXCEPT !.listener = x, !.backlog = <<>>,
                 !.out = @ \o Ids(SubSeq(ses[s].backlog, 1, k)),
                 !.cut = @ \/ k < Len(ses[s].backlog)]

\* The subscribers once x has come: whoever listened until now stays behind.
Joined(s, x) ==
  [y \in Subscribers |->
     IF y = x THEN [NewSub EXCEPT !.st = "waiting", !.ses = s]
     ELSE IF y = ses[s].listener THEN [sub[y] EXCEPT !.replaced = TRUE] ELSE sub[y]]

\* The whole backlog, and then the end if it has come already.
Subscribe(x, s) ==
  /\ sub[x].st = "idle" /\ st[s] \in {"live", "ended"}
  /\ ses' = [ses EXCEPT ![s] = Taken(s, x, Len(ses[s].backlog))]
  /\ sub' = IF st[s] = "live" THEN Joined(s, x)
            ELSE [Joined(s, x) EXCEPT ![x] = Told(@)]
  /\ UNCHANGED <<byWorkspace, st, ws>>

\* The subscriber does not keep up with the backlog: the session is closed.
SubscribeSlow(x, s) ==
  /\ sub[x].st = "idle" /\ st[s] \in {"live", "ended"}
  /\ \E k \in 1 .. Len(ses[s].backlog) :
       Finish(s, Taken(s, x, k),
              [Joined(s, x) EXCEPT ![x].st = "done", ![x].end = "slow"])
  /\ UNCHANGED ws

\* Core goes away; the session lives on, and the next subscriber gets what it
\* missed.
Abort(x) ==
  /\ sub[x].st = "waiting"
  /\ sub' = [sub EXCEPT ![x].st = "done", ![x].end = "aborted"]
  /\ ses' = [ses EXCEPT ![sub[x].ses].listener = IF @ = x THEN Nil ELSE @]
  /\ UNCHANGED <<byWorkspace, st, ws>>

-----------------------------------------------------------------------------

Next ==
  \/ \E s \in Sessions :
       \/ \E w \in Workspaces : Open(w, s)
       \/ Connect(s) \/ OpenFails(s) \/ Opened(s)
       \/ Settle(s) \/ Close(s) \/ Linger(s)
       \/ Write(s) \/ GrowQuiet(s) \/ CheckIdle(s)
       \/ DataEarly(s) \/ DataKept(s) \/ DataDelivered(s)
       \/ \E x \in Subscribers : Subscribe(x, s) \/ SubscribeSlow(x, s)
  \/ \E x \in Subscribers : Abort(x)
  \/ Shutdown

Spec == Init /\ [][Next]_vars

-----------------------------------------------------------------------------
(* Properties.                                                             *)

\* What the map keeps of a session, and what is known of a subscriber.
SesRecord ==
  [listener : Subscribers \union {Nil}, backlog : Seq([id : Nat, size : Sizes]),
   settled : BOOLEAN, quiet : BOOLEAN, seen : Nat, out : Seq(Nat), cut : BOOLEAN]

SubRecord ==
  [st : {"idle", "waiting", "done"}, ses : Sessions \union {Nil}, exits : Nat,
   end : {"none", "told", "aborted", "slow"}, replaced : BOOLEAN]

\* Every variable has its type.
TypeOK ==
  /\ byWorkspace \in [Workspaces -> Sessions \union {Nil}]
  /\ st \in [Sessions -> Stages]
  /\ ws \in [Sessions -> Workspaces \union {Nil}]
  /\ ses \in [Sessions -> SesRecord]
  /\ sub \in [Subscribers -> SubRecord]

\* "Una sesion por workspace": also while a session opens, and although the end of
\* an older one may still be reported late.
OneSessionPerWorkspace ==
  \A s, t \in Sessions :
    st[s] \in Holding /\ st[t] \in Holding /\ ws[s] = ws[t] => s = t

\* The reservation is exactly the session that holds the workspace: never lost while
\* one is open, never left behind (which would refuse every later open).
ReservationExact ==
  \A w \in Workspaces, s \in Sessions :
    byWorkspace[w] = s <=> st[s] \in Holding /\ ws[s] = w

\* The service keeps the promise of ExclusiveSessions.
Owns  == [s \in Sessions |-> IF st[s] \in Holding THEN ws[s] ELSE Nil]
Spent == {s \in Sessions : st[s] \in {"ended", "gone", "failed"}}

Promise == INSTANCE ExclusiveSessions WITH owns <- Owns, spent <- Spent

KeepsPromise == Promise!Spec

\* What Core reads, over all its reconnections, is what the shell wrote, in order and
\* never twice; it is all of it unless the session had to give something up.
OutputFaithful ==
  \A s \in Sessions :
    LET read == ses[s].out \o Ids(ses[s].backlog) IN
    /\ \A i, j \in 1 .. Len(read) : i < j => read[i] < read[j]
    /\ ~ses[s].cut => read = [i \in 1 .. ses[s].seen |-> i]

\* What waits for a subscriber stays below the cap, one large chunk excepted.
BacklogBounded ==
  \A s \in Sessions : Bytes(ses[s].backlog) <= MaxBacklog \/ Len(ses[s].backlog) = 1

\* A subscriber that has not been replaced waits only for a session that lives and
\* will tell it of its end, and nobody hears of an end twice.
ListenerAnswered ==
  \A x \in Subscribers :
    /\ sub[x].st = "waiting" /\ ~sub[x].replaced =>
         st[sub[x].ses] = "live" /\ ses[sub[x].ses].listener = x
    /\ sub[x].exits <= 1
=============================================================================
