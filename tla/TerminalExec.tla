----------------------------- MODULE TerminalExec -----------------------------
(***************************************************************************)
(* terminal.service.ts, exec: one command of a workspace, streamed to the   *)
(* client that asked for it.  The client may leave, the output may pass the *)
(* cap, the timeout may run out, the connection may break and the pod may   *)
(* be stopped and started again, at any of the awaits.  A step is what runs *)
(* between two of them.  One workspace: requests of others share nothing.   *)
(***************************************************************************)
EXTENDS Integers, Sequences, FiniteSets

CONSTANTS
  Requests,
  Sizes,       \* sizes a chunk of output can have
  MaxOutput,   \* MAX_OUTPUT_BYTES
  MaxArrived   \* bound: bytes of output after which no more arrive

ASSUME ConstantsAssumption ==
  /\ Sizes \subseteq Nat \ {0} /\ MaxOutput \in Nat
  /\ MaxArrived \in Nat

VARIABLES
  busy,     \* the workspace is in the set of those that run a command
  up,       \* the workspace has a pod that runs
  stop,     \* stopPod: "no", or deleting until it forgets busy
  req       \* request -> its call of exec, its connection and its answer

vars == <<busy, up, stop, req>>

\* open: the socket is up, execInPod has not resumed exec.  refused: exec threw,
\* and the answer is an HTTP error.
Stages  == {"idle", "checking", "opening", "open", "running", "done", "refused"}
Between == {"checking", "opening", "open", "running"}

\* conn: its socket; exit: what exitCode settled to; sent: bytes counted towards the cap;
\* held: bytes of a character still to be completed, by the decoder of each stream;
\* events: what is written to the client; given and arrived are history, in bytes: what
\* the client was given the text of, and all there was.
NewReq == [st |-> "idle", conn |-> "none", exit |-> "no", sent |-> 0,
           held |-> [k \in {"out", "err"} |-> 0], truncated |-> FALSE, gone |-> FALSE,
           events |-> <<>>, given |-> 0, arrived |-> 0]

Init ==
  /\ busy = FALSE
  /\ up = TRUE
  /\ stop = "no"
  /\ req = [r \in Requests |-> NewReq]

-----------------------------------------------------------------------------
(* exec, up to the await of the exit code.                                 *)

\* Once it is over, by whichever of the two finally blocks.
Over(r, l) == req' = [req EXCEPT ![r].st = l] /\ busy' = FALSE

Call(r) ==
  /\ req[r].st = "idle"
  /\ IF busy THEN req' = [req EXCEPT ![r].st = "refused"] /\ UNCHANGED busy
     ELSE req' = [req EXCEPT ![r].st = "checking"] /\ busy' = TRUE
  /\ UNCHANGED <<up, stop>>

\* requireRunningPod reads the pod.
Check(r) ==
  /\ req[r].st = "checking"
  /\ IF up THEN req' = [req EXCEPT ![r].st = "opening"] /\ UNCHANGED busy
     ELSE Over(r, "refused")
  /\ UNCHANGED <<up, stop>>

\* The API server opens the exec on the pod that now has the name, be it one that is being
\* deleted, or refuses.
Connect(r) ==
  /\ req[r].st = "opening"
  /\ req' = [req EXCEPT ![r].st = "open", ![r].conn = "up"]
  /\ UNCHANGED <<busy, up, stop>>

ConnectFails(r) ==
  /\ req[r].st = "opening"
  /\ Over(r, "refused")
  /\ UNCHANGED <<up, stop>>

\* close() starts the closing handshake of the socket.
Closing(c) == IF c = "up" THEN "closing" ELSE c

\* Mutant: the cap passed before there was a handle is forgotten.
ResumeUnaware(r) ==
  /\ req[r].st = "open"
  /\ req' = [req EXCEPT ![r].st = "running"]
  /\ UNCHANGED <<busy, up, stop>>

\* exec has its handle: it aborts if the output passed the cap before, and only now
\* listens to the client's signal and arms the watchdog.
Resume(r) ==
  /\ req[r].st = "open"
  /\ req' = [req EXCEPT ![r].st = "running",
                        ![r].conn = IF req[r].truncated THEN Closing(@) ELSE @]
  /\ UNCHANGED <<busy, up, stop>>

-----------------------------------------------------------------------------
(* What can happen meanwhile.                                              *)

\* What a decoder that held o bytes may hold after a chunk of n: of a character that
\* began in the chunk, or of the one that it held, which is still not complete.
Withheld(o, n) == {h \in 0 .. 3 : h <= n \/ h = o + n}

\* The client is given what the chunk completes, if it completes anything; or it is not,
\* and the output is cut there.
Give(q, k, n, h) ==
  [q EXCEPT !.sent = @ + n, !.held[k] = h, !.given = @ + q.held[k] + n - h,
            !.events = IF h = q.held[k] + n THEN @ ELSE Append(@, "out")]
Cut(q, n) == [q EXCEPT !.sent = @ + n, !.truncated = TRUE,
                       !.conn = IF q.st = "running" THEN Closing(@) ELSE @]

\* forward: the chunk that passes the cap, and all that come after it, are not given.
Forward(q, k, n, h) ==
  IF q.truncated THEN q
  ELSE IF q.sent + n > MaxOutput THEN Cut(q, n) ELSE Give(q, k, n, h)

\* Output arrives on stdout or stderr, also after close() until the socket has closed.
Output(r) ==
  /\ req[r].conn \in {"up", "closing"} /\ req[r].arrived < MaxArrived
  /\ \E k \in {"out", "err"}, n \in Sizes : \E h \in Withheld(req[r].held[k], n) :
       req' = [req EXCEPT ![r] = [Forward(req[r], k, n, h) EXCEPT !.arrived = @ + n]]
  /\ UNCHANGED <<busy, up, stop>>

\* The status of the command arrives, and the server closes: exitCode has settled, so
\* that the close is not heard.
Status(r) ==
  /\ req[r].conn \in {"up", "closing"}
  /\ req' = [req EXCEPT ![r].exit = "code", ![r].conn = "closed"]
  /\ UNCHANGED <<busy, up, stop>>

\* The socket closes: at last, or because the connection or the pod broke.
Closed(r) ==
  /\ req[r].conn \in {"up", "closing"}
  /\ req' = [req EXCEPT ![r].conn = "closed", ![r].exit = "broken"]
  /\ UNCHANGED <<busy, up, stop>>

\* Mutant: the timer is cleared as soon as the client has gone.
WatchdogLeft(r) ==
  /\ req[r].st = "running" /\ req[r].conn = "up" /\ ~req[r].gone
  /\ req' = [req EXCEPT ![r].conn = "closing"]
  /\ UNCHANGED <<busy, up, stop>>

\* The timer of timeoutSeconds and ten more.
Watchdog(r) ==
  /\ req[r].st = "running" /\ req[r].conn = "up"
  /\ req' = [req EXCEPT ![r].conn = "closing"]
  /\ UNCHANGED <<busy, up, stop>>

\* The client goes: the controller's signal aborts, which onAbort hears if it has been
\* registered.
Leave(r) ==
  /\ req[r].st \in Between /\ ~req[r].gone
  /\ req' = [req EXCEPT ![r].gone = TRUE,
                        ![r].conn = IF req[r].st = "running" THEN Closing(@) ELSE @]
  /\ UNCHANGED <<busy, up, stop>>

-----------------------------------------------------------------------------
(* The answer.                                                             *)

\* Mutant: a broken connection tells nobody if the client has gone or not.
EndingUntold(q) ==
  IF q.exit = "code" THEN IF q.truncated THEN <<"cut">> ELSE <<"exit">> ELSE <<>>

\* Mutant: what exitCode settled to is passed on as it is.
EndingRaw(q) == <<q.exit>>

\* Mutant: the code of the command stands for the whole of its output.
EndingPlain(q) ==
  CASE q.exit = "code"             -> <<"exit">>
    [] q.exit # "code" /\ q.truncated -> <<"cut">>
    [] q.exit # "code" /\ ~q.truncated -> IF q.gone THEN <<>> ELSE <<"error">>

\* What exec emits last: the exit, marked if the output was cut; the error of a broken
\* connection, unless the client has gone.  The decoders are not asked for what they hold.
Ending(q) ==
  CASE q.truncated                                -> <<"cut">>
    [] ~q.truncated /\ q.exit = "code"            -> <<"exit">>
    [] ~q.truncated /\ q.exit # "code" /\ q.gone  -> <<>>
    [] ~q.truncated /\ q.exit # "code" /\ ~q.gone -> <<"error">>

\* The controller ends the response, with an error if nothing was ever written.
Stream(q) ==
  LET all == q.events \o Ending(q) IN IF all = <<>> THEN <<"error">> ELSE all

Answer(r) ==
  /\ req[r].st = "running" /\ req[r].exit # "no"
  /\ req' = [req EXCEPT ![r].st = "done", ![r].events = Stream(req[r])]
  /\ busy' = FALSE
  /\ UNCHANGED <<up, stop>>

-----------------------------------------------------------------------------
(* stopPod and start, as far as exec can tell.                             *)

\* The pod is deleted: it is not running for anybody who looks, while its connections
\* last a little longer.
StopPod ==
  /\ stop = "no" /\ stop' = "deleting"
  /\ up' = FALSE
  /\ UNCHANGED <<busy, req>>

\* The delete fails: deletePod logs it, and stopPod goes on.
StopPodSlips ==
  /\ stop = "no" /\ up /\ stop' = "deleting"
  /\ UNCHANGED <<busy, up, req>>

StopForgets ==
  /\ stop = "deleting" /\ stop' = "no"
  /\ busy' = FALSE
  /\ UNCHANGED <<up, req>>

StartPod ==
  /\ ~up /\ up' = TRUE
  /\ UNCHANGED <<busy, stop, req>>

-----------------------------------------------------------------------------

Next ==
  \/ \E r \in Requests :
       \/ Call(r) \/ Check(r) \/ Connect(r) \/ ConnectFails(r) \/ Resume(r)
       \/ Output(r) \/ Status(r) \/ Closed(r) \/ Watchdog(r) \/ Leave(r)
       \/ Answer(r)
  \/ StopPod \/ StopPodSlips \/ StopForgets \/ StartPod

\* The event loop runs what is due; a call of the API answers; the watchdog's timer
\* fires; a socket being closed closes (ws destroys it after its own timeout).
Fairness ==
  \A r \in Requests :
    /\ WF_vars(Check(r)) /\ WF_vars(Connect(r) \/ ConnectFails(r)) /\ WF_vars(Resume(r))
    /\ WF_vars(Watchdog(r)) /\ WF_vars(req[r].conn = "closing" /\ Closed(r))
    /\ WF_vars(Answer(r))

Spec == Init /\ [][Next]_vars /\ Fairness

-----------------------------------------------------------------------------
(* Properties.                                                             *)

ReqRecord ==
  [st : Stages, conn : {"none", "up", "closing", "closed"}, exit : {"no", "code", "broken"},
   sent : Nat, held : [{"out", "err"} -> 0 .. 3], truncated : BOOLEAN, gone : BOOLEAN,
   events : Seq({"out", "exit", "cut", "error"}), given : Nat, arrived : Nat]

\* Every variable has its type; a decoder holds at most the three bytes of a character of
\* four.
TypeOK ==
  /\ busy \in BOOLEAN /\ up \in BOOLEAN
  /\ stop \in {"no", "deleting"}
  /\ req \in [Requests -> ReqRecord]

Final == {"exit", "cut", "error"}

\* "Siempre termina con un evento exit (o error)": a client that stays reads one final
\* event and nothing after it, and one that gets an HTTP error no event at all.
OneAnswer ==
  \A r \in Requests :
    LET e == req[r].events
        n == Cardinality({i \in 1 .. Len(e) : e[i] \in Final})
    IN /\ req[r].st \in Between \union {"refused"} => n = 0
       /\ req[r].st = "refused" => e = <<>>
       /\ req[r].st = "done" => n <= 1
       /\ req[r].st = "done" /\ ~req[r].gone => n = 1 /\ e[Len(e)] \in Final

\* A final event that does not say the output was cut comes after all of it that arrived,
\* whatever the order of cap, timeout, status and close: the client is not shown part of
\* the output as if it were the whole.  Only what the decoders hold in the end, at most
\* three bytes of each stream, is missing and not said to be.
CutIsSaid ==
  \A r \in Requests :
    LET q == req[r]
    IN q.st = "done" /\ (q.events = <<>> \/ q.events[Len(q.events)] # "cut")
         => q.given + q.held["out"] + q.held["err"] = q.arrived

\* The client is never given more than the cap, and a command that passed it is not left
\* connected, even if it did so before there was a handle to abort it with.
OutputCapped ==
  \A r \in Requests :
    /\ req[r].given <= MaxOutput
    /\ req[r].st = "running" /\ req[r].truncated => req[r].conn # "up"

\* A command that was accepted is answered, whatever its client and its pod do: the
\* watchdog sees to it.
Answered ==
  \A r \in Requests : req[r].st = "checking" ~> req[r].st \in {"done", "refused"}
=============================================================================
