---------------------------- MODULE PlainTunnel -----------------------------
(***************************************************************************)
(* The plain HTTP tunnel: a connection carried by HTTP requests.  Every    *)
(* Write of the client is a request that pushes; what the server writes    *)
(* comes as lines in the response to a request that pulls, which the       *)
(* client repeats; Close pushes nothing.  The server keeps a pipe for the  *)
(* client's token, made by whatever request finds none: one end is the     *)
(* connection it accepts, the other is for the requests.                   *)
(***************************************************************************)
EXTENDS Naturals, Sequences, FiniteSets

CONSTANTS TunnelUses \* up, down: bounds on what the client and each connection
                     \* of the server write; backlog: of the server; pipes:
                     \* bound, past which the backlog counts as full; faults:
                     \* bound on what the network loses

VARIABLES pu,    \* chosen once
          pipes, \* in the order they were made
          owner, \* conns: the pipe of the token
          reqs,   \* the requests, at the server
          resp,  \* the response of the pull
          pc,    \* the client's connection
          lost   \* faults so far

pvars == <<pu, pipes, owner, reqs, resp, pc, lost>>

NoPipe == 0
HTTPRequests == {"push", "bye", "pull"}
NoReq == [at |-> "none", pipe |-> NoPipe]
NoResp == [lines |-> <<>>, end |-> "open"]
Beat == <<0, 0>>  \* the line without data

Connected ==
    [wrote |-> 0, write |-> "idle", closed |-> FALSE, cancelled |-> FALSE,
     loop |-> "top", any |-> FALSE, got |-> Beat]

TunnelStart(uses, conn) ==
    /\ pu \in uses
    /\ pipes = <<>> /\ owner = NoPipe
    /\ reqs = [x \in HTTPRequests |-> NoReq]
    /\ resp = NoResp
    /\ pc = conn
    /\ lost = 0

TunnelInit(uses) == TunnelStart(uses, Connected)

-----------------------------------------------------------------------------
(* The client.                                                             *)

Send(x) == reqs' = [reqs EXCEPT ![x] = [NoReq EXCEPT !.at = "load"]]

\* write: one at a time, until one has failed.
ClientWrite ==
    /\ pc.write = "idle" /\ pc.wrote < pu.up /\ ~pc.cancelled
    /\ pc' = [pc EXCEPT !.write = "busy"]
    /\ Send("push")
    /\ UNCHANGED <<pu, pipes, owner, resp, lost>>

ClientWrote ==
    /\ pc.write = "busy"
    /\ \/ /\ reqs["push"].at = "ok"
          /\ pc' = [pc EXCEPT !.write = "idle", !.wrote = @ + 1]
       \/ /\ reqs["push"].at = "failed" \/ pc.cancelled
          /\ pc' = [pc EXCEPT !.write = "failed"]
    /\ UNCHANGED <<pu, pipes, owner, reqs, resp, lost>>

\* Close, of any moment, also during a Write.
ClientClose ==
    /\ ~pc.closed
    /\ pc' = [pc EXCEPT !.closed = TRUE]
    /\ Send("bye")
    /\ UNCHANGED <<pu, pipes, owner, resp, lost>>

\* Mutant: the requests are not cancelled.
ClientForgets ==
    /\ reqs["bye"].at \in {"ok", "failed"}
    /\ UNCHANGED pvars
\* The end of Close, once the server has answered or the request has failed.
ClientCancels ==
    /\ reqs["bye"].at \in {"ok", "failed"}
    /\ pc' = [pc EXCEPT !.cancelled = TRUE]
    /\ UNCHANGED <<pu, pipes, owner, reqs, resp, lost>>

\* readLoop: another pull.
Pull ==
    /\ pc.loop = "top"
    /\ IF pc.closed \/ pc.cancelled
       THEN pc' = [pc EXCEPT !.loop = "over"] /\ UNCHANGED <<reqs, resp>>
       ELSE pc' = [pc EXCEPT !.loop = "busy", !.any = FALSE] /\ Send("pull") /\ resp' = NoResp
    /\ UNCHANGED <<pu, pipes, owner, lost>>

\* A line for Read, through rxc; nobody may read from a closed connection.
Scan ==
    /\ pc.loop = "busy" /\ ~pc.cancelled /\ resp.lines # <<>>
    /\ \/ /\ Head(resp.lines) = Beat
          /\ pc' = [pc EXCEPT !.any = TRUE]
       \/ /\ Head(resp.lines) # Beat
          /\ pc' = [pc EXCEPT !.any = TRUE, !.got = Head(resp.lines)]
       \/ /\ Head(resp.lines) # Beat /\ pc.closed
          /\ pc' = [pc EXCEPT !.loop = "over"]
    /\ resp' = [resp EXCEPT !.lines = Tail(@)]
    /\ UNCHANGED <<pu, pipes, owner, reqs, lost>>

\* The response ends: after any line another is asked for, after none the
\* tunnel is taken to be closed.
Pulled ==
    /\ pc.loop = "busy"
    /\ \/ /\ resp.lines = <<>> /\ resp.end = "eof"
          /\ pc' = [pc EXCEPT !.loop = IF pc.any THEN "top" ELSE "over"]
       \/ /\ reqs["pull"].at = "failed" \/ resp.end = "cut" \/ pc.cancelled
          /\ pc' = [pc EXCEPT !.loop = "over"]
    /\ UNCHANGED <<pu, pipes, owner, reqs, resp, lost>>

-----------------------------------------------------------------------------
(* The server: a pipe for a request.                                       *)

\* getOrCreateConn: the token's pipe.
LoadConn(x) ==
    /\ reqs[x].at = "load"
    /\ reqs' = [reqs EXCEPT ![x] = IF owner = NoPipe THEN [@ EXCEPT !.at = "make"]
                                 ELSE [at |-> "go", pipe |-> owner]]
    /\ UNCHANGED <<pu, pipes, owner, resp, pc, lost>>

NewPipe(x) == [c1 |-> "new", c2 |-> "open", down |-> 0, late |-> x = "push" /\ pc.closed]

\* Mutant: the token's pipe is replaced.
CreatePipeAlways(x) ==
    /\ reqs[x].at = "make"
    /\ pipes' = Append(pipes, NewPipe(x))
    /\ owner' = Len(pipes) + 1
    /\ reqs' = [reqs EXCEPT ![x] = [at |-> "queue", pipe |-> Len(pipes) + 1]]
    /\ UNCHANGED <<pu, resp, pc, lost>>
\* createPipe: a new one, unless another request has been faster.
CreatePipe(x) ==
    /\ reqs[x].at = "make"
    /\ IF owner # NoPipe
       THEN reqs' = [reqs EXCEPT ![x] = [at |-> "go", pipe |-> owner]] /\ UNCHANGED <<pipes, owner>>
       ELSE /\ pipes' = Append(pipes, NewPipe(x))
            /\ owner' = Len(pipes) + 1
            /\ reqs' = [reqs EXCEPT ![x] = [at |-> "queue", pipe |-> Len(pipes) + 1]]
    /\ UNCHANGED <<pu, resp, pc, lost>>

Queued == {k \in DOMAIN pipes : pipes[k].c1 = "queued"}

\* createPipe: into the backlog, or all of it undone.
Enqueue(x) ==
    LET k == reqs[x].pipe IN
    /\ reqs[x].at = "queue"
    /\ IF Cardinality(Queued) < pu.backlog /\ k <= pu.pipes
       THEN /\ pipes' = [pipes EXCEPT ![k].c1 = "queued"]
            /\ reqs' = [reqs EXCEPT ![x].at = "go"]
            /\ UNCHANGED owner
       ELSE /\ pipes' = [pipes EXCEPT ![k].c1 = "closed", ![k].c2 = "closed"]
            /\ reqs' = [reqs EXCEPT ![x] = [NoReq EXCEPT !.at = "failed"]]
            /\ owner' = NoPipe
    /\ UNCHANGED <<pu, resp, pc, lost>>

Mine(x) == pipes[reqs[x].pipe]
CloseEnd(x) == pipes' = [pipes EXCEPT ![reqs[x].pipe].c2 = "closed"]

-----------------------------------------------------------------------------
(* The server: handlePush.                                                 *)

\* Data is written into the pipe, which takes it when the other end reads; the
\* pipe is closed, or does not take it within 30 seconds: the token is deleted,
\* whatever pipe it has by now.
PushFails ==
    /\ reqs["push"].at = "go"
    /\ reqs' = [reqs EXCEPT !["push"].at = "close"]
    /\ owner' = NoPipe
    /\ UNCHANGED <<pu, pipes, resp, pc, lost>>
PushCloses ==
    /\ reqs["push"].at = "close"
    /\ CloseEnd("push")
    /\ reqs' = [reqs EXCEPT !["push"] = [NoReq EXCEPT !.at = "failed"]]
    /\ UNCHANGED <<pu, owner, resp, pc, lost>>

\* Nothing: the pipe is closed, and then the token deleted.
ByeCloses ==
    /\ reqs["bye"].at = "go"
    /\ CloseEnd("bye")
    /\ reqs' = [reqs EXCEPT !["bye"].at = "delete"]
    /\ UNCHANGED <<pu, owner, resp, pc, lost>>
ByeDeletes ==
    /\ reqs["bye"].at = "delete"
    /\ owner' = NoPipe
    /\ reqs' = [reqs EXCEPT !["bye"] = [NoReq EXCEPT !.at = "ok"]]
    /\ UNCHANGED <<pu, pipes, resp, pc, lost>>

-----------------------------------------------------------------------------
(* The server: handlePull.                                                 *)

\* The client is there to be written to.
Gone == pc.cancelled \/ resp.end = "cut" \/ pc.loop = "over"

\* The token is deleted, whatever pipe it has by now; then the pipe is closed.
PullBreaks == owner' = NoPipe /\ reqs' = [reqs EXCEPT !["pull"].at = "close"]

\* The connection writes, and the pull takes it; to a client that is gone it is
\* lost, and the pull ends.
PullData(k) ==
    /\ reqs["pull"] = [at |-> "go", pipe |-> k]
    /\ pipes[k].c1 = "open" /\ pipes[k].c2 = "open" /\ pipes[k].down < pu.down
    /\ pipes' = [pipes EXCEPT ![k].down = @ + 1]
    /\ IF Gone THEN PullBreaks /\ UNCHANGED resp
       ELSE /\ resp.lines = <<>> /\ resp' = [resp EXCEPT !.lines = <<<<k, pipes[k].down + 1>>>>]
            /\ UNCHANGED <<owner, reqs>>
    /\ UNCHANGED <<pu, pc, lost>>

\* readTimeout: a line without data.
Heartbeat ==
    /\ reqs["pull"].at = "go"
    /\ IF Gone THEN PullBreaks /\ UNCHANGED resp
       ELSE /\ resp.lines = <<>> /\ resp' = [resp EXCEPT !.lines = <<Beat>>]
            /\ UNCHANGED <<owner, reqs>>
    /\ UNCHANGED <<pu, pipes, pc, lost>>

PullEnds ==
    /\ reqs["pull"].at = "go" /\ (Mine("pull").c1 = "closed" \/ Mine("pull").c2 = "closed")
    /\ PullBreaks
    /\ UNCHANGED <<pu, pipes, resp, pc, lost>>
PullCloses ==
    /\ reqs["pull"].at = "close"
    /\ CloseEnd("pull")
    /\ reqs' = [reqs EXCEPT !["pull"] = NoReq]
    /\ resp' = [resp EXCEPT !.end = IF @ = "open" THEN "eof" ELSE @]
    /\ UNCHANGED <<pu, owner, pc, lost>>

-----------------------------------------------------------------------------
(* The server's connections, and the network.                              *)

AcceptPipe(k) ==
    /\ k \in Queued /\ \A n \in Queued : k <= n
    /\ pipes' = [pipes EXCEPT ![k].c1 = "open"]
    /\ UNCHANGED <<pu, owner, reqs, resp, pc, lost>>

\* What a push writes.
ServerReads(k) ==
    /\ pipes[k].c1 = "open" /\ pipes[k].c2 = "open" /\ reqs["push"] = [at |-> "go", pipe |-> k]
    /\ reqs' = [reqs EXCEPT !["push"] = [NoReq EXCEPT !.at = "ok"]]
    /\ UNCHANGED <<pu, pipes, owner, resp, pc, lost>>

\* At any moment, and when the other end is closed.
ServerCloses(k) ==
    /\ pipes[k].c1 = "open"
    /\ pipes' = [pipes EXCEPT ![k].c1 = "closed"]
    /\ UNCHANGED <<pu, owner, reqs, resp, pc, lost>>

\* A request that is cancelled, or that the network loses, may never arrive, and
\* neither may its answer.
Vanishes(x) ==
    /\ reqs[x].at \in {"load", "ok"}
    /\ IF pc.cancelled THEN UNCHANGED lost ELSE lost < pu.faults /\ lost' = lost + 1
    /\ reqs' = [reqs EXCEPT ![x] = [NoReq EXCEPT !.at = "failed"]]
    /\ UNCHANGED <<pu, pipes, owner, resp, pc>>

\* The connection of the pull breaks.
Cut ==
    /\ lost < pu.faults /\ lost' = lost + 1
    /\ pc.loop = "busy" /\ resp.end = "open" /\ reqs["pull"].at = "go"
    /\ resp' = [lines |-> <<>>, end |-> "cut"]
    /\ UNCHANGED <<pu, pipes, owner, reqs, pc>>

-----------------------------------------------------------------------------
GetOrCreateConn(x) == LoadConn(x) \/ CreatePipe(x) \/ Enqueue(x)
HandlePush == GetOrCreateConn("push") \/ PushFails \/ PushCloses
HandleBye == GetOrCreateConn("bye") \/ ByeCloses \/ ByeDeletes
HandlePull == GetOrCreateConn("pull") \/ Heartbeat \/ PullEnds \/ PullCloses
ReadLoop == Pull \/ Scan \/ Pulled
ServerAccepts == \E k \in DOMAIN pipes : AcceptPipe(k)
ServerFollows == \E k \in DOMAIN pipes : pipes[k].c2 = "closed" /\ ServerCloses(k)

TunnelNext ==
    \/ ClientWrite \/ ClientWrote \/ ClientClose \/ ClientCancels \/ ReadLoop
    \/ HandlePush \/ HandleBye \/ HandlePull
    \/ ServerAccepts
    \/ \E k \in DOMAIN pipes : PullData(k) \/ ServerReads(k) \/ ServerCloses(k)
    \/ (\E x \in HTTPRequests : Vanishes(x)) \/ Cut

\* Requests are served, the timers of the pipe's ends fire, connections are
\* accepted, and closed when the other end is.
TunnelFairness ==
    /\ WF_pvars(ClientWrote) /\ WF_pvars(ClientCancels) /\ WF_pvars(ReadLoop)
    /\ WF_pvars(HandlePush) /\ WF_pvars(HandleBye) /\ WF_pvars(HandlePull)
    /\ WF_pvars(ServerAccepts) /\ WF_pvars(ServerFollows)

\* A connection that was never used.
TunnelIdle ==
    TunnelStart({[up |-> 0, down |-> 0, backlog |-> 0, pipes |-> 0, faults |-> 0]},
                [Connected EXCEPT !.closed = TRUE, !.cancelled = TRUE, !.loop = "over"])

-----------------------------------------------------------------------------
(* Properties.                                                             *)

Ended ==
    \/ \E k \in DOMAIN pipes : pipes[k].c1 = "closed" \/ pipes[k].c2 = "closed"
    \/ \E x \in HTTPRequests : reqs[x].at = "close"

Follows(b, a) == \/ b[1] = a[1] /\ b[2] = a[2] + 1
                 \/ b[1] > a[1] /\ b[2] = 1

\* A token stands for one connection: however its first push and its first pull
\* arrive, the server accepts a second connection for it only when the first is
\* being closed (createPipe, whose comment asks for this), and what comes back
\* to the client is all that one connection has written, in order, and then,
\* where the pull has been repeated, what the next has written.
SameTunnel ==
    /\ [](Len(pipes) > 1 => Ended)
    /\ [][pc'.got # pc.got => Follows(pc'.got, pc.got)]_pvars

\* The handlers of a request are done.
Finished(x) == reqs[x].pipe = NoPipe /\ reqs[x].at \in {"none", "ok", "failed"}

\* Nobody closes these: made by a push that was under way when the client closed
\* its end, or never pulled and the notification did not arrive.
Stale(k) == pipes[k].c2 = "open" /\ (pipes[k].late \/ reqs["bye"].at = "failed")

\* Close of the client's end reaches the server whatever is under way: the
\* requests end, by the answer, the cancelled context, the write deadline or a
\* heartbeat that fails, and with them every connection the server has accepted
\* for the token, but for the ones above.  And no Write waits for ever.
TunnelEnds ==
    /\ pc.closed ~> /\ pc.cancelled /\ \A x \in HTTPRequests : Finished(x)
                    /\ \A k \in DOMAIN pipes : pipes[k].c1 = "closed" \/ Stale(k)
    /\ pc.write = "busy" ~> pc.write # "busy"
=============================================================================
