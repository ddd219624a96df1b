------------------------------ MODULE Service -------------------------------
(***************************************************************************)
(* A service and its listener: the accept loop with its backoff, the       *)
(* goroutines that feed it, the admission and connection limiters on the   *)
(* way, the handlers it starts, and Close, all at once.                    *)
(*                                                                         *)
(* A connection comes from a host and stays at one place: the backlog of   *)
(* the socket, the goroutine of its session, the queue of the listener,    *)
(* its handler.  Of the UDP listener, a connection stands for a client     *)
(* address while the listener knows it.                                    *)
(***************************************************************************)
EXTENDS Listeners, Sequences, FiniteSets

CONSTANTS Conns,      \* the connections
          Host,       \* the host each comes from
          Backlog,    \* the queue of the listener
          MaxFaults,  \* bound: errors that sockets, bindings and devices make
          MaxCloses,  \* bound: calls of Close; the API makes two
          MaxReloads, \* bound: reloads of the connection limiter
          Confs       \* kind: the listener; host, global: the limits (0:
                      \* none); keepalive: of the UDP listener; conns: the
                      \* connections that come (a bound)

None == "none"

ASSUME BoundsAssumption ==
    /\ Backlog \in Nat \ {0} /\ MaxFaults \in Nat
    /\ MaxCloses \in Nat /\ MaxReloads \in Nat

\* Connections are finitely many, and no host is called as the global limit or
\* as none.
ASSUME ConnsAssumption ==
    /\ IsFiniteSet(Conns) /\ None \notin Conns
    /\ \A c \in Conns : Host[c] \notin {"global", None}
    /\ Confs \subseteq [kind : DOMAIN Listener, host : Nat, global : Nat,
                        keepalive : BOOLEAN, conns : SUBSET Conns]

VARIABLES conf,   \* chosen once
          svc,    \* serve: where Serve is; up: the state shown; err: what it
                  \* returns; closes, closing: the calls of Close
          ln,     \* sock, loop, err (errChan), done (errChan is closed),
                  \* queue (cqueue), closed (the flag)
          conn,   \* where each connection is, whether it is open, and the
                  \* limiter it holds a slot of
          limiter,\* gen: the limiters in force; count: their slots taken
          udp,    \* pool: the connection of each address; closed: of the
                  \* pool; idle; hand: the address whose packet listenLoop
                  \* holds; new: what getConn has queued; check, step: what
                  \* idleCheck looks at, and what it does next
          faults  \* errors still to come

vars == <<conf, svc, ln, conn, limiter, udp, faults>>

L == Listener[conf.kind]
Hosts == {Host[c] : c \in Conns}
Gens == 0..MaxReloads
NoSlot == MaxReloads + 1
Keys == Hosts \cup {"global"}

NoClients == [pool |-> [h \in Hosts |-> None], closed |-> FALSE, idle |-> {},
              hand |-> None, new |-> None, check |-> None, step |-> "look"]

Init ==
    /\ conf \in Confs
    /\ svc = [serve |-> "accept", up |-> "ready", err |-> None, closes |-> 0, closing |-> "no"]
    /\ ln = [sock |-> IF Listener[conf.kind].feeds = "remote" THEN None ELSE "open",
             loop |-> Listener[conf.kind].feeds \in {"loop", "server", "device", "packets"},
             err |-> <<>>, done |-> FALSE, queue |-> <<>>, closed |-> FALSE]
    /\ conn = [c \in Conns |-> [at |-> "away", open |-> FALSE, slot |-> NoSlot]]
    /\ limiter = [gen |-> 0, count |-> [g \in Gens |-> [k \in Keys |-> 0]]]
    /\ udp = NoClients
    /\ faults = MaxFaults

-----------------------------------------------------------------------------
(* The connection limiter.                                                 *)

Limit(k) == IF k = "global" THEN conf.global ELSE conf.host

\* Limiter(host): the group of the limits that apply.
Group(h) == {k \in {h, "global"} : Limit(k) > 0}

\* The limits of a group that refuse one more.
Refusing(count, h) == {k \in Group(h) : count[k] + 1 > Limit(k)}

\* Mutant: what the limits before the one that refuses took is kept (a group
\* asks the smaller limit first).
AllowKeeps(count, h) ==
    LET took == {k \in Group(h) \ Refusing(count, h) :
                   \A f \in Refusing(count, h) : Limit(k) <= Limit(f)}
    IN [ok |-> Refusing(count, h) = {},
        count |-> [k \in Keys |-> IF k \in took THEN count[k] + 1 ELSE count[k]]]
\* Allow(1) of the group: all of the limits, or none.
Allow(count, h) ==
    LET took == IF Refusing(count, h) = {} THEN Group(h) ELSE {}
    IN [ok |-> Refusing(count, h) = {},
        count |-> [k \in Keys |-> IF k \in took THEN count[k] + 1 ELSE count[k]]]

Limited(h) == Group(h) # {}

\* The limiter is asked for a connection: the slot it gets, if any.
Ask(c, where) ==
    LET r == Allow(limiter.count[limiter.gen], Host[c])
        asked == L.limits = where /\ Limited(Host[c])
    IN [ok |-> asked => r.ok,
        slot |-> IF asked THEN limiter.gen ELSE conn[c].slot,
        limiter |-> IF asked THEN [limiter EXCEPT !.count[limiter.gen] = r.count] ELSE limiter]

\* Close of the wrapped connections gives their slots back, once.
Holds(c, g, k) == conn[c].slot = g /\ k \in Group(Host[c])
Release(l, cs) ==
    [l EXCEPT !.count = [g \in Gens |-> [k \in Keys |->
         l.count[g][k] - Cardinality({c \in cs : Holds(c, g, k)})]]]

\* The period of the limiter: every limit is made anew.
Reload ==
    /\ Limited(CHOOSE h \in Hosts : TRUE) /\ limiter.gen < MaxReloads
    /\ limiter' = [limiter EXCEPT !.gen = @ + 1]
    /\ UNCHANGED <<conf, svc, ln, conn, udp, faults>>

-----------------------------------------------------------------------------
(* Serve.                                                                  *)

Temporary == {"temporary", "bind", "accept"}
Ended == {"draining", "returned"}

\* Mutant: the service does not get over a binding that fails.
GetsErrorStops(s, e) ==
    IF e = "nil" THEN [s EXCEPT !.serve = "crashed"]
    ELSE IF e \in Temporary \ {"bind"} THEN [s EXCEPT !.serve = "backoff", !.up = "failed"]
    ELSE [s EXCEPT !.serve = "draining", !.up = "closed", !.err = e]
\* Accept returns an error; or, of http3, neither a connection nor an error.
GetsError(s, e) ==
    IF e = "nil" THEN [s EXCEPT !.serve = "crashed"]
    ELSE IF e \in Temporary THEN [s EXCEPT !.serve = "backoff", !.up = "failed"]
    ELSE [s EXCEPT !.serve = "draining", !.up = "closed", !.err = e]

Gone == [at |-> "gone", open |-> FALSE, slot |-> NoSlot]

\* The connection of Serve is closed: a stream leaves its session behind.
\* stdio ends the process.
Closed(c) ==
    /\ conn' = [conn EXCEPT ![c] = IF L.mux /\ @.open THEN [@ EXCEPT !.at = "session"] ELSE Gone]
    /\ limiter' = IF L.mux /\ conn[c].open THEN limiter ELSE Release(limiter, {c})

\* Accept returns a connection: its handler starts, or the admission of the
\* service refuses it.
Serves(c, l) ==
    \/ /\ conn' = [conn EXCEPT ![c] = [@ EXCEPT !.at = "serving", !.slot = l.slot]]
       /\ limiter' = l.limiter
    \/ Closed(c)

Retry ==
    /\ svc.serve = "backoff"
    /\ svc' = [svc EXCEPT !.serve = "accept", !.up = "ready"]
    /\ UNCHANGED <<conf, ln, conn, limiter, udp, faults>>

Return ==
    /\ svc.serve = "draining" /\ \A c \in Conns : conn[c].at # "serving"
    /\ svc' = [svc EXCEPT !.serve = "returned"]
    /\ UNCHANGED <<conf, ln, conn, limiter, udp, faults>>

HandlerEnds(c) ==
    /\ conn[c].at = "serving"
    /\ Closed(c)
    /\ svc' = IF L.feeds = "once" THEN [svc EXCEPT !.serve = "exited"] ELSE svc
    /\ UNCHANGED <<conf, ln, udp, faults>>

-----------------------------------------------------------------------------
(* From the socket.                                                        *)

Feeding ==
    \/ L.feeds = "accept" /\ svc.serve = "accept"
    \/ L.feeds = "remote" /\ svc.serve = "waiting"
    \/ L.feeds \in {"loop", "server"} /\ ln.loop

\* What waits at a socket that is closed is reset.
Reset(cs) == [c \in Conns |-> IF cs[c].at = "backlog" THEN Gone ELSE cs[c]]

Arrive(c) ==
    /\ conn[c].at = "away" /\ ln.sock = "open"
    /\ L.feeds \in {"accept", "loop", "server", "remote"}
    /\ conn' = [conn EXCEPT ![c] = [at |-> "backlog", open |-> TRUE, slot |-> NoSlot]]
    /\ UNCHANGED <<conf, svc, ln, limiter, udp, faults>>

\* The admission of the listener closes what it refuses and goes on.
Refuse(c) ==
    /\ Feeding /\ L.admits /\ ln.sock = "open" /\ conn[c].at = "backlog"
    /\ conn' = [conn EXCEPT ![c] = Gone]
    /\ UNCHANGED <<conf, svc, ln, limiter, udp, faults>>

\* Mutant: the loop of a listener ends and does not tell.
FeederGetsQuietly(e, cs) ==
    CASE L.feeds = "accept" ->
           /\ svc' = GetsError(svc, e)
           /\ conn' = cs /\ UNCHANGED ln
      [] L.feeds = "remote" ->
           /\ svc' = GetsError(svc, "accept")
           /\ ln' = [ln EXCEPT !.sock = None]
           /\ conn' = Reset(cs)
      [] L.feeds = "loop" ->
           /\ ln' = [ln EXCEPT !.loop = FALSE]
           /\ conn' = cs /\ UNCHANGED svc
      [] L.feeds = "server" /\ e \in Temporary ->
           conn' = cs /\ UNCHANGED <<svc, ln>>
      [] OTHER ->
           /\ ln' = [ln EXCEPT !.loop = FALSE, !.sock = "closed",
                              !.err = IF L.tells THEN <<e>> ELSE @, !.done = @ \/ L.tells]
           /\ conn' = Reset(cs) /\ UNCHANGED svc
\* The accept of the feeder fails, with these connections left.
FeederGets(e, cs) ==
    CASE L.feeds = "accept" ->
           /\ svc' = GetsError(svc, e)
           /\ conn' = cs /\ UNCHANGED ln
      [] L.feeds = "remote" ->
           /\ svc' = GetsError(svc, "accept")
           /\ ln' = [ln EXCEPT !.sock = None]
           /\ conn' = Reset(cs)
      [] L.feeds = "loop" ->
           /\ ln' = [ln EXCEPT !.loop = FALSE, !.err = <<e>>, !.done = TRUE]
           /\ conn' = cs /\ UNCHANGED svc
      [] L.feeds = "server" /\ e \in Temporary ->
           conn' = cs /\ UNCHANGED <<svc, ln>>
      [] OTHER ->
           /\ ln' = [ln EXCEPT !.loop = FALSE, !.sock = "closed",
                              !.err = IF L.tells THEN <<e>> ELSE @, !.done = @ \/ L.tells]
           /\ conn' = Reset(cs) /\ UNCHANGED svc

\* A connection is accepted, within the limits or over them.
Feed(c) ==
    /\ Feeding /\ ln.sock = "open" /\ conn[c].at = "backlog"
    /\ LET l == Ask(c, "socket") IN
       IF ~l.ok
       THEN FeederGets("limit", [conn EXCEPT ![c] = Gone]) /\ limiter' = l.limiter
       ELSE IF L.feeds \in {"accept", "remote"}
       THEN Serves(c, l) /\ svc' = [svc EXCEPT !.serve = "accept"] /\ UNCHANGED ln
       ELSE /\ conn' = [conn EXCEPT ![c] = [@ EXCEPT !.at = "session", !.slot = l.slot]]
            /\ limiter' = l.limiter
            /\ UNCHANGED <<svc, ln>>
    /\ UNCHANGED <<conf, udp, faults>>

\* redirect: the packet tells no destination, or no socket is made for it.
BadPacket(c) ==
    /\ Feeding /\ L.fragile /\ conn[c].at = "backlog"
    /\ FeederGets("packet", [conn EXCEPT ![c] = Gone])
    /\ UNCHANGED <<conf, limiter, udp, faults>>

FeedFails ==
    /\ Feeding
    /\ \/ ln.sock = "closed" /\ FeederGets("closed", conn) /\ UNCHANGED faults
       \/ /\ ln.sock = "open" /\ faults > 0 /\ faults' = faults - 1
          /\ \E e \in {"temporary", "fatal"} : FeederGets(e, conn)
    /\ UNCHANGED <<conf, limiter, udp>>

-----------------------------------------------------------------------------
(* Sessions and the queue.                                                 *)

\* A stream or request of a session is queued, or closed when the queue is
\* full: of a connection that carries one, with the connection.
Stream(c) ==
    /\ conn[c].at = "session" /\ conn[c].open
    /\ IF Len(ln.queue) < Backlog
       THEN /\ ln' = [ln EXCEPT !.queue = Append(@, c)]
            /\ conn' = [conn EXCEPT ![c].at = "queued"]
            /\ UNCHANGED limiter
       ELSE Closed(c) /\ UNCHANGED ln
    /\ UNCHANGED <<conf, svc, udp, faults>>

\* The client leaves, or the session breaks.
SessionEnds(c) ==
    /\ L.mux /\ conn[c].open /\ conn[c].at \in {"session", "queued", "serving"}
    /\ conn' = [conn EXCEPT ![c] = IF @.at = "session" THEN Gone
                                   ELSE [@ EXCEPT !.open = FALSE, !.slot = NoSlot]]
    /\ limiter' = Release(limiter, {c})
    /\ UNCHANGED <<conf, svc, ln, udp, faults>>

\* Accept takes what is queued ...
AcceptQueued ==
    /\ svc.serve = "accept" /\ ln.queue # <<>>
    /\ LET c == Head(ln.queue)
           l == Ask(c, "accept")
       IN IF l.ok
          THEN Serves(c, l) /\ UNCHANGED svc
          ELSE /\ conn' = [conn EXCEPT ![c] = Gone] /\ limiter' = l.limiter
               /\ svc' = GetsError(svc, "limit")
    /\ ln' = [ln EXCEPT !.queue = Tail(@)]
    /\ UNCHANGED <<conf, udp, faults>>

\* ... or the error of the feeder, or finds the listener closed.
AcceptError ==
    /\ svc.serve = "accept"
    /\ \/ /\ ln.err # <<>>
          /\ svc' = GetsError(svc, Head(ln.err))
          /\ ln' = [ln EXCEPT !.err = Tail(@)]
       \/ /\ ln.closed \/ (ln.done /\ ln.err = <<>>)
          /\ svc' = GetsError(svc, "closed") /\ UNCHANGED ln
    /\ UNCHANGED <<conf, conn, limiter, udp, faults>>

-----------------------------------------------------------------------------
(* Remote bindings.                                                        *)

Bind ==
    /\ L.feeds = "remote" /\ svc.serve = "accept" /\ ~ln.closed
    /\ svc' = [svc EXCEPT !.serve = IF ln.sock = None THEN "binding" ELSE "bound"]
    /\ UNCHANGED <<conf, ln, conn, limiter, udp, faults>>

\* Router.Bind returns, long after.
BindReturns ==
    /\ svc.serve = "binding"
    /\ \/ /\ ln' = [ln EXCEPT !.sock = "open"]
          /\ svc' = [svc EXCEPT !.serve = "bound"] /\ UNCHANGED faults
       \/ /\ faults > 0 /\ faults' = faults - 1
          /\ svc' = GetsError(svc, "bind") /\ UNCHANGED ln
    /\ UNCHANGED <<conf, conn, limiter, udp>>

\* Mutant: the listener is not looked at again after it is bound.
BoundBlindly ==
    /\ svc.serve = "bound"
    /\ svc' = [svc EXCEPT !.serve = "waiting"]
    /\ UNCHANGED <<conf, ln, conn, limiter, udp, faults>>
\* The listener may have been closed before there was something to close.
Bound ==
    /\ svc.serve = "bound"
    /\ IF ln.closed
       THEN /\ ln' = [ln EXCEPT !.sock = "closed"]
            /\ conn' = Reset(conn)
            /\ svc' = GetsError(svc, "closed")
       ELSE svc' = [svc EXCEPT !.serve = "waiting"] /\ UNCHANGED <<ln, conn>>
    /\ UNCHANGED <<conf, limiter, udp, faults>>

-----------------------------------------------------------------------------
(* Devices and stdio.                                                      *)

\* The device is made and handed over: tun, tap and tungo queue it, serial
\* waits until Accept takes it.
Device(c) ==
    /\ L.feeds = "device" /\ ln.loop /\ conn[c].at = "away"
    /\ \A d \in Conns : conn[d].at \in {"away", "gone"}
    /\ conn' = [conn EXCEPT ![c] = [at |-> "queued", open |-> TRUE, slot |-> NoSlot]]
    /\ ln' = [ln EXCEPT !.queue = Append(@, c)]
    /\ UNCHANGED <<conf, svc, limiter, udp, faults>>

DeviceLoopEnds ==
    /\ L.feeds = "device" /\ ln.loop /\ ln.closed
    /\ Len(ln.queue) <= DeviceQueue(conf.kind)
    /\ ln' = [ln EXCEPT !.loop = FALSE]
    /\ UNCHANGED <<conf, svc, conn, limiter, udp, faults>>

\* The first Accept returns the standard streams, the next one waits.
AcceptOnce(c) ==
    /\ L.feeds = "once" /\ svc.serve = "accept"
    /\ \A d \in Conns : conn[d].at = "away"
    /\ conn' = [conn EXCEPT ![c] = [at |-> "serving", open |-> TRUE, slot |-> NoSlot]]
    /\ UNCHANGED <<conf, svc, ln, limiter, udp, faults>>

-----------------------------------------------------------------------------
(* The UDP listener.                                                       *)

Pooled(h) == udp.pool[h]
IsOpen(h) == Pooled(h) # None /\ conn[Pooled(h)].open

\* The loop of the listener is between two packets.
Reading == L.feeds = "packets" /\ ln.loop /\ udp.hand = None /\ udp.new = None

ReadFrom(h) ==
    /\ Reading /\ ln.sock = "open" /\ \E c \in conf.conns : Host[c] = h
    /\ udp' = [udp EXCEPT !.hand = h]
    /\ UNCHANGED <<conf, svc, ln, conn, limiter, faults>>

\* getConn finds the client, whose connection takes the data or discards it.
Packet(h) ==
    /\ udp.hand = h /\ IsOpen(h)
    /\ udp' \in {[udp EXCEPT !.hand = None],
                 [udp EXCEPT !.hand = None, !.idle = @ \ {Pooled(h)}]}
    /\ UNCHANGED <<conf, svc, ln, conn, limiter, faults>>

\* Mutant: a client that is known gets another connection.
NewClientAlways(c) ==
    /\ udp.hand = Host[c] /\ conn[c].at = "away" /\ Len(ln.queue) < Backlog
    /\ ln' = [ln EXCEPT !.queue = Append(@, c)]
    /\ conn' = [conn EXCEPT ![c] = [at |-> "queued", open |-> TRUE, slot |-> NoSlot]]
    /\ udp' = [udp EXCEPT !.hand = None, !.new = c]
    /\ UNCHANGED <<conf, svc, limiter, faults>>
\* A client that is not known: getConn queues a connection, and puts it in the
\* pool after, even when Close has been there by then ...
NewClient(c) ==
    /\ udp.hand = Host[c] /\ ~IsOpen(Host[c])
    /\ conn[c].at = "away" /\ Len(ln.queue) < Backlog
    /\ ln' = [ln EXCEPT !.queue = Append(@, c)]
    /\ conn' = [conn EXCEPT ![c] = [at |-> "queued", open |-> TRUE, slot |-> NoSlot]]
    /\ udp' = [udp EXCEPT !.hand = None, !.new = c]
    /\ UNCHANGED <<conf, svc, limiter, faults>>

PoolSet ==
    /\ udp.new # None
    /\ udp' = [udp EXCEPT !.pool[Host[udp.new]] = udp.new, !.new = None]
    /\ UNCHANGED <<conf, svc, ln, conn, limiter, faults>>

\* ... or discards it, when the queue is full (or no connection is left).
Discard(h) ==
    /\ udp.hand = h /\ ~IsOpen(h)
    /\ \/ Len(ln.queue) >= Backlog
       \/ \A c \in conf.conns : Host[c] = h => conn[c].at # "away"
    /\ udp' = [udp EXCEPT !.hand = None]
    /\ UNCHANGED <<conf, svc, ln, conn, limiter, faults>>

\* The loop finds that the listener is closed, or ReadFrom fails: what Close
\* closed, or an error of the socket, such as the deadline a handler has set on
\* the connection of a client, which is the socket's.
ReadFails ==
    /\ Reading
    /\ \/ /\ ln.closed /\ UNCHANGED faults
          /\ ln' = [ln EXCEPT !.loop = FALSE]
       \/ /\ ln.sock = "closed" /\ UNCHANGED faults
          /\ ln' = [ln EXCEPT !.loop = FALSE, !.err = <<"closed">>, !.done = TRUE]
       \/ /\ ln.sock = "open" /\ faults > 0 /\ faults' = faults - 1
          /\ \E e \in {"temporary", "fatal"} :
                ln' = [ln EXCEPT !.loop = FALSE, !.err = <<e>>, !.done = TRUE]
    /\ UNCHANGED <<conf, svc, conn, limiter, udp>>

Shuts(c) == conn' = [conn EXCEPT ![c].open = FALSE]

\* What a handler reads or writes: a write closes the connection, unless the
\* listener keeps it.
Traffic(c) ==
    /\ L.feeds = "packets" /\ conn[c].at = "serving" /\ conn[c].open
    /\ udp' = [udp EXCEPT !.idle = @ \ {c}]
    /\ UNCHANGED conn \/ (~conf.keepalive /\ Shuts(c))
    /\ UNCHANGED <<conf, svc, ln, limiter, faults>>

\* idleCheck comes to an entry of the pool, once more perhaps after Close ...
Check(h) ==
    /\ udp.check = None /\ Pooled(h) # None
    /\ udp' = [udp EXCEPT !.check = Pooled(h)]
    /\ UNCHANGED <<conf, svc, ln, conn, limiter, faults>>

\* ... and marks its connection, unless it is marked still: ...
CheckLooks ==
    /\ udp.check # None /\ udp.step = "look"
    /\ udp' = IF udp.check \in udp.idle THEN [udp EXCEPT !.step = "delete"]
              ELSE [udp EXCEPT !.idle = @ \cup {udp.check}, !.check = None]
    /\ UNCHANGED <<conf, svc, ln, conn, limiter, faults>>

\* ... then it deletes the entry, whatever it holds by now, ...
CheckDeletes ==
    /\ udp.step = "delete"
    /\ udp' = [udp EXCEPT !.pool[Host[udp.check]] = None, !.step = "close"]
    /\ UNCHANGED <<conf, svc, ln, conn, limiter, faults>>

\* ... and closes the connection.
CheckCloses ==
    /\ udp.step = "close"
    /\ udp' = [udp EXCEPT !.idle = @ \ {udp.check}, !.check = None, !.step = "look"]
    /\ Shuts(udp.check)
    /\ UNCHANGED <<conf, svc, ln, limiter, faults>>

-----------------------------------------------------------------------------
(* Close.                                                                  *)

\* The server closes its connections.
Cut == {c \in Conns : L.cuts /\ conn[c].open /\ conn[c].at \in {"session", "queued", "serving"}}
AfterCut ==
    [c \in Conns |-> IF c \notin Cut THEN conn[c]
                     ELSE IF conn[c].at = "session" THEN Gone
                     ELSE [conn[c] EXCEPT !.open = FALSE, !.slot = NoSlot]]

Shut(l) == [l EXCEPT !.sock = IF @ = "open" THEN "closed" ELSE @]

\* http2, h2 and http3: unless something is there already, Close stops the
\* server and sends what Accept returns.
CloseSends(l, e) ==
    IF l.err # <<>> THEN [l EXCEPT !.err = <<>>]
    ELSE IF l.done THEN l
    ELSE [Shut(l) EXCEPT !.err = <<e>>, !.done = TRUE]

\* What Close of the listener does at once.
CloseListener(l) ==
    CASE L.wakes \in {"socket", "nothing"} -> Shut(l)
      [] L.wakes = "sends" -> CloseSends(l, "closed")
      [] L.wakes = "nil" -> CloseSends(l, "nil")
      [] L.feeds = "remote" -> [l EXCEPT !.closed = TRUE]
      [] OTHER -> [Shut(l) EXCEPT !.closed = TRUE]

Close ==
    /\ svc.closing \in {"no", "done"} /\ svc.closes < MaxCloses
    /\ svc.serve \notin {"crashed", "exited"}
    /\ ln' = CloseListener(ln)
    /\ LET first == ln.sock # "closed" /\ ln'.sock = "closed" IN
       /\ conn' = IF first THEN Reset(AfterCut) ELSE conn
       /\ limiter' = IF first THEN Release(limiter, Cut) ELSE limiter
    /\ svc' = [svc EXCEPT !.closes = @ + 1,
                          !.closing = IF L.waits \/ (L.feeds \in {"remote", "packets"} /\ ~ln.closed)
                                      THEN "closing" ELSE "done"]
    /\ UNCHANGED <<conf, udp, faults>>

\* What Close does after: close what was bound, close the pool, or wait until
\* no request is left.
CloseReturns ==
    /\ svc.closing = "closing"
    /\ L.waits => \A c \in Conns : conn[c].at \notin {"queued", "serving"}
    /\ ln' = IF L.feeds = "remote" THEN Shut(ln) ELSE ln
    /\ conn' = CASE L.feeds = "remote" -> Reset(conn)
                 [] L.feeds = "packets" ->
                      [c \in Conns |-> [conn[c] EXCEPT !.open = @ /\ Pooled(Host[c]) # c]]
                 [] OTHER -> conn
    /\ svc' = [svc EXCEPT !.closing = "done"]
    /\ udp' = [udp EXCEPT !.closed = @ \/ L.feeds = "packets"]
    /\ UNCHANGED <<conf, limiter, faults>>

-----------------------------------------------------------------------------

Serving == AcceptQueued \/ AcceptError \/ Retry \/ Return \/ Bind \/ BindReturns \/ Bound
Checking == CheckLooks \/ CheckDeletes \/ CheckCloses
Looping == FeedFails \/ DeviceLoopEnds \/ PoolSet \/ ReadFails \/ Checking
GetConn == (\E h \in Hosts : Packet(h) \/ Discard(h)) \/ (\E c \in conf.conns : NewClient(c))

Next ==
    \/ Serving \/ Looping \/ Close \/ CloseReturns \/ Reload
    \/ \E c \in conf.conns :
         \/ Arrive(c) \/ Refuse(c) \/ Feed(c) \/ BadPacket(c) \/ Stream(c) \/ SessionEnds(c)
         \/ HandlerEnds(c) \/ Device(c) \/ AcceptOnce(c) \/ Traffic(c)
    \/ GetConn \/ \E h \in Hosts : ReadFrom(h) \/ Check(h)

\* Goroutines run, and a select with two cases that are ready takes each in
\* the end.  A handler ends when its connection is closed under it, or by its
\* timeouts when it answers a request of DNS over HTTPS; else only clients
\* end it.
Fairness ==
    /\ WF_vars(Serving) /\ WF_vars(AcceptError) /\ WF_vars(CloseReturns)
    /\ WF_vars(ln.sock = "closed" /\ FeedFails)
    /\ WF_vars(DeviceLoopEnds) /\ WF_vars(GetConn \/ PoolSet) /\ WF_vars(Checking)
    /\ WF_vars(ln.sock = "closed" /\ ReadFails)
    /\ \A c \in Conns :
         /\ WF_vars(Feed(c))
         /\ WF_vars((~conn[c].open \/ L.waits) /\ HandlerEnds(c))

Spec == Init /\ [][Next]_vars /\ Fairness

-----------------------------------------------------------------------------
(* Properties.                                                             *)

\* What ends a service although nobody closed it and nothing failed for good:
\* a connection over the limit is an error of Accept that is not temporary
\* (limiter/conn/wrapper/listener.go:42), and so is the packet that redirect
\* cannot take (listener/redirect/udp/listener_linux.go:163); and a temporary
\* error ends the loop of a listener, whose errChan then says closed
\* (listener/mtls/listener.go:119, internal/net/udp/listener.go:119).
StopsOnRefusal == svc.err \in {"limit", "packet"}
StopsOnTemporary == L.feeds \in {"loop", "packets"} /\ ~ln.loop /\ faults < MaxFaults

\* Serve stops only when the service was closed or its socket failed for
\* good, whatever temporary errors, failed bindings, refusals and full queues
\* come before, but for the exceptions above (service/service.go:218).
Survives ==
    svc.serve \in Ended =>
        \/ svc.closes > 0 \/ svc.err = "fatal"
        \/ StopsOnRefusal \/ StopsOnTemporary

\* The limits hold through any number of closes, sessions and reloads: each
\* limiter counts exactly the connections open that took a slot of it, and
\* never more than its limit (limiter/conn/limiter.go:24, :47).  A reload
\* starts from nothing, so that the limit is one per reload
\* (limiter/conn/conn.go:250).
LimitHolds ==
    \A g \in Gens, k \in Keys :
        /\ Limit(k) > 0 => limiter.count[g][k] <= Limit(k)
        /\ limiter.count[g][k] = Cardinality({c \in Conns :
               conn[c].open /\ conn[c].slot = g /\ Limit(k) > 0 /\ k \in {Host[c], "global"}})

\* What closes a connection of the UDP listener that is left alone: the idle
\* check and Close, when the pool has it or will have it, or the idle check
\* that is about to.
Reached(c) ==
    \/ ~udp.closed /\ (Pooled(Host[c]) = c \/ udp.new = c)
    \/ udp.check = c /\ udp.step # "look"

\* The idle check deletes the entry of the address, which may be another
\* connection than the one it looked at (internal/net/udp/pool.go:98).
DeletesAnother(c) == udp.step = "delete" /\ udp'.step = "close" /\ udp.check # c

\* getConn makes a connection, or has made one and not put it in the pool,
\* when Close closes the pool (internal/net/udp/listener.go:162-164).
MissedByClose(c) == udp'.closed /\ udp'.new = c

\* No open connection of the UDP listener gets out of reach: from getConn on
\* it stays where the idle check or Close will close it, whatever packets,
\* writes that close, checks and Close come in between, but for the two cases
\* above (internal/net/udp/listener.go:155, pool.go:58, :79).
PooledUntilClosed ==
    [][\A c \in Conns :
           L.feeds = "packets" /\ conn'[c].open /\ (conn[c].open => Reached(c))
               => Reached(c)' \/ DeletesAnother(c) \/ MissedByClose(c)]_vars

Listening ==
    CASE L.feeds \in {"accept", "remote"} -> ln.sock = "open"
      [] L.feeds = "device" -> ln.loop
      [] L.feeds = "once" -> TRUE
      [] OTHER -> ln.loop /\ ln.sock = "open"

\* A server whose error is only logged: nobody accepts, and the service says
\* it is ready (listener/http2/listener.go:122, listener/http3/h3/listener.go:75).
SilentlyDead == L.feeds = "server" /\ ~L.tells /\ ~ln.loop

\* A service that says it is ready listens: when the goroutine or the server
\* that accepts for it ends, for whatever reason, the service learns of it
\* and shows that it is closed, or listens again.
DeathShows ==
    ~Listening ~> \/ Listening \/ svc.up = "closed"
                  \/ svc.serve \in {"crashed", "exited"} \/ SilentlyDead

\* wt never tells Accept that it is closed (listener/http3/wt/listener.go:154);
\* http3 sends the error of the server's Close, which is nil, so that Accept
\* returns no connection and no error and Serve dereferences it
\* (listener/http3/listener.go:124, service/service.go:285).
NeverEnds == conf.kind \in {"wt", "http3"}

\* DNS over HTTPS: Close waits for a request in the queue that Serve has left
\* (listener/dns/server.go:61).
WaitsForNobody == L.waits /\ svc.serve \in Ended /\ ln.queue # <<>>

\* Close returns and ends the accept loop, whatever the loop, its feeder, the
\* bindings in flight and the queue are doing.
CloseEnds ==
    svc.closes > 0 ~> \/ svc.closing = "done" /\ svc.serve \in Ended
                      \/ svc.serve = "exited" \/ NeverEnds \/ WaitsForNobody

=============================================================================
