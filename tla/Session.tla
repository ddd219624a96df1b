------------------------------ MODULE Session ------------------------------
(***************************************************************************)
(* One proxied session: a client (a user behind a connector), the handler  *)
(* that serves its connection, and the target.  Handlers.tla and           *)
(* Connectors.tla say which calls the handler and the connector make; this *)
(* module says what each call does, and lets the peers misbehave: leave at *)
(* any point, fall silent, refuse, answer late.                            *)
(*                                                                         *)
(* Messages: "hello", "method", "req" of the handshakes; "bound", "ok" and *)
(* "no" are the answers; "c1", "c2" the user's requests and "s1", "s2" the *)
(* target's responses; "eof" the end of a stream, which stays readable.    *)
(***************************************************************************)
EXTENDS Handlers, Connectors, FiniteSets

\* The situations to look at.  prog: the handler's program; sniff: "off",
\* "timed" or "untimed" (sniffing.timeout); kind: what the user speaks; first:
\* who speaks first; hold: the relay handler sends its answer with the first
\* data; lazy: the relay connector sends its request with the first data;
\* fallback: sniffing.fallback; half: the user ends its side after its last
\* request and the connection to the target can ("cw") or cannot ("full") be
\* closed one way, or it does not ("no"); joined: a read may return the last data
\* together with the end of the stream, as TLS does; idle: a read timeout is set
\* for the copies that take one; request: the context of the client's connection
\* is that of a request, which is done when the client has left; calm: nothing is
\* refused, nobody leaves early or falls silent; slow: it takes longer than a
\* deadline that is set once.
CONSTANT Confs

VARIABLES
    conf,        \* the situation
    todo,        \* what is left of the handler's program
    h,           \* what the handler holds
    wire,        \* up, down: client and handler; out, in: handler and target
    client,      \* the connector and its user
    target,      \* the target, or its connection after a redial
    delivered    \* the requests targets have received, in order

vars == <<conf, todo, h, wire, client, target, delivered>>

Requests == <<"c1", "c2">>
Responses == <<"s1", "s2">>
IsData(m) == m \in {"c1", "c2", "s1", "s2"}

\* Programs that carry no user data themselves: the peers get connections of
\* their own, or there is only an answer.
NoTraffic == {"socks4_bind", "socks5_muxbind", "socks5_resolve", "relay_bind",
              "sshd_remote", "tunnel_bind", "router"}
\* One request per connection.
OneRequest == {"http2_forward", "http2_probe", "http3", "datagram"}

Exchanges ==
    CASE conf.prog \in NoTraffic -> 0
      [] conf.kind \in {"http", "h2", "ws", "frames", "mitm"} /\ conf.prog \notin OneRequest -> 2
      [] OTHER -> 1

ConnectorProgram(c) ==
    CASE c.prog \in {"socks4", "socks4_bind", "auto_socks4"} -> Socks4ConnectorConnect
      [] c.prog \in {"socks5", "socks5_resolve", "auto_socks5"} -> Socks5ConnectorConnect
      [] c.prog = "socks5_udp" -> Socks5ConnectorRelayUDP
      [] c.prog \in {"socks5_udptun", "socks5_udpbind"} -> Socks5ConnectorUDP
      [] c.prog = "socks5_bind" -> Socks5ListenerAccept
      [] c.prog = "socks5_muxbind" -> Socks5ConnectorBind
      [] c.prog \in {"relay", "relay_forward"} -> RelayConnectorConnect(~c.lazy)
      [] c.prog = "relay_bind" -> RelayConnectorBind
      [] c.prog = "relay_bindudp" -> RelayConnectorBindUDP
      [] c.prog = "ss" -> SsConnectorConnect
      [] c.prog = "ssu" -> SsuConnectorConnect
      [] c.prog \in {"http", "http_udp", "auto_http"} -> HttpConnectorConnect
      [] c.prog = "http2" -> Http2ConnectorConnect
      [] c.prog = "masque" -> MasqueConnectorTCP
      [] c.prog = "masque_udp" -> MasqueConnectorUDP
      [] c.prog \in {"tunnel", "ep_relay"} -> TunnelConnectorConnect
      [] c.prog = "tunnel_bind" -> TunnelConnectorBind
      [] c.prog = "router" -> RouterConnectorConnect
      [] c.prog = "sshd_remote" -> SshdConnectorBind
      [] OTHER -> PlainConnect

FreshTarget == [state |-> "on", got |-> 0, sent |-> 0, ended |-> FALSE]

Init ==
    /\ conf \in Confs
    /\ todo = Program[conf.prog]
    /\ h = [armed |-> FALSE, cur |-> 0, conn |-> "open", loose |-> FALSE,
            up |-> "none", own |-> FALSE, pool |-> FALSE, strays |-> 0,
            ln |-> "none", lnOwn |-> FALSE, held |-> FALSE, kept |-> <<>>,
            mid |-> <<>>, half |-> {}, failed |-> FALSE, rest |-> <<>>,
            seen |-> <<>>, over |-> FALSE]
    /\ wire = [up |-> <<>>, down |-> <<>>, out |-> <<>>, in |-> <<>>]
    /\ client = [todo |-> ConnectorProgram(conf), owed |-> <<>>, due |-> FALSE,
                 sent |-> 0, got |-> <<>>, verdict |-> "none", ended |-> FALSE,
                 state |-> "on"]
    /\ target = FreshTarget
    /\ delivered = <<>>

-----------------------------------------------------------------------------
(* The client.                                                             *)

\* The client closes its connection, knowing verdict v.
Leave(v) ==
    /\ client' = [client EXCEPT !.state = "gone", !.verdict = v]
    /\ wire' = [wire EXCEPT !.up = IF client.ended THEN @ ELSE Append(@, "eof"),
                            !.down = <<>>]

\* A "no" after "ok" is the response to a request.
Verdict(m) ==
    CASE m = "ok" -> "granted"
      [] m = "no" /\ client.verdict = "none" -> "refused"
      [] OTHER -> client.verdict

ConnectorPut ==
    /\ client.todo # <<>> /\ Head(client.todo).op = "put"
    /\ wire' = [wire EXCEPT !.up = Append(@, Head(client.todo).msg)]
    /\ client' = [client EXCEPT !.todo = Tail(@)]

\* How many messages a reader that is dropped takes from the connection.
Taken ==
    IF ~Head(client.todo).drops THEN {1}
    ELSE {k \in 1..Len(wire.down) : \A i \in 2..k : IsData(wire.down[i])}

ConnectorGet ==
    /\ client.todo # <<>> /\ Head(client.todo).op = "get" /\ wire.down # <<>>
    /\ IF Head(wire.down) = Head(client.todo).msg
       THEN \E k \in Taken :
              /\ wire' = [wire EXCEPT !.down = SubSeq(@, k + 1, Len(@))]
              /\ client' = [client EXCEPT !.todo = Tail(@),
                                          !.verdict = Verdict(Head(wire.down))]
       ELSE Leave(Verdict(Head(wire.down)))

ConnectorDefer ==
    /\ client.todo # <<>> /\ Head(client.todo).op \in {"later", "expect"}
    /\ client' = IF Head(client.todo).op = "later"
                 THEN [client EXCEPT !.todo = Tail(@), !.owed = <<Head(client.todo).msg>>]
                 ELSE [client EXCEPT !.todo = Tail(@), !.due = TRUE]
    /\ UNCHANGED wire

\* The user sends its next request when it has the response to the last, or
\* what the target says first.
UserSend ==
    /\ client.todo = <<>> /\ client.sent < Exchanges
    /\ Len(client.got) = client.sent + (IF conf.first = "server" THEN 1 ELSE 0)
    /\ LET last == client.sent + 1 = Exchanges /\ conf.half # "no"
       IN  /\ wire' = [wire EXCEPT !.up = @ \o client.owed
                                             \o <<Requests[client.sent + 1]>>
                                             \o (IF last THEN <<"eof">> ELSE <<>>)]
           /\ client' = [client EXCEPT !.sent = @ + 1, !.owed = <<>>, !.ended = last]

UserReceive ==
    /\ client.todo = <<>> /\ wire.down # <<>>
    /\ LET m == Head(wire.down)
       IN  IF (client.due /\ m = "ok") \/ (~client.due /\ IsData(m))
           THEN /\ wire' = [wire EXCEPT !.down = Tail(@)]
                /\ client' = [client EXCEPT !.due = FALSE, !.verdict = Verdict(m),
                                            !.got = IF IsData(m) THEN Append(@, m) ELSE @]
           ELSE Leave(Verdict(m))

UserDone ==
    /\ client.todo = <<>> /\ ~client.due
    /\ client.sent = Exchanges /\ Len(client.got) = Exchanges
    /\ Leave(client.verdict)

ClientStep ==
    /\ client.state = "on"
    /\ \/ ConnectorPut
       \/ ConnectorGet
       \/ ConnectorDefer
       \/ UserSend
       \/ UserReceive
       \/ UserDone
    /\ UNCHANGED <<conf, todo, h, target, delivered>>

-----------------------------------------------------------------------------
(* The target.                                                             *)

TargetReceive ==
    /\ wire.out # <<>>
    /\ wire' = [wire EXCEPT !.out = Tail(@)]
    /\ IF Head(wire.out) = "eof"
       THEN target' = [target EXCEPT !.ended = TRUE] /\ UNCHANGED delivered
       ELSE /\ target' = [target EXCEPT !.got = @ + 1]
            /\ delivered' = Append(delivered, Head(wire.out))

TargetReady ==
    /\ target.sent < Exchanges
    /\ target.sent < target.got + (IF conf.first = "server" THEN 1 ELSE 0)

TargetSend ==
    /\ TargetReady
    /\ wire' = [wire EXCEPT !.in = Append(@, Responses[target.sent + 1])]
    /\ target' = [target EXCEPT !.sent = @ + 1]
    /\ UNCHANGED delivered

TargetClose ==
    /\ target.ended /\ ~TargetReady
    /\ wire' = [wire EXCEPT !.in = Append(@, "eof")]
    /\ target' = [target EXCEPT !.state = "gone"]
    /\ UNCHANGED delivered

TargetStep ==
    /\ h.up # "none" /\ target.state = "on"
    /\ TargetReceive \/ TargetSend \/ TargetClose
    /\ UNCHANGED <<conf, todo, h, client>>

-----------------------------------------------------------------------------
(* The handler: what it sends, and how it returns.                         *)

\* ms written to the client, after the answer that was held back, by a handler
\* in state g.
ToClient(g, ms) ==
    IF client.state = "gone" THEN wire.down
    ELSE wire.down \o (IF g.held THEN <<"ok">> ELSE <<>>) \o ms

ToTarget(ms) == IF target.state = "gone" THEN <<>> ELSE wire.out \o ms

\* The handler returns, in state g, with wires w: the deferred calls run.  An
\* error of a sniffer with a fallback: its connection to the target is left and
\* what was captured is replayed.
Return(g, w, err) ==
    IF err /\ g.rest # <<>>
    THEN /\ todo' = g.rest
         /\ h' = [g EXCEPT !.rest = <<>>, !.kept = g.seen, !.seen = <<>>, !.half = {},
                           !.failed = FALSE, !.up = "none", !.own = FALSE,
                           !.strays = IF g.up = "open" /\ ~g.own THEN @ + 1 ELSE @]
         /\ wire' = [w EXCEPT !.out = <<>>, !.in = <<>>]
         /\ target' = FreshTarget
    ELSE /\ todo' = <<>>
         /\ h' = [g EXCEPT !.over = TRUE, !.armed = FALSE, !.cur = 0,
                           !.rest = <<>>, !.seen = <<>>, !.kept = <<>>, !.mid = <<>>,
                           !.conn = IF @ = "open" /\ ~g.loose THEN "closed" ELSE @,
                           !.up = IF @ = "open" /\ g.own THEN "closed" ELSE @,
                           !.ln = IF @ = "open" /\ g.lnOwn THEN "closed" ELSE @]
         /\ wire' = [w EXCEPT
                !.down = IF g.conn # "open" \/ g.loose \/ client.state = "gone" THEN @
                         ELSE Append(@, "eof"),
                !.out = IF g.up = "open" /\ g.own /\ target.state # "gone"
                        THEN Append(@, "eof") ELSE @]
         /\ UNCHANGED target

\* It answers no and reads the next request; the transport has closed the
\* connection that failed.
NextRequest ==
    /\ todo' = <<todo[Len(todo)]>>
    /\ h' = [h EXCEPT !.kept = <<>>, !.up = IF @ = "open" THEN "closed" ELSE @]
    /\ wire' = [wire EXCEPT !.down = ToClient(h, <<"no">>),
                            !.out = IF h.up = "open" THEN ToTarget(<<"eof">>) ELSE @]
    /\ UNCHANGED target

\* It returns after answering no.
Refuse(no) ==
    IF no = "next" THEN NextRequest
    ELSE Return(h, IF no = "" THEN wire ELSE [wire EXCEPT !.down = ToClient(h, <<no>>)], TRUE)

\* On to the next call, with the handler's state g and wires w.
Proceed(g, w) == todo' = Tail(todo) /\ h' = g /\ wire' = w /\ UNCHANGED target

Call == Head(todo)
Captured(m) == IF h.rest # <<>> THEN Append(h.seen, m) ELSE h.seen
NoListener == [h EXCEPT !.ln = IF @ = "open" THEN "closed" ELSE @]
MayFail == ~conf.calm

\* What follows a first message of an unknown protocol, or none.
Unknown ==
    IF Call.mode = "always" \/ (Call.mode = "fallback" /\ ~conf.fallback)
    THEN Return(h, wire, FALSE)
    ELSE Proceed(h, wire)

-----------------------------------------------------------------------------
(* The handler's calls.                                                    *)

DoCheck ==
    /\ Call.op = "check"
    /\ Proceed(h, wire) \/ (MayFail /\ Refuse(Call.no))

DoRead ==
    /\ Call.op \in {"read", "given"} /\ wire.up # <<>>
    /\ IF Head(wire.up) = (IF Call.op = "given" THEN "req" ELSE Call.msg)
       THEN Proceed(h, [wire EXCEPT !.up = Tail(@)])
       ELSE Return(h, wire, TRUE)

DoPeek ==
    /\ Call.op = "peek" /\ wire.up # <<>>
    /\ IF Head(wire.up) = "eof" THEN Return(h, wire, TRUE) ELSE Proceed(h, wire)

\* Arm, Clear, Count, Own, Loose
DoSet ==
    /\ Call.op \in {"arm", "clear", "count", "own", "loose"}
    /\ Proceed(CASE Call.op = "arm" -> [h EXCEPT !.armed = Call.timed]
                 [] Call.op = "clear" -> [h EXCEPT !.armed = FALSE]
                 [] Call.op = "count" -> [h EXCEPT !.cur = @ + 1]
                 [] Call.op = "own" -> [h EXCEPT !.own = TRUE]
                 [] Call.op = "loose" -> [h EXCEPT !.loose = TRUE],
               wire)

DoDial ==
    /\ Call.op = "dial"
    /\ IF h.up = "open" THEN Proceed(h, wire)
       ELSE \/ Proceed([h EXCEPT !.up = "open", !.own = Call.keep = "defer",
                                 !.pool = Call.keep = "pool"], wire)
            \/ MayFail /\ Refuse(Call.no)

\* A write to a client that has left may fail; the listener is closed then.
DoSay ==
    /\ Call.op \in {"say", "granted"}
    /\ \/ IF Call.op = "granted" /\ Call.mayHold /\ conf.hold
          THEN Proceed([h EXCEPT !.held = TRUE], wire)
          ELSE Proceed(h, [wire EXCEPT !.down =
                    ToClient(h, <<IF Call.op = "granted" THEN "ok" ELSE Call.msg>>)])
       \/ client.state = "gone" /\ Return(NoListener, wire, TRUE)

DoSniff ==
    /\ Call.op = "sniff"
    /\ IF conf.sniff = "off" /\ Call.mode # "always" THEN Proceed(h, wire)
       ELSE /\ wire.up # <<>>
            /\ IF Head(wire.up) # "eof" /\ Proto(conf.kind) \in Call.protos
               THEN /\ todo' = Sniffer[Call.by][conf.kind]
                    /\ h' = [h EXCEPT !.own = @ /\ Call.mode # "disown",
                                      !.rest = IF Call.mode = "fallback" /\ conf.fallback
                                               THEN Tail(todo) ELSE <<>>]
                    /\ UNCHANGED <<wire, target>>
               ELSE Unknown

DoDatagram ==
    /\ Call.op = "datagram"
    /\ IF conf.sniff = "off" THEN Proceed(h, wire)
       ELSE /\ wire.up # <<>>
            /\ IF Head(wire.up) = "eof" THEN Return(h, wire, TRUE)
               ELSE \/ Proceed([h EXCEPT !.kept = <<Head(wire.up)>>],
                               [wire EXCEPT !.up = Tail(@)])
                    \/ conf.kind = "quic" /\ MayFail /\ Return(h, wire, TRUE)

DoParse ==
    /\ Call.op = "parse" /\ wire.up # <<>>
    /\ IF Head(wire.up) = "eof" THEN Return(h, wire, FALSE)
       ELSE Proceed([h EXCEPT !.kept = Append(@, Head(wire.up)),
                              !.seen = Captured(Head(wire.up))],
                    [wire EXCEPT !.up = Tail(@)])

DoFlush ==
    /\ Call.op = "flush"
    /\ Proceed([h EXCEPT !.kept = <<>>], [wire EXCEPT !.out = ToTarget(h.kept)])

Awaits == Call.always \/ (conf.sniff # "off" /\ conf.kind = "quic")

\* An error is kept for the end of the relay.
DoAwait ==
    /\ Call.op = "await"
    /\ IF ~Awaits THEN Proceed(h, wire)
       ELSE /\ wire.in # <<>>
            /\ \/ Proceed([h EXCEPT !.failed = Head(wire.in) = "eof"], wire)
               \/ client.state = "gone" /\ Return(h, wire, TRUE)

\* The response may say that the connection ends with it.
DoRespond ==
    /\ Call.op = "respond" /\ wire.in # <<>>
    /\ IF Head(wire.in) = "eof" THEN Refuse(Call.no)
       ELSE LET g == [h EXCEPT !.held = FALSE]
                w == [wire EXCEPT !.in = Tail(@), !.down = ToClient(h, <<Head(wire.in)>>)]
            IN  \/ Proceed(g, w)
                \/ MayFail /\ Return(g, w, client.state = "gone")

DoUpgrade ==
    /\ Call.op = "upgrade"
    /\ IF conf.kind \in {"ws", "frames"}
       THEN /\ todo' = IF conf.kind = "ws" THEN Call.stream ELSE Call.frames
            /\ UNCHANGED <<h, wire, target>>
       ELSE Proceed(h, wire)

DoAgain ==
    /\ Call.op = "again"
    /\ todo' = Call.loop \o todo
    /\ UNCHANGED <<h, wire, target>>

DoListen ==
    /\ Call.op = "listen"
    /\ \/ Proceed([h EXCEPT !.ln = "open", !.lnOwn = Call.keep = "defer"], wire)
       \/ MayFail /\ Refuse(Call.no)

\* serveBind: whichever comes first, a peer or the client's end.  The answer to
\* a failed accept goes through the pipe that is about to be closed; a peer
\* accepted as the client leaves has no reader.
DoAccept ==
    /\ Call.op = "accept"
    /\ LET closed == NoListener
       IN  \/ Proceed([closed EXCEPT !.up = "open", !.own = TRUE], wire)
           \/ /\ MayFail
              /\ \E ms \in {<<>>, <<"no">>} :
                   Return(closed, [wire EXCEPT !.down = ToClient(h, ms)], TRUE)
           \/ /\ wire.up # <<>> /\ Head(wire.up) = "eof"
              /\ \E up \in {"none", "open"} :
                   Return([closed EXCEPT !.up = up], wire, FALSE)

\* Hold, HandOver
DoHold ==
    /\ Call.op = "hold" /\ wire.up # <<>> /\ Head(wire.up) = "eof"
    /\ Return(NoListener, wire, FALSE)

DoHandOver == Call.op = "handover" /\ Return([h EXCEPT !.conn = "handed"], wire, FALSE)

-----------------------------------------------------------------------------
(* The relays.                                                             *)

Side(s) == IF s # "sniffed" THEN s ELSE IF conf.sniff = "off" THEN "conn" ELSE "rw"
OneWay(s) == Side(s) \in {"conn", "rw"} /\ conf.half # "full"
TakesDeadline(s) == Side(s) \in {"conn", "stream"}
EndToTarget == IF h.up = "open" THEN ToTarget(<<"eof">>) ELSE wire.out

\* halfClose after the copy from the client ended: the other copy gets a read
\* deadline, or its connection is closed where one way cannot be.
HalfCloseUp ==
    IF OneWay(Call.target)
    THEN /\ h' = [h EXCEPT !.half = @ \cup {"up"}]
         /\ wire' = [wire EXCEPT !.out = EndToTarget]
    ELSE /\ h' = [h EXCEPT !.half = @ \cup {"up"}, !.up = "closed"]
         /\ wire' = [wire EXCEPT !.in = <<"eof">>, !.out = EndToTarget]

HalfCloseDown ==
    IF OneWay(Call.client)
    THEN /\ h' = [h EXCEPT !.half = @ \cup {"down"}, !.held = FALSE]
         /\ wire' = [wire EXCEPT !.down = ToClient(h, <<"eof">>)]
    ELSE /\ h' = [h EXCEPT !.half = @ \cup {"down"}, !.conn = "closed"]
         /\ wire' = [wire EXCEPT !.up = <<"eof">>, !.down = ToClient(h, <<"eof">>)]

\* One read and one write of each copy.
CopyUp ==
    /\ "up" \notin h.half
    /\ \/ /\ h.kept # <<>>
          /\ h' = [h EXCEPT !.kept = Tail(@)]
          /\ wire' = [wire EXCEPT !.out = ToTarget(<<Head(h.kept)>>)]
       \/ /\ h.kept = <<>> /\ wire.up # <<>> /\ Head(wire.up) # "eof"
          /\ h' = [h EXCEPT !.seen = Captured(Head(wire.up))]
          /\ wire' = [wire EXCEPT !.up = Tail(@), !.out = ToTarget(<<Head(wire.up)>>)]

CopyDown ==
    /\ "down" \notin h.half /\ wire.in # <<>> /\ Head(wire.in) # "eof"
    /\ h' = [h EXCEPT !.held = FALSE]
    /\ wire' = [wire EXCEPT !.in = Tail(@), !.down = ToClient(h, <<Head(wire.in)>>)]

\* pipeHalf does not write what a read returns together with the end.
LastWithEnd(w) == conf.joined /\ Len(w) = 2 /\ w[2] = "eof" /\ w[1] # "eof"
LosesLast ==
    \/ /\ "up" \notin h.half /\ h.kept = <<>> /\ LastWithEnd(wire.up)
       /\ h' = [h EXCEPT !.seen = Captured(Head(wire.up))]
       /\ wire' = [wire EXCEPT !.up = Tail(@)]
    \/ /\ "down" \notin h.half /\ LastWithEnd(wire.in)
       /\ wire' = [wire EXCEPT !.in = Tail(@)]
       /\ UNCHANGED h

\* The context is done: Pipe closes both connections, unless the copies notice
\* before.
Cancelled == conf.request /\ client.state = "gone"
ForceClose ==
    /\ h.conn = "open" \/ h.up = "open"
    /\ h' = [h EXCEPT !.conn = "closed", !.up = "closed", !.kept = <<>>]
    /\ wire' = [wire EXCEPT !.up = <<"eof">>, !.in = <<"eof">>, !.out = EndToTarget]

\* Mutant: the end of the client's stream is not noticed.
UpEndsUnnoticed == h.kept = <<>> /\ wire.up # <<>> /\ target.state = "gone"

\* A copy ends at the end of its source, or when it cannot write.
UpEnds ==
    /\ h.kept = <<>> /\ wire.up # <<>>
    /\ Head(wire.up) = "eof" \/ target.state = "gone"
DownEnds ==
    /\ wire.in # <<>>
    /\ Head(wire.in) = "eof" \/ client.state = "gone"

\* pipeHalf in both directions, until both have ended.
DoPipe ==
    /\ Call.op = "pipe"
    /\ \/ /\ \/ CopyUp
             \/ CopyDown
             \/ LosesLast
             \/ "up" \notin h.half /\ (UpEnds \/ Cancelled) /\ HalfCloseUp
             \/ "down" \notin h.half /\ (DownEnds \/ Cancelled) /\ HalfCloseDown
             \/ Cancelled /\ ForceClose
          /\ UNCHANGED <<todo, target>>
       \/ h.half = {"up", "down"} /\ Return(h, wire, h.failed)

\* Relay.Run: the first error of either direction ends both.
DoRelay ==
    /\ Call.op = "relay"
    /\ \/ (CopyUp \/ CopyDown) /\ UNCHANGED <<todo, target>>
       \/ (UpEnds \/ DownEnds) /\ Return(h, wire, FALSE)

\* Beside the relay the client's connection is read to its end, which is the
\* end of the session.
DoAssociate ==
    /\ Call.op = "associate"
    /\ \/ (CopyUp \/ CopyDown) /\ UNCHANGED <<todo, target>>
       \/ UpEnds /\ Head(wire.up) = "eof" /\ Return(h, wire, FALSE)

\* net.Pipe closes both ways at once: what the first relay has handed to the
\* second is lost when the first ends, and the client's end stops the answers.
DoPipeTwice ==
    /\ Call.op = "pipetwice"
    /\ \/ (CopyUp \/ LosesLast) /\ UNCHANGED <<todo, target>>
       \/ /\ h.mid = <<>> /\ "up" \notin h.half
          /\ wire.in # <<>> /\ Head(wire.in) # "eof"
          /\ h' = [h EXCEPT !.mid = <<Head(wire.in)>>]
          /\ wire' = [wire EXCEPT !.in = Tail(@)]
          /\ UNCHANGED <<todo, target>>
       \/ /\ h.mid # <<>>
          /\ h' = [h EXCEPT !.mid = <<>>]
          /\ wire' = [wire EXCEPT !.down = ToClient(h, h.mid)]
          /\ UNCHANGED <<todo, target>>
       \/ "up" \notin h.half /\ UpEnds /\ HalfCloseUp /\ UNCHANGED <<todo, target>>
       \/ /\ Cancelled \/ (wire.in # <<>> /\ (Head(wire.in) = "eof" \/ "up" \in h.half))
          /\ Return(h, wire, FALSE)

HandlerStep ==
    /\ todo # <<>>
    /\ \/ DoCheck \/ DoRead \/ DoPeek \/ DoSet \/ DoDial \/ DoSay \/ DoSniff
       \/ DoDatagram \/ DoParse \/ DoFlush \/ DoAwait \/ DoRespond \/ DoUpgrade \/ DoAgain
       \/ DoListen \/ DoAccept \/ DoHold \/ DoHandOver
       \/ DoPipe \/ DoRelay \/ DoAssociate \/ DoPipeTwice
    /\ UNCHANGED <<conf, client, delivered>>

\* A program with nothing left to do has returned.
HandlerReturns ==
    /\ todo = <<>> /\ ~h.over
    /\ Return(h, wire, FALSE)
    /\ UNCHANGED <<conf, client, delivered>>

-----------------------------------------------------------------------------
(* Deadlines.                                                              *)

\* The deadline of a client of the UDP listener is that of the listener's
\* socket, and does not end its read.
DatagramTimed == conf.sniff = "timed" /\ conf.prog # "udp"

\* A read has waited for its deadline.
ReadExpires ==
    /\ Call.op \in {"read", "peek", "parse"} /\ h.armed /\ wire.up = <<>>
    /\ Return(h, wire, TRUE)

SniffExpires ==
    /\ Call.op = "sniff" /\ wire.up = <<>>
    /\ h.armed \/ conf.sniff = "timed"
    /\ Unknown

DatagramExpires ==
    /\ Call.op = "datagram" /\ DatagramTimed /\ wire.up = <<>>
    /\ Return(h, wire, TRUE)

AwaitExpires ==
    /\ Call.op = "await" /\ Awaits /\ wire.in = <<>>
    /\ Call.always \/ conf.sniff = "timed"
    /\ Proceed([h EXCEPT !.failed = TRUE], wire)

RespondExpires ==
    /\ Call.op = "respond" /\ Call.timed /\ wire.in = <<>>
    /\ Refuse(Call.no)

\* The read timeout is set anew before every read.
Idles(s) == Call.idle /\ conf.idle /\ TakesDeadline(s)
UpExpires == "up" \notin h.half /\ h.kept = <<>> /\ HalfCloseUp /\ UNCHANGED <<todo, target>>
DownExpires ==
    /\ "down" \notin h.half
    /\ IF Call.op = "pipe" THEN HalfCloseDown /\ UNCHANGED <<todo, target>>
       ELSE Return(h, wire, FALSE)

PipeIdles ==
    /\ Call.op = "pipe"
    /\ \/ Idles(Call.client) /\ wire.up = <<>> /\ UpExpires
       \/ Idles(Call.target) /\ wire.in = <<>> /\ DownExpires

\* The deadline of halfClose, or one that was never cleared, which a read does
\* not outlive whatever has come.
PipeExpires ==
    /\ Call.op \in {"pipe", "pipetwice"}
    /\ \/ /\ ~Idles(Call.client)
          /\ h.armed \/ ("down" \in h.half /\ TakesDeadline(Call.client))
          /\ UpExpires
       \/ /\ ~Idles(Call.target)
          /\ "up" \in h.half /\ TakesDeadline(Call.target)
          /\ DownExpires

\* The deadlines are long: where everyone behaves and is not slow, one passes
\* only when nobody has anything to do.
Expire ==
    /\ todo # <<>>
    /\ \/ /\ conf.calm => ~ENABLED (ClientStep \/ TargetStep \/ HandlerStep)
          /\ \/ ReadExpires \/ SniffExpires \/ DatagramExpires \/ AwaitExpires
             \/ RespondExpires \/ PipeIdles \/ PipeExpires
       \/ conf.slow /\ PipeExpires
    /\ UNCHANGED <<conf, client, delivered>>

-----------------------------------------------------------------------------
(* Faults.                                                                 *)

ClientFails ==
    /\ MayFail /\ client.state = "on" /\ ~h.over
    /\ \/ Leave(client.verdict)
       \/ client' = [client EXCEPT !.state = "mute"] /\ UNCHANGED wire
    /\ UNCHANGED <<conf, todo, h, target, delivered>>

TargetFails ==
    /\ MayFail /\ target.state = "on" /\ h.up = "open" /\ ~h.over
    /\ \/ /\ target' = [target EXCEPT !.state = "gone"]
          /\ wire' = [wire EXCEPT !.in = Append(@, "eof"), !.out = <<>>]
       \/ target' = [target EXCEPT !.state = "mute"] /\ UNCHANGED wire
    /\ UNCHANGED <<conf, todo, h, client, delivered>>

Next ==
    \/ ClientStep
    \/ TargetStep
    \/ HandlerStep
    \/ HandlerReturns
    \/ Expire
    \/ ClientFails
    \/ TargetFails

Spec ==
    /\ Init /\ [][Next]_vars
    /\ WF_vars(ClientStep) /\ WF_vars(TargetStep)
    /\ WF_vars(HandlerStep) /\ WF_vars(HandlerReturns) /\ WF_vars(Expire)

-----------------------------------------------------------------------------
(* Properties.                                                             *)

Over == h.over
Sniffs == conf.sniff # "off"

\* Connections to the target that nobody closes: HandleHTTP never closes the one
\* it dialled, and the handlers that let it dial do not either; the HTTP handler
\* leaves its connection to the sniffer also where that returns before it has
\* taken it over; a peer may be accepted as the client of a bind leaves.
LeavesUpstream ==
    \/ /\ conf.kind \in {"http", "ws", "frames"} /\ (Sniffs \/ conf.prog = "sni")
       /\ conf.prog \in {"http", "auto_http", "sni", "tcp", "rtcp", "red"}
    \/ conf.prog \in {"http", "auto_http"} /\ Sniffs /\ delivered = <<>>
    \/ conf.prog = "socks5_bind"

\* When a handler has returned, whatever happened, nothing it opened for the
\* session is still open: not the client's connection, unless it was handed over
\* (auto leaves it open after sniffing TLS); not the connection to the target,
\* unless a transport keeps it (sniffed HTTP is the exception, above); not the
\* listener of a bind (muxBindLocal leaves it when its session fails).
NothingLeftOpen ==
    Over =>
      /\ h.conn = "open" => conf.prog = "auto_tls"
      /\ h.up = "open" => h.pool \/ LeavesUpstream
      /\ h.strays > 0 => LeavesUpstream
      /\ h.ln = "open" => conf.prog = "socks5_muxbind"

\* Handlers that set no read deadline for the request, or none by default.
Untimed ==
    {"ss", "ssu", "http", "http_udp", "http_proxy", "http_probe", "http2",
     "http2_forward", "http2_probe", "http3", "masque", "masque_udp", "auto_socks4",
     "auto_socks5", "auto_http", "auto_tls", "tunnel", "tunnel_bind", "router", "datagram",
     "ep_relay", "ep_tls", "ep_http"}

\* The handler waits for one message.
Waiting ==
    /\ todo # <<>>
    /\ Call.op \in {"read", "given", "peek", "sniff", "datagram", "parse", "await", "respond"}

\* ... and nothing bounds the wait: a request where the handler sets no deadline;
\* a first message where no sniffing timeout is set; the next request of a
\* connection; the target's first datagram for QUIC; an HTTP/2 response.
Unbounded ==
    \/ Call.op \in {"read", "given", "peek", "parse"} /\ conf.prog \in Untimed
    \/ Call.op = "sniff" /\ ~h.armed /\ conf.sniff # "timed"
    \/ Call.op = "datagram" /\ ~DatagramTimed
    \/ Call.op = "parse" /\ ~h.armed
    \/ Call.op = "await" /\ ~Call.always /\ conf.sniff # "timed"
    \/ Call.op = "respond" /\ ~Call.timed

\* A peer that falls silent in the middle of a handshake or of a round trip
\* does not keep the handler for ever, but for the waits listed above: the
\* deadlines the handlers set are in force where they wait.
WaitsEnd == (Waiting /\ ~Unbounded) ~> ~(Waiting /\ ~Unbounded)

\* halfClose finds no deadline to set on the target's end of an upgraded
\* connection, which is a reader and a writer put together.
NoDeadline ==
    /\ todo # <<>> /\ Call.op = "pipe"
    /\ "up" \in h.half /\ OneWay(Call.target) /\ ~TakesDeadline(Call.target)

\* A session does not outlive its client: when the client has left, the handler
\* returns, whatever it was doing and whatever the target does, except where it
\* waits for the target without a deadline.
SessionEnds ==
    client.state = "gone" ~>
      \/ Over
      \/ Waiting /\ Unbounded /\ (target.state = "mute" \/ Call.op = "await")
      \/ NoDeadline /\ target.state = "mute"

\* A handler comes back: the deadlines it sets are in force where it waits for
\* a peer that falls silent, and it returns once its client has left, but for
\* the waits the code leaves without a deadline.
HandlersReturn == WaitsEnd /\ SessionEnds

\* Programs whose relay ends with the client's stream.
EndsWithClient ==
    {"socks5_bind", "socks5_udp", "socks5_udptun", "socks5_udpbind", "relay_bindudp",
     "ssu", "http_udp", "masque_udp"}

\* Conversations the handlers do not carry.  Each side waits for the other: a
\* relay answer that is held for the target's first data with a connector that
\* waits for it, or a request held for the user's first data where the target
\* speaks first; a sniffer that waits for the client's first data without a
\* deadline where the target speaks first, or for the target's first datagram
\* before it sends the client's.  A protocol that sni or redirect cannot forward.
\* What follows the HTTP answer at once goes with the connector's reader.  A
\* user that ends its side early, where the relay takes that for the end; whose
\* last data a read returns together with that end; or who then waits longer
\* than the deadline of halfClose, which no read timeout replaces.  A slow
\* session of sni, whose deadline for the first message stays set.  A user that
\* leaves with its last data, where that is the end of the context.
Unserved ==
    \/ /\ conf.prog \in {"relay", "relay_forward"}
       /\ IF conf.lazy THEN conf.first = "server" ELSE conf.hold /\ conf.first = "client"
    \/ conf.sniff = "untimed" /\ (conf.first = "server" \/ conf.kind = "quic")
    \/ conf.prog = "sni" /\ conf.kind = "other"
    \/ conf.prog = "red" /\ Sniffs /\ ~conf.fallback /\ conf.kind \in {"redis", "other"}
    \/ conf.prog \in {"http", "auto_http", "http_udp"} /\ conf.first = "server"
    \/ conf.half = "full" /\ conf.first = "client"
    \/ /\ conf.half = "cw" /\ conf.first = "client"
       /\ conf.prog \in EndsWithClient \/ conf.kind = "frames"
    \/ conf.half = "cw" /\ conf.joined
    \/ conf.slow /\ conf.half = "cw" /\ conf.first = "client" /\ (conf.idle => Sniffs)
    \/ conf.slow /\ conf.prog = "sni"
    \/ conf.request /\ conf.first = "server"

\* Where nothing is refused and nobody fails, both peers get everything the other
\* has to say, through every handler and its connector, sniffed or not, also when
\* the user ends its side early, but for the conversations above: no handler
\* waits for what its peer will only send later, or ends too soon.
Served ==
    (conf.calm /\ ~Unserved) ~>
      /\ client.sent = Exchanges /\ Len(client.got) = Exchanges
      /\ Len(delivered) >= Exchanges

\* Handlers that answer 200 before they have a route, and handlers whose
\* refusals are responses to a request the target may have heard.
VerdictIsLate ==
    conf.prog \in {"http_udp", "http2", "http2_forward", "http2_probe", "http3", "masque",
                   "masque_udp", "http_proxy", "http_probe", "tcp", "rtcp", "ep_http"}

\* A fallback replays to a second target what the first has heard.
Replays == conf.prog = "red" /\ conf.fallback

Promise == INSTANCE ProxySession WITH
    route <- h.up # "none" /\ ~Replays,
    verdict <- IF VerdictIsLate THEN "none" ELSE client.verdict,
    asked <- SubSeq(Requests, 1, client.sent),
    heard <- IF Replays THEN <<>> ELSE delivered,
    answered <- IF Replays THEN <<>> ELSE SubSeq(Responses, 1, target.sent),
    received <- IF Replays THEN <<>> ELSE client.got

\* Every handler with its connector keeps the promise of a proxied session, but
\* for the verdicts and the replays named above.
KeepsPromise == Promise!Spec

=============================================================================
