------------------------------ MODULE Handlers ------------------------------
(***************************************************************************)
(* What a handler does with an accepted connection, and what a connector   *)
(* does with a connection to a proxy, as programs: sequences of the calls  *)
(* that matter to the peers, in the order of the code.  Session.tla says   *)
(* what each call does.  A definition is named after the function it       *)
(* translates; a function that calls another is followed by it.            *)
(*                                                                         *)
(* A call that can refuse the request carries the answer the client gets:  *)
(* "no" for a refusal it can read, "" for none (the connection is just     *)
(* closed), "next" for a refusal after which the next request is read.     *)
(***************************************************************************)
EXTENDS Sequences, Naturals

\* A condition that ends the session when it does not hold.
Check(what, no) == [op |-> "check", what |-> what, no |-> no]
\* Read message m from the client.  Given: the listener has read it.
Read(m) == [op |-> "read", msg |-> m]
Given == [op |-> "given"]
\* Wait for the client's first byte, without consuming it.
Peek == [op |-> "peek"]
\* Set the read deadline of the client's connection, when the default or the
\* configured timeout is positive; clear it.
Arm(md) == [op |-> "arm", timed |-> md.readTimeout > 0]
Clear == [op |-> "clear"]
\* Count the connection, with a deferred decrement.
Count == [op |-> "count"]
\* Get the connection to the target, or the socket its packets go through.
\* keep: "defer" (deferred Close), "open", or "pool" (a transport keeps it).
\* Void when the session has one, as for the dial functions that return it.
Dial(no, keep) == [op |-> "dial", no |-> no, keep |-> keep]
\* A deferred Close of that connection.
Own == [op |-> "own"]
\* Say message m.  Granted is the positive answer; where it may be held back
\* until there is data to send with it, Granted is late.
Say(m) == [op |-> "say", msg |-> m]
Granted(mayHold) == [op |-> "granted", mayHold |-> mayHold]
\* Peek at the client's first message and hand over to a sniffer for a protocol
\* it knows.  mode: "keep"; "disown", the deferred Close of the connection to
\* the target is skipped then; "always", also where sniffing is not configured,
\* and any other protocol ends the session; "fallback", what the sniffer read is
\* captured, and replayed where a fallback is configured.
Sniff(by, protos, mode) ==
    [op |-> "sniff", by |-> by, protos |-> protos, mode |-> mode]
\* The same where the first message is a datagram, which is kept; QUIC is refused
\* where its server name is bypassed.
Datagram == [op |-> "datagram"]
\* Copy in both directions: a stream until both sides end, packets until one
\* does, a stream through a pair of pipes, packets beside a client connection.
\* An end is a connection ("conn"); a reader and a writer put together, which
\* takes no deadline ("rw"; where something is sniffed, "sniffed"); a stream of
\* HTTP/3, which cannot be closed one way ("stream"); or neither, a body of
\* HTTP/2 or a client of the UDP listener ("body").  idle: with a read timeout,
\* where one is configured.
PipeOf(client, target, idle) ==
    [op |-> "pipe", client |-> client, target |-> target, idle |-> idle]
Pipe == PipeOf("conn", "conn", FALSE)
IdlePipe == PipeOf("conn", "conn", TRUE)
Relay == [op |-> "relay"]
PipeTwice == [op |-> "pipetwice", client |-> "conn", target |-> "conn", idle |-> FALSE]
Associate == [op |-> "associate"]
\* Read a message and keep it; write what was kept to the target.
Parse == [op |-> "parse"]
Flush == [op |-> "flush"]
\* Wait for the target's first message: always with a deadline, or with one
\* only where a sniffing timeout is set.
Await(always) == [op |-> "await", always |-> always]
\* Wait for the response to a request, with a deadline or without, and pass it
\* on.
Respond(no, timed) == [op |-> "respond", no |-> no, timed |-> timed]
\* Where the response changes the protocol, go on with one of these.
Upgrade(stream, frames) == [op |-> "upgrade", stream |-> stream, frames |-> frames]
\* Start over.
Again(loop) == [op |-> "again", loop |-> loop]
\* Listen for peers; accept one while the client stays; serve them until the
\* client leaves; leave the client's connection to another owner.
Listen(no, keep) == [op |-> "listen", no |-> no, keep |-> keep]
Accept == [op |-> "accept"]
Hold == [op |-> "hold"]
HandOver == [op |-> "handover"]
\* No deferred Close of the client's connection.
Loose == [op |-> "loose"]

Rate == Check("rate", "")

-----------------------------------------------------------------------------
(* Metadata: the timeouts a handler works with when none is configured, in *)
(* seconds; 0 is none.                                                     *)

Socks4Metadata == [readTimeout |-> 15, sniffingTimeout |-> 0]
Socks5Metadata == [readTimeout |-> 15, sniffingTimeout |-> 0]
RelayMetadata == [readTimeout |-> 15, sniffingTimeout |-> 0]
SniMetadata == [readTimeout |-> 15]
TunnelMetadata == [readTimeout |-> 0]
RouterMetadata == [readTimeout |-> 0]

-----------------------------------------------------------------------------
(* Sniffers: internal/util/sniffing, internal/util/forwarder, unix.        *)

\* The response cache of the sniffers is off, and the requests of a connection
\* are for one host, so that it is dialled once.

\* One request and its response.
RoundTrip(no) == <<Flush, Respond(no, TRUE)>>

\* After 101: a copy of the stream, or of its frames where they are recorded.
SniffingWebsocketFrame == <<Relay>>
HandleUpgradeResponse == Upgrade(<<PipeOf("rw", "conn", FALSE)>>, SniffingWebsocketFrame)

SniffingRoundTrip == RoundTrip("") \o <<HandleUpgradeResponse>>

HandleHTTP ==
    <<Parse, Check("bypass", ""), Dial("", "open")>> \o SniffingRoundTrip
      \o <<Again(<<Parse>> \o SniffingRoundTrip)>>

\* HTTP/2 in the clear, by a server and a transport of the library; the
\* connections of the transport are closed when the client's ends.
H2ServeHTTP == <<Dial("no", "open"), Own, Flush, Respond("no", FALSE)>>
ServeH2 == <<Parse>> \o H2ServeHTTP \o <<Again(<<Parse>> \o H2ServeHTTP)>>

HandleTLS ==
    <<Parse, Check("bypass", ""), Dial("", "open"), Own, Flush, Await(TRUE), Pipe>>

\* With a certificate to sign with, TLS is terminated on both sides.
TerminateTLS ==
    <<Parse, Check("bypass", ""), Dial("", "open"), Own, Check("handshake", "")>>
      \o SniffingRoundTrip \o <<Again(<<Parse>> \o SniffingRoundTrip)>>

HandleRedis == <<Parse, Dial("", "open"), Own, Flush, Pipe>>

\* The forwarder picks a node of its hop for what was asked.
ResolveHTTPNode == <<Check("bypass", "no"), Check("node", "no")>>
ForwardDialHTTP == ResolveHTTPNode \o <<Dial("no", "open")>>

ForwardWebsocketFrame == <<Relay>>
ForwardUpgradeResponse == Upgrade(<<PipeOf("rw", "conn", FALSE)>>, ForwardWebsocketFrame)

ForwardResponse == <<Respond("no", TRUE), ForwardUpgradeResponse>>
ForwardRoundTrip == <<Check("auth", "no"), Flush>> \o ForwardResponse

ForwardHTTP ==
    <<Parse>> \o ForwardDialHTTP \o ForwardRoundTrip
      \o <<Again(<<Parse>> \o ForwardRoundTrip)>>

ResolveTLSNode == <<Check("bypass", ""), Check("node", "")>>
ForwardDialTLS == ResolveTLSNode \o <<Dial("", "open")>>

ForwardTLS == <<Parse>> \o ForwardDialTLS \o <<Own, Flush, Await(TRUE), Pipe>>

ForwardTerminateTLS ==
    <<Parse>> \o ForwardDialTLS \o <<Own, Check("handshake", "")>>
      \o ForwardRoundTrip \o <<Again(<<Parse>> \o ForwardRoundTrip)>>

ForwardH2ServeHTTP ==
    <<Check("bypass", "no"), Check("node", "no"), Dial("no", "open"), Own, Flush,
      Respond("no", FALSE)>>
ForwardServeH2 ==
    <<Parse>> \o ForwardH2ServeHTTP \o <<Again(<<Parse>> \o ForwardH2ServeHTTP)>>

\* No bypass.
ResolveRedisNode == <<Check("node", "")>>
ForwardDialRedis == ResolveRedisNode \o <<Dial("", "open")>>
ForwardRedis == <<Parse>> \o ForwardDialRedis \o <<Own, Flush, Pipe>>

UnixRoundTrip == RoundTrip("")
UnixHTTP ==
    <<Parse, Check("bypass", "")>> \o UnixRoundTrip \o <<Again(<<Parse>> \o UnixRoundTrip)>>

UnixTLS == <<Parse, Flush, Await(TRUE), PipeOf("rw", "conn", FALSE)>>

\* The protocols a sniffer tells apart by the first bytes: HTTP/1 and HTTP/2 are
\* "http" to it, with or without a later change of protocol.
Proto(kind) ==
    IF kind \in {"ws", "frames", "h2"} THEN "http" ELSE kind

Sniffer ==
    [sniffing  |-> [http |-> HandleHTTP, ws |-> HandleHTTP, frames |-> HandleHTTP,
                   h2 |-> ServeH2, tls |-> HandleTLS, mitm |-> TerminateTLS,
                   redis |-> HandleRedis],
     forwarder |-> [http |-> ForwardHTTP, ws |-> ForwardHTTP, frames |-> ForwardHTTP,
                   h2 |-> ForwardServeH2, tls |-> ForwardTLS,
                   mitm |-> ForwardTerminateTLS, redis |-> ForwardRedis],
     unix      |-> [http |-> UnixHTTP, tls |-> UnixTLS]]

-----------------------------------------------------------------------------
(* SOCKS4: handler/socks/v4.                                               *)

Socks4Handle == <<Rate, Arm(Socks4Metadata), Read("req"), Clear, Check("auth", "no")>>

\* Mutant: the answer is written after sniffing.
Socks4ConnectSniffsFirst ==
    Socks4Handle
      \o <<Count, Check("bypass", "no"), Dial("no", "defer"),
           Sniff("sniffing", {"http", "tls", "mitm"}, "keep"), Granted(FALSE), Pipe>>

Socks4Connect ==
    Socks4Handle
      \o <<Count, Check("bypass", "no"), Dial("no", "defer"), Granted(FALSE),
           Sniff("sniffing", {"http", "tls", "mitm"}, "keep"), Pipe>>

\* Not implemented: returns without a reply.
Socks4Bind == Socks4Handle

(* SOCKS5: handler/socks/v5.                                               *)

\* The method exchange, and the credentials where the method asks for them.
Socks5Select == <<Read("hello"), Say("method")>>
Socks5OnSelected == <<Check("auth", "no")>>

Socks5Handle ==
    <<Rate, Arm(Socks5Metadata)>> \o Socks5Select \o Socks5OnSelected \o <<Read("req"), Clear>>

Socks5Connect ==
    Socks5Handle
      \o <<Count, Check("bypass", "no"), Dial("no", "defer"), Granted(FALSE),
           Sniff("sniffing", {"http", "tls", "mitm"}, "keep"), Pipe>>

\* The client's side of the pair of pipes is copied by a second goroutine.
Socks5ServeBind == <<Accept, Granted(FALSE), PipeTwice>>

Socks5BindLocal == <<Listen("no", "open"), Say("bound")>> \o Socks5ServeBind

Socks5Bind == Socks5Handle \o <<Check("enabled", "no"), Count>> \o Socks5BindLocal

Socks5ServeMuxBind == <<Check("session", ""), Hold>>

Socks5MuxBindLocal == <<Listen("no", "open"), Say("bound")>> \o Socks5ServeMuxBind

Socks5MuxBind == Socks5Handle \o <<Check("enabled", "no"), Count>> \o Socks5MuxBindLocal

Socks5UDP ==
    Socks5Handle
      \o <<Check("enabled", "no"), Listen("no", "defer"), Dial("no", "defer"),
           Check("type", "no"), Granted(FALSE), Count, Check("remote", ""),
           Associate>>

\* Port 0 asks for an association, any other port to be bound.
Socks5UDPTun(bind) ==
    Socks5Handle
      \o <<Count, Check("enabled", "no")>>
      \o (IF bind THEN <<Dial("no", "defer")>>
                  ELSE <<Dial("", "defer"), Check("type", "")>>)
      \o <<Granted(FALSE), Count, Relay>>

Socks5Resolve ==
    Socks5Handle
      \o <<Check("enabled", "no"), Dial("no", "defer"), Check("resolved", "no"),
           Granted(FALSE)>>

(* Relay: handler/relay.                                                   *)

RelayHandle ==
    <<Rate, Arm(RelayMetadata), Read("req"), Clear, Check("request", "no"),
      Check("auth", "no")>>

RelaySniff == Sniff("sniffing", {"http", "tls", "mitm", "redis"}, "keep")

RelayConnect ==
    RelayHandle
      \o <<Count, Check("request", "no"), Check("bypass", "no"), Dial("no", "defer"),
           Granted(TRUE), RelaySniff, Pipe>>

RelayForward ==
    RelayHandle
      \o <<Check("node", "no"), Count, Dial("no", "defer"), Granted(TRUE), Pipe>>

\* Mutant: the listener is not closed on return.
RelayBindTCPNoDefer == <<Listen("no", "open"), Say("bound"), Check("session", ""), Hold>>
RelayBindTCP == <<Listen("no", "defer"), Say("bound"), Check("session", ""), Hold>>

RelayBind == RelayHandle \o <<Count, Check("enabled", "no")>> \o RelayBindTCP

RelayBindUDP ==
    RelayHandle
      \o <<Count, Check("enabled", "no"), Dial("", "defer"), Granted(FALSE), Relay>>

(* Shadowsocks: handler/ss.  Nothing is answered.                          *)

SsConnect ==
    <<Rate, Read("req"), Check("bypass", ""), Dial("", "defer"),
      Sniff("sniffing", {"http", "tls", "mitm"}, "keep"), Pipe>>

SsuStream == <<Rate, Read("req"), Dial("", "defer"), Check("type", ""), Relay>>

-----------------------------------------------------------------------------
(* HTTP: handler/http.  The request is read without a deadline.            *)

HttpAuthenticate == <<Check("auth", "no")>>
HttpAuthorize == HttpAuthenticate \o <<Check("request", "no"), Check("bypass", "no")>>

HttpHandle == <<Rate, Read("req")>> \o HttpAuthorize

HttpDial(no, keep) == Dial(no, keep)

\* The sniffer gets the connection to the target, and is expected to close it.
HttpSniffAndHandle == Sniff("sniffing", {"http", "tls", "mitm", "redis"}, "disown")

\* Mutant: the answer is written before the dial.
HttpConnectEarly ==
    HttpHandle
      \o <<Count, Granted(FALSE), HttpDial("no", "defer"), HttpSniffAndHandle, IdlePipe>>

HttpConnect ==
    HttpHandle
      \o <<Count, HttpDial("no", "defer"), Granted(FALSE), HttpSniffAndHandle, IdlePipe>>

\* The answer is written before the dial.
HttpUDP ==
    HttpHandle
      \o <<Check("enabled", "no"), Granted(FALSE), Count, Dial("", "defer"),
           Check("type", ""), Relay>>

HttpWebsocketFrame == <<Relay>>
HttpUpgradeResponse == Upgrade(<<PipeOf("rw", "rw", TRUE)>>, HttpWebsocketFrame)

HttpProxyRoundTrip ==
    <<Check("bypass", "no"), HttpDial("no", "pool")>> \o RoundTrip("no")
      \o <<HttpUpgradeResponse>>

HttpProxy ==
    <<Rate, Parse>> \o HttpAuthorize \o <<Count>> \o HttpProxyRoundTrip
      \o <<Again(<<Parse>> \o HttpProxyRoundTrip)>>

\* Probe resistance by a decoy host: what is not authenticated goes there.
HttpProbe == <<Rate, Parse, Dial("no", "defer"), Flush, IdlePipe>>

(* HTTP/2: handler/http2.  A handler that returns before it has set a      *)
(* status answers 200, the default of the HTTP server.                     *)

Http2Handle == <<Check("rate", "ok"), Check("auth", "no"), Check("bypass", "no")>>

Http2Tunnel ==
    <<Granted(FALSE), Check("hijack", ""), Count, PipeOf("body", "conn", TRUE)>>
Http2Connect == <<Given>> \o Http2Handle \o <<Dial("no", "defer")>> \o Http2Tunnel

\* No deadline on the response.
Http2Forward ==
    <<Parse>> \o Http2Handle
      \o <<Dial("no", "defer"), Count, Flush, Respond("no", FALSE)>>

Http2Probe ==
    <<Parse, Check("rate", "ok"), Dial("no", "defer"), Flush, Respond("ok", FALSE)>>

(* HTTP/3: handler/http3 (reverse proxy) and handler/masque.               *)

Http3RoundTrip ==
    <<Parse, Check("rate", "ok"), Check("bypass", "no"), Check("node", "ok"),
      Dial("no", "pool"), Flush, Respond("no", FALSE)>>

MasqueHandle == <<Given, Check("rate", "ok"), Check("request", "no"), Check("auth", "no")>>

\* The dial can fail without a status.
MasqueConnectUDP ==
    MasqueHandle
      \o <<Check("path", "no"), Check("bypass", "no"), Check("capsule", "no"),
           Check("resolve", "no"), Check("streamer", "no"), Dial("ok", "defer"),
           Granted(FALSE), Count, Relay>>

MasqueConnectTCP ==
    MasqueHandle
      \o <<Check("host", "no"), Check("bypass", "no"), Check("resolve", "ok"),
           Dial("no", "defer"), Check("streamer", "no"), Granted(FALSE), Count,
           PipeOf("stream", "conn", TRUE)>>

-----------------------------------------------------------------------------
(* Handlers without a handshake: the client's first bytes are data.        *)

SniSniff == Sniff("sniffing", {"http", "tls", "mitm", "redis"}, "always")
\* The deadline is cleared when Handle returns.
SniHandle == <<Rate, Check("router", ""), Arm(SniMetadata), SniSniff>>

\* handler/auto: the first byte picks the handler; TLS is sniffed, and then
\* nothing closes the client's connection.
AutoHandle(handler) == <<Peek>> \o handler
AutoHandleTLS == <<Peek, Loose>> \o HandleTLS

\* handler/forward/local.
ForwardSniff == Sniff("forwarder", {"http", "tls", "mitm", "redis"}, "keep")
ForwardDialTarget == <<Check("node", ""), Dial("", "defer")>>
ForwardLocal ==
    <<Rate, Check("router", ""), ForwardSniff>> \o ForwardDialTarget \o <<IdlePipe>>

\* handleRawForwarding: for QUIC the target's first datagram is awaited before the client's is sent.
ForwardRaw == <<Await(FALSE), PipeOf("body", "conn", TRUE)>>
ForwardLocalUDP ==
    <<Rate, Check("router", ""), Datagram>> \o ForwardDialTarget \o ForwardRaw

ForwardDatagram ==
    <<Rate, Check("router", ""), Parse, Check("bypass", ""), Check("node", ""),
      Dial("", "defer"), Flush, Respond("", TRUE)>>

\* handler/forward/remote.
ForwardRemoteSniff == Sniff("forwarder", {"http", "tls", "mitm", "redis"}, "keep")
ForwardRemoteRaw == <<Check("node", ""), Dial("", "defer"), IdlePipe>>
ForwardRemote == <<Rate, Check("router", ""), ForwardRemoteSniff>> \o ForwardRemoteRaw

\* handler/redirect.
RedirectSniff == Sniff("sniffing", {"http", "tls", "mitm"}, "fallback")
RedirectTCP ==
    <<Rate, Check("destination", ""), Check("bypass", ""), RedirectSniff,
      Dial("", "defer"), Pipe>>

RedirectUDP ==
    <<Rate, Check("bypass", ""), Datagram, Dial("", "defer"), Await(FALSE), Pipe>>

\* handler/unix, handler/serial.
UnixHandle ==
    <<Dial("", "defer"), Sniff("sniffing", {"http", "tls", "mitm"}, "keep"), Pipe>>
ForwardUnix ==
    <<Check("node", ""), Dial("", "defer"), Sniff("unix", {"http", "tls"}, "keep"),
      PipeOf("sniffed", "conn", FALSE)>>
SerialHandle == <<Check("router", ""), Dial("", "defer"), Pipe>>
ForwardSerial == <<Check("node", ""), Dial("", "defer"), Pipe>>

\* handler/sshd: the listener has answered for a direct channel.
SshdDirectForward ==
    <<Rate, Check("type", ""), Check("bypass", ""), Dial("", "defer"),
      Sniff("sniffing", {"http", "tls", "mitm"}, "keep"), Pipe>>
SshdRemoteForward ==
    <<Rate, Check("type", ""), Check("request", ""), Listen("no", "defer"),
      Say("bound"), Hold>>

-----------------------------------------------------------------------------
(* Tunnel and router: handler/tunnel, handler/router.                      *)

TunnelHandle ==
    <<Rate, Arm(TunnelMetadata), Read("req"), Clear, Check("request", "no"),
      Check("auth", "no")>>

TunnelConnect ==
    TunnelHandle
      \o <<Check("bypass", "no"), Check("route", "no"), Dial("no", "defer"),
           Granted(FALSE), Pipe>>

\* The session joins the tunnel's pool of connectors.
TunnelBind ==
    TunnelHandle \o <<Check("id", "no"), Say("bound"), Check("session", ""), HandOver>>

\* The entry points of a tunnel: handler/tunnel/entrypoint.  The first byte
\* tells relay, TLS and HTTP apart.
EntrypointHandle == <<Peek>>

EntrypointConnect ==
    EntrypointHandle
      \o <<Read("req"), Check("request", "no"), Dial("no", "defer"), Granted(FALSE), Pipe>>

\* The ingress names the tunnel of a host; a private one is refused.
EntrypointDial(no, keep) == <<Check("route", no), Dial(no, keep)>>

EntrypointTLS ==
    EntrypointHandle \o <<Parse>> \o EntrypointDial("", "open")
      \o <<Own, Flush, Await(TRUE), Pipe>>

EntrypointWebsocketFrame == <<Relay>>
EntrypointUpgradeResponse == Upgrade(<<PipeOf("rw", "rw", FALSE)>>, EntrypointWebsocketFrame)

EntrypointRoundTrip ==
    <<Check("loop", "next")>> \o EntrypointDial("next", "pool") \o RoundTrip("next")
      \o <<EntrypointUpgradeResponse>>

EntrypointHTTP ==
    EntrypointHandle \o <<Parse>> \o EntrypointRoundTrip
      \o <<Again(<<Parse>> \o EntrypointRoundTrip)>>

RouterHandle ==
    <<Rate, Arm(RouterMetadata), Read("req"), Clear, Check("request", "no"),
      Check("auth", "no")>>

RouterAssociate ==
    RouterHandle \o <<Check("route", "no"), Check("id", "no"), Say("bound"), Hold>>

-----------------------------------------------------------------------------
\* The programs by name.
Program ==
    [socks4 |-> Socks4Connect, socks4_bind |-> Socks4Bind,
     socks5 |-> Socks5Connect, socks5_bind |-> Socks5Bind,
     socks5_muxbind |-> Socks5MuxBind, socks5_udp |-> Socks5UDP,
     socks5_udptun |-> Socks5UDPTun(FALSE), socks5_udpbind |-> Socks5UDPTun(TRUE),
     socks5_resolve |-> Socks5Resolve,
     relay |-> RelayConnect, relay_forward |-> RelayForward,
     relay_bind |-> RelayBind, relay_bindudp |-> RelayBindUDP,
     ss |-> SsConnect, ssu |-> SsuStream,
     http |-> HttpConnect, http_udp |-> HttpUDP, http_proxy |-> HttpProxy,
     http_probe |-> HttpProbe, http2 |-> Http2Connect, http2_forward |-> Http2Forward,
     http2_probe |-> Http2Probe, http3 |-> Http3RoundTrip,
     masque_udp |-> MasqueConnectUDP, masque |-> MasqueConnectTCP,
     sni |-> SniHandle, auto_socks4 |-> AutoHandle(Socks4Connect),
     auto_socks5 |-> AutoHandle(Socks5Connect), auto_http |-> AutoHandle(HttpConnect),
     auto_tls |-> AutoHandleTLS, tcp |-> ForwardLocal, udp |-> ForwardLocalUDP,
     datagram |-> ForwardDatagram, rtcp |-> ForwardRemote, red |-> RedirectTCP,
     redu |-> RedirectUDP, unix |-> UnixHandle, unix_forward |-> ForwardUnix,
     serial |-> SerialHandle, serial_forward |-> ForwardSerial,
     sshd |-> SshdDirectForward, sshd_remote |-> SshdRemoteForward,
     tunnel |-> TunnelConnect, tunnel_bind |-> TunnelBind, router |-> RouterAssociate,
     ep_relay |-> EntrypointConnect, ep_tls |-> EntrypointTLS, ep_http |-> EntrypointHTTP]

=============================================================================
