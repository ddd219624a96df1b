----------------------------- MODULE Connectors -----------------------------
(***************************************************************************)
(* What a connector does on a connection to a proxy before it hands the    *)
(* connection to its user, as programs that Session.tla interprets.  A     *)
(* definition is named after the connector and the function it translates. *)
(* No deadline is set by default (connectTimeout).                         *)
(***************************************************************************)
EXTENDS Sequences

\* Write message m; read the next message, which must be m.  drops: the reader
\* is buffered and is dropped with what it holds.
Put(m) == [op |-> "put", msg |-> m]
Get(m, drops) == [op |-> "get", msg |-> m, drops |-> drops]
\* Write m with the user's first message; read m before the user's first one.
Later(m) == [op |-> "later", msg |-> m]
Expect(m) == [op |-> "expect", msg |-> m]

Ask(answer) == <<Put("req"), Get(answer, FALSE)>>

\* connector/socks
Socks4ConnectorConnect == Ask("ok")
Socks5ConnectorHandshake == <<Put("hello"), Get("method", FALSE)>>
Socks5ConnectorConnect == Socks5ConnectorHandshake \o Ask("ok")
Socks5ConnectorUDP == Socks5ConnectorHandshake \o Ask("ok")
Socks5ConnectorRelayUDP == Socks5ConnectorHandshake \o Ask("ok")
Socks5ConnectorBind == Socks5ConnectorHandshake \o Ask("bound")
\* The second reply, when a peer has connected.
Socks5ListenerAccept == Socks5ConnectorBind \o <<Get("ok", FALSE)>>

\* connector/relay
RelayConnectorConnect(noDelay) ==
    IF noDelay THEN Ask("ok") ELSE <<Later("req"), Expect("ok")>>
RelayConnectorBind == Ask("bound")
RelayConnectorBindUDP == Ask("ok")

\* connector/ss: WrapConn sends the target, and nothing is answered.
SsConnectorConnect == <<Put("req")>>
SsuConnectorConnect == <<Put("req")>>

\* connector/http: http.ReadResponse on a bufio.Reader of its own.
HttpConnectorConnect == <<Put("req"), Get("ok", TRUE)>>

\* connector/http2, connector/masque
Http2ConnectorConnect == Ask("ok")
MasqueConnectorTCP == Ask("ok")
MasqueConnectorUDP == Ask("ok")

\* connector/tunnel, connector/router
TunnelConnectorConnect == Ask("ok")
TunnelConnectorBind == Ask("bound")
RouterConnectorConnect == Ask("bound")

\* connector/sshd: the SSH client asks for the listener.
SshdConnectorBind == <<Get("bound", FALSE)>>

\* connector/sni, forward, tcp, unix, serial: the connection as it is.
PlainConnect == <<>>

=============================================================================
