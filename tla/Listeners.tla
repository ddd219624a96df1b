----------------------------- MODULE Listeners ------------------------------
(***************************************************************************)
(* The listeners a service may have, told apart by what decides whether    *)
(* the service goes on accepting and whether it can be closed.             *)
(*                                                                         *)
(*   feeds   who accepts from the socket: Accept itself ("accept"), a      *)
(*           goroutine of the listener ("loop"), a server of a library     *)
(*           ("server"), Accept from a binding it makes at a remote node   *)
(*           ("remote"), a goroutine that makes a device ("device"), the   *)
(*           packet loop of the UDP listener ("packets"); "once": stdio    *)
(*   mux     a connection is a session that carries streams or requests    *)
(*   admits  the admission wraps the socket (admission.WrapListener)       *)
(*   limits  the connection limiter is asked at the "socket", in "accept", *)
(*           or never                                                      *)
(*   tells   the error that ends the feeder reaches Accept                 *)
(*   wakes   how Close reaches Accept: by the "socket", by what Close      *)
(*           sends ("sends", "nil"), by a "flag", or not at all            *)
(*   cuts    Close closes the sessions                                     *)
(*   waits   Close waits for the requests to end                           *)
(*   fragile a packet that cannot be taken is an error of Accept           *)
(***************************************************************************)
EXTENDS Naturals

Tcp == [feeds |-> "accept", mux |-> FALSE, admits |-> TRUE, limits |-> "socket",
        tells |-> TRUE, wakes |-> "socket", cuts |-> FALSE, waits |-> FALSE,
        fragile |-> FALSE]
Tls == Tcp
Dtls == Tcp
Unix == Tcp
ObfsHTTP == Tcp
ObfsTLS == Tcp
RedirectTCP == Tcp
RedirectUDP == [Tcp EXCEPT !.admits = FALSE, !.limits = "never", !.fragile = TRUE]
Stateless == [Tcp EXCEPT !.admits = FALSE, !.limits = "never"]

\* A goroutine accepts; it ends with its first error.
Mtls == [Tcp EXCEPT !.feeds = "loop", !.mux = TRUE]
Mtcp == Mtls
Ssh == Mtls
Sshd == Mtls
Quic == [Mtls EXCEPT !.admits = FALSE, !.limits = "never"]
Kcp == [Mtls EXCEPT !.admits = FALSE, !.limits = "never"]
Icmp == [Mtls EXCEPT !.admits = FALSE, !.limits = "never"]

\* A server accepts; it gets over temporary errors by itself.
Ws == [Tcp EXCEPT !.feeds = "server"]
Mws == [Ws EXCEPT !.mux = TRUE]
Grpc == [Ws EXCEPT !.mux = TRUE, !.cuts = TRUE]

\* The error of the server is only logged; Close tells Accept itself.
Http2 == [Grpc EXCEPT !.tells = FALSE, !.wakes = "sends"]
H2 == Http2
Http3 == [Http2 EXCEPT !.admits = FALSE, !.limits = "never", !.wakes = "nil"]

H3 == [Http3 EXCEPT !.mux = FALSE, !.cuts = FALSE, !.wakes = "flag"]
Wt == [Http3 EXCEPT !.wakes = "nothing"]

Pht == [Ws EXCEPT !.admits = FALSE, !.limits = "accept"]
Dns == [Ws EXCEPT !.mux = TRUE, !.admits = FALSE, !.limits = "never"]
Doh == [Dns EXCEPT !.waits = TRUE]

\* The listener is bound when Accept finds none, and again after an error.
Rtcp == [Tcp EXCEPT !.feeds = "remote", !.wakes = "flag"]
Runix == Rtcp
Rudp == [Rtcp EXCEPT !.admits = FALSE]

\* One device at a time, made again when it is closed.
Tun == [Tcp EXCEPT !.feeds = "device", !.admits = FALSE, !.limits = "never", !.wakes = "flag"]
Tap == Tun
Tungo == Tun
Serial == Tun

\* A connection for every client address.
Udp == [Tcp EXCEPT !.feeds = "packets", !.admits = FALSE, !.limits = "never", !.wakes = "flag"]
Ftcp == Udp

Stdio == [Tun EXCEPT !.feeds = "once"]

Listener ==
    [tcp |-> Tcp, tls |-> Tls, dtls |-> Dtls, unix |-> Unix, ohttp |-> ObfsHTTP,
     otls |-> ObfsTLS, red |-> RedirectTCP, redu |-> RedirectUDP, stateless |-> Stateless,
     mtls |-> Mtls, mtcp |-> Mtcp, ssh |-> Ssh, sshd |-> Sshd, quic |-> Quic,
     kcp |-> Kcp, icmp |-> Icmp, ws |-> Ws, mws |-> Mws, grpc |-> Grpc,
     http2 |-> Http2, h2 |-> H2, http3 |-> Http3, h3 |-> H3, wt |-> Wt,
     pht |-> Pht, dns |-> Dns, doh |-> Doh, rtcp |-> Rtcp, runix |-> Runix,
     rudp |-> Rudp, tun |-> Tun, tap |-> Tap, tungo |-> Tungo, serial |-> Serial,
     udp |-> Udp, ftcp |-> Ftcp, stdio |-> Stdio]

\* What the queue of a device listener holds; the others have their backlog.
DeviceQueue(kind) == IF kind = "serial" THEN 0 ELSE 1
=============================================================================
