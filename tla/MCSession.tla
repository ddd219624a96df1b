----------------------------- MODULE MCSession -----------------------------
(***************************************************************************)
(* The situations TLC looks at: every handler program with what matters to *)
(* it, once with peers that behave and once with peers that do not.        *)
(***************************************************************************)
EXTENDS Session

Sniffing ==
    {"socks4", "socks5", "relay", "ss", "http", "auto_socks4", "auto_socks5",
     "auto_http", "sni", "auto_tls", "tcp", "rtcp", "red", "unix", "unix_forward", "sshd"}
Datagrams == {"udp", "redu"}

Talks(prog) ==
    (IF prog \in OneRequest \cup {"auto_tls", "ep_tls"} THEN {<<"off", "tls", "client">>}
     ELSE {<<"off", "other", "client">>}
          \cup (IF prog \in {"sni", "http_proxy", "http_probe", "ep_http"} THEN {}
                ELSE {<<"off", "other", "server">>}))
    \cup (IF prog \in {"http_proxy", "ep_http"} \cup (Sniffing \ {"auto_tls"})
          THEN {<<"off", "http", "client">>} ELSE {})
    \cup (IF prog \in Sniffing \ {"auto_tls", "sni"}
          THEN ({"timed", "untimed"} \X {"other"} \X {"client", "server"})
               \cup ({"untimed"} \X {"http", "tls", "mitm", "redis"} \X {"client"})
          ELSE {})
    \cup (IF prog = "sni" THEN {"off"} \X {"tls", "mitm", "redis"} \X {"client"} ELSE {})
    \cup (IF prog \in {"http_proxy", "ep_http"} THEN {"off"} \X {"ws", "frames"} \X {"client"} ELSE {})
    \cup (IF prog \in {"socks5", "rtcp"}
          THEN {"untimed"} \X {"h2", "ws", "frames"} \X {"client"} ELSE {})
    \cup (IF prog \in Datagrams
          THEN {"timed", "untimed"} \X {"quic", "other"} \X {"client"} ELSE {})

\* Handlers with a read timeout.
Idling == {"http", "auto_http", "http_proxy", "http_probe", "http2", "masque", "tcp",
           "rtcp", "udp"}

\* Handlers of requests only, and some that serve streams of requests too.
Contexts(prog) ==
    CASE prog \in {"http2", "masque"} -> {TRUE}
      [] prog \in {"socks5", "socks5_bind", "relay"} -> BOOLEAN
      [] OTHER -> {FALSE}

\* half, joined, calm, slow: the last data may come with the end, or the session
\* be slow, where nothing else happens.
Endings ==
    {<<"cw", TRUE, TRUE, FALSE>>}
    \cup {<<e, FALSE, calm, FALSE>> : e \in {"no", "cw", "full"}, calm \in BOOLEAN}
    \cup {<<e, FALSE, TRUE, TRUE>> : e \in {"no", "cw", "full"}}

MCConfs ==
    UNION {{[prog |-> p, sniff |-> t[1], kind |-> t[2], first |-> t[3], hold |-> d[1],
             lazy |-> d[2], fallback |-> f, half |-> e[1], joined |-> e[2],
             idle |-> i, request |-> q, calm |-> e[3], slow |-> e[4]] :
              t \in Talks(p),
              d \in IF p \in {"relay", "relay_forward"} THEN BOOLEAN \X BOOLEAN
                    ELSE {<<FALSE, FALSE>>},
              f \in IF p = "red" THEN BOOLEAN ELSE {FALSE},
              e \in Endings, i \in IF p \in Idling THEN BOOLEAN ELSE {FALSE},
              q \in Contexts(p)} : p \in DOMAIN Program}

=============================================================================
