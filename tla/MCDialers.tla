----------------------------- MODULE MCDialers ------------------------------
(***************************************************************************)
(* Sessions that calls and requests share, in two parts that share no      *)
(* state, so that a behaviour exercises one of them and the other is idle: *)
(*  - Dialers with two calls through one node, every dialer in turn, alone *)
(*    and together; the two-phase ones also with a resolved address, mws   *)
(*    also with its pings;                                                 *)
(*  - Tunnel with two ends of one tunnel (or of two routes), at one node   *)
(*    or at two, with and without a registry, and one request at a time.   *)
(***************************************************************************)
EXTENDS Dialers, Tunnel, TLC

MCCalls == 1..2

Conf(kinds, resolved, keepalive) ==
    [kind : kinds, resolved : resolved, keepalive : keepalive, calls : {{1}, {1, 2}}]

MCConfs ==
    Conf(DOMAIN Dialer, {FALSE}, {FALSE})
    \cup Conf({"mtls", "mtcp", "mws"}, {TRUE}, {FALSE})
    \cup Conf({"mws"}, BOOLEAN, {TRUE})

\* A dialer that nobody calls.
DialersIdle ==
    DialersInit({[kind |-> "mtls", resolved |-> TRUE, keepalive |-> FALSE, calls |-> {}]}, 0)

-----------------------------------------------------------------------------
MCNodes == {"n1", "n2"}
MCEnds == {"a", "b"}

\* The ends of one tunnel at one node, and at two: there the second may be of
\* another route.
Near(udp, max) ==
    "a" :> [node |-> "n1", udp |-> FALSE, max |-> FALSE, group |-> "g1"]
    @@ "b" :> [node |-> "n1", udp |-> udp, max |-> max, group |-> "g1"]
Far(group) ==
    "a" :> [node |-> "n1", udp |-> FALSE, max |-> FALSE, group |-> "g1"]
    @@ "b" :> [node |-> "n2", udp |-> FALSE, max |-> FALSE, group |-> group]

Requests(how, groups) == [node : {"n1"}, how : {how}, udp : {FALSE}, group : groups]

\* A tunnel or a router, one node or two.
Local(kind, ends, asks, nbreaks, closes) ==
    [kind |-> kind, sd |-> FALSE, lapses |-> FALSE, ends |-> ends, asks |-> asks,
     breaks |-> nbreaks, closes |-> closes, caches |-> FALSE]
Shared(kind, lapses, ends, asks, nbreaks, closes, caches) ==
    [kind |-> kind, sd |-> TRUE, lapses |-> lapses, ends |-> ends, asks |-> asks,
     breaks |-> nbreaks, closes |-> closes, caches |-> caches]

MCTunnelConfs ==
    {Shared("tunnel", TRUE, Far("g1"), Requests("tls", {"g1"}), 2, {"n2"}, FALSE)}
    \cup {Shared("tunnel", FALSE, Far("g1"), Requests(h, {"g1"}), 2, {}, FALSE) :
              h \in {"tls", "http", "relay"}}
    \cup {Local("tunnel", Near(u, u), Requests("relay", {"g1"}), 2, {"n1"}) : u \in BOOLEAN}
    \cup {Local("tunnel", Near(FALSE, TRUE), Requests("relay", {"g1"}), 3, {}),
          Local("router", Far("g2"), Requests("packet", {"g2"}), 1, {"n1"}),
          Shared("router", FALSE, Far("g1"), Requests("packet", {"g1"}), 2, {"n2"}, FALSE),
          Shared("router", FALSE, Far("g2"), Requests("packet", {"g1", "g2"}), 1, {}, TRUE)}

-----------------------------------------------------------------------------
MCInit ==
    \/ Init /\ TunnelIdle
    \/ DialersIdle /\ TunnelInit(TunnelConfs)

MCNext ==
    \/ Next /\ UNCHANGED nvars
    \/ TunnelNext /\ UNCHANGED vars

MCSpec == MCInit /\ [][MCNext]_<<vars, nvars>> /\ Fairness /\ TunnelFairness
=============================================================================
