------------------------------ MODULE MCTraffic ------------------------------
(* A quota with its traffic, and the statistics of connections; the two    *)
(* are separate situations of one run.                                     *)
EXTENDS MCQuota, Statistics

CONSTANTS u1, u2

Counting(l, w, r, us, api, f, c) ==
  [loop |-> l, who |-> w, reset |-> r, users |-> us, api |-> api, faults |-> f,
   cancel |-> c]
ByClient(l, r, us, f) == Counting(l, "client", r, us, 0, f, FALSE)
Elsewhere(l, w) == Counting(l, w, TRUE, {u1}, 0, 1, FALSE)

\* Two connections that race, or one with an observer that refuses and loses
\* answers; every loop and every way to count; the API and the end of the loop
\* for the service.
MCStatsUses ==
  {Counting("service", "service", TRUE, {u1, u2}, 1, 0, FALSE),
   Counting("service", "service", TRUE, {u1}, 1, 2, TRUE),
   Counting("service", "service", FALSE, {u1}, 0, 2, FALSE),
   ByClient("http", TRUE, {u1, u2}, 1), ByClient("socks5", FALSE, {u1}, 2),
   Elsewhere("tunnel", "connector"), Elsewhere("router", "associate"),
   Elsewhere("socks5", "udptun"), Elsewhere("http", "httpudp"),
   Elsewhere("masque", "masque")}
  \cup {ByClient(l, TRUE, {u1}, 1) : l \in {"http2", "relay", "socks4", "tungo"}}

MCInit == Init /\ (StatsIdle \/ StatsInit)

MCNext ==
  \/ su = NoUse /\ Next /\ UNCHANGED statsVars
  \/ StatsNext /\ UNCHANGED vars

MCSpec == MCInit /\ [][MCNext]_<<vars, statsVars>> /\ StatsFairness
=============================================================================
