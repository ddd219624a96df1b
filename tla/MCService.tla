------------------------------ MODULE MCService -----------------------------
(***************************************************************************)
(* A service and the traffic limits of its connections: two parts that     *)
(* share no state, so that a behaviour exercises one of them and the other *)
(* is idle:                                                                *)
(*  - Service with two connections or three, of one host or two: a         *)
(*    listener of every kind, without limits; with a limit for each host,  *)
(*    and with one for all hosts too, where the listener has them;         *)
(*  - TrafficLimit with the limits of a service, of a connection, of an    *)
(*    address or a range and of a plugin, on a stream that is read, on     *)
(*    packets and on writes.                                               *)
(***************************************************************************)
EXTENDS Service, TrafficLimit

MCConns == {"c1", "c2", "c3"}
MCHost == [c \in MCConns |-> IF c = "c3" THEN "b" ELSE "a"]

\* One listener of each kind: the others do what one of these does.
Kinds == {"tcp", "redu", "stateless", "mtls", "quic", "ws", "mws", "grpc", "http2",
          "http3", "h3", "wt", "pht", "dns", "doh", "rtcp", "rudp", "tun", "serial",
          "udp", "stdio"}
ASSUME KindsAssumption ==
    \A l \in DOMAIN Listener : \E k \in Kinds : Listener[l] = Listener[k]

Limiting == {k \in Kinds : Listener[k].limits # "never"}

MCConfs ==
    [kind : Kinds, host : {0}, global : {0}, keepalive : {FALSE}, conns : {{"c1", "c2"}}]
    \cup [kind : Limiting, host : {1}, global : {0}, keepalive : {FALSE}, conns : {{"c1", "c2"}}]
    \cup [kind : Limiting, host : {1}, global : {1}, keepalive : {FALSE}, conns : {{"c1", "c3"}}]
    \cup [kind : {"tcp", "rtcp"}, host : {1, 2}, global : {1, 2},
          keepalive : {FALSE}, conns : {MCConns}]
    \cup [kind : {"udp"}, host : {0}, global : {0}, keepalive : {TRUE}, conns : {{"c1", "c2"}}]

-----------------------------------------------------------------------------
(* What limits a flow: the scope of the limits, whether a plugin answers,  *)
(* whether the limit of the address is one of a range, whether the limiter *)
(* reloads; the flows, the bytes of the first, and the bounds.             *)

Flow(kind, scope, plugin, range, period, flows, bytes, nedits, nlapses, nraces) ==
    [kind |-> kind, scope |-> scope, plugin |-> plugin, range |-> range,
     period |-> period, flows |-> flows, bytes |-> bytes,
     edits |-> nedits, lapses |-> nlapses, races |-> nraces]

MCFlows == {"f1", "f2"}

MCFlowConfs ==
    {Flow("stream",  "service", FALSE, FALSE, TRUE,  {"f1"}, 3, 2, 0, 0),
     Flow("stream",  "conn",    FALSE, TRUE,  TRUE,  {"f1"}, 3, 1, 0, 0),
     Flow("stream",  "conn",    TRUE,  FALSE, FALSE, {"f1"}, 3, 2, 0, 0),
     Flow("packets", "service", FALSE, FALSE, TRUE,  {"f1"}, 2, 1, 0, 0),
     Flow("writes",  "service", FALSE, FALSE, TRUE,  {"f1"}, 2, 1, 0, 0),
     Flow("stream",  "conn",    FALSE, TRUE,  TRUE,  {"f1"}, 0, 2, 0, 0),
     Flow("stream",  "conn",    FALSE, TRUE,  TRUE,  {"f1"}, 0, 1, 1, 1),
     Flow("stream",  "conn",    FALSE, FALSE, TRUE,  {"f1"}, 0, 1, 1, 1),
     Flow("stream",  "conn",    FALSE, FALSE, FALSE, {"f1"}, 0, 0, 1, 1),
     Flow("stream",  "conn",    FALSE, TRUE,  FALSE, MCFlows, 0, 0, 0, 1)}

-----------------------------------------------------------------------------

\* A service that is closed: none of its actions is enabled.
ServiceIdle ==
    /\ conf = [kind |-> "tcp", host |-> 0, global |-> 0, keepalive |-> FALSE, conns |-> {}]
    /\ svc = [serve |-> "returned", up |-> "closed", err |-> None,
              closes |-> MaxCloses, closing |-> "done"]
    /\ ln = [sock |-> "closed", loop |-> FALSE, err |-> <<>>, done |-> TRUE,
             queue |-> <<>>, closed |-> TRUE]
    /\ conn = [c \in Conns |-> [at |-> "away", open |-> FALSE, slot |-> NoSlot]]
    /\ limiter = [gen |-> 0, count |-> [g \in Gens |-> [k \in Keys |-> 0]]]
    /\ udp = NoClients
    /\ faults = 0

MCInit ==
    \/ Init /\ TrafficIdle
    \/ ServiceIdle /\ TrafficInit(FlowConfs)

MCNext ==
    \/ Next /\ UNCHANGED tvars
    \/ TrafficNext /\ UNCHANGED vars

MCSpec == MCInit /\ [][MCNext]_<<vars, tvars>> /\ Fairness /\ TrafficFairness
=============================================================================
