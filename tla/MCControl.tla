------------------------------ MODULE MCControl ------------------------------
(* One kind of each shape, the one with a shared Close, and two services   *)
(* a reload may load in part; and a plain HTTP tunnel.  The two parts are  *)
(* separate situations of one run.                                         *)
EXTENDS Control, PlainTunnel

MCNames == <<"n1", "n2">>

Explore(k, f, o, r) ==
    [kind |-> k, names |-> {"n1"}, file |-> f, objs |-> o, reloads |-> r]

MCSituations ==
    {Explore("auther", {}, 3, 0), Explore("auther", {"n1"}, 2, 1),
     Explore("chain", {"n1", "n2"}, 2, 1), Explore("observer", {}, 2, 0),
     Explore("service", {}, 3, 0), Explore("service", {"n1", "n2"}, 2, 1)}

\* Nobody uses the API.
ControlIdle ==
    ControlInit({[kind |-> "auther", names |-> {}, file |-> {}, objs |-> 0, reloads |-> 0]})

-----------------------------------------------------------------------------
Use(up, down, npipes, faults) ==
    [up |-> up, down |-> down, backlog |-> 1, pipes |-> npipes, faults |-> faults]

\* A second connection, a lost message, data for the client.
MCTunnelUses == {Use(1, 0, 2, 0), Use(1, 0, 1, 1), Use(0, 1, 2, 1)}

-----------------------------------------------------------------------------
MCInit ==
    \/ Init /\ TunnelIdle
    \/ ControlIdle /\ TunnelInit(TunnelUses)

MCNext ==
    \/ Next /\ UNCHANGED pvars
    \/ TunnelNext /\ UNCHANGED vars

MCSpec == MCInit /\ [][MCNext]_<<vars, pvars>> /\ Fairness /\ TunnelFairness
=============================================================================
