------------------------------- MODULE Tunnel -------------------------------
(***************************************************************************)
(* The tunnel and the router handler on several nodes: clients bind        *)
(* connectors at a node, the nodes tell one another of them through the    *)
(* service discovery, and what arrives at a node for a tunnel goes to one  *)
(* of its connectors there, or on to the entry point of a node that has    *)
(* one, while connectors come and break and nodes close.                   *)
(*                                                                         *)
(* All requests are for one tunnel; the packets are for one address, which *)
(* each group (router ID) routes to a gateway of its own.  What a pool     *)
(* does under its mutex is one step.                                       *)
(***************************************************************************)
EXTENDS Naturals, FiniteSets

CONSTANTS Nodes,       \* the nodes that run the handler
          Ends,        \* the connectors
          TunnelConfs  \* kind: the handler; sd: there is a registry; lapses: it
                       \* forgets what is not renewed; ends: node, udp, max (the weight
                       \* 255) and group of each connector that binds; asks:
                       \* node, how, udp and group of the requests; breaks:
                       \* bound, connectors that break; closes: the nodes
                       \* that close; caches: the router caches routes

\* Connectors and requests are of one tunnel; those of routers, of one network.
ASSUME TunnelConfsAssumption ==
    \A t \in TunnelConfs :
        /\ DOMAIN t.ends \subseteq Ends
        /\ \A c \in DOMAIN t.ends : t.ends[c].node \in Nodes
        /\ \A q \in t.asks : q.node \in Nodes
        /\ \A c \in DOMAIN t.ends, q \in t.asks :
             IF t.kind = "tunnel" THEN t.ends[c].group = q.group ELSE t.ends[c].udp = q.udp

VARIABLES tun,   \* chosen once
          end,   \* bind: where handleBind is; sess: the session; wait: where
                 \* waitClose is; late: what had ended before the bind did
          hub,   \* tunnel: the pool has the tunnel; list: its connectors;
                 \* closed: the handler is closed
          reg,   \* what is registered
          memo,  \* the caches of the router at each node: the route of the
                 \* address, and the node of each gateway
          ask,   \* the request: how it came, where it is, what it was given
          held,  \* history: a connector was there for it all the time
          breaks \* connectors that may still break

nvars == <<tun, end, hub, reg, memo, ask, held, breaks>>

Nowhere == "nowhere"
Unset == "unset"
Retry == 3
NoMemo == [route |-> Unset, addr |-> {}]
Quiet == [at |-> "none", how |-> "tls", udp |-> FALSE, group |-> "g1", node |-> Nowhere,
          from |-> Nowhere, gateway |-> "g1", pick |-> Nowhere, alone |-> FALSE, tries |-> 0]

Bound == DOMAIN tun.ends
Of(c) == tun.ends[c]
IsTunnel == tun.kind = "tunnel"

TunnelInit(confs) ==
    /\ tun \in confs
    /\ end = [c \in Ends |-> [bind |-> "idle", sess |-> "none", wait |-> "none", late |-> {}]]
    /\ hub = [n \in Nodes |-> [tunnel |-> FALSE, list |-> {}, closed |-> FALSE]]
    /\ reg = {}
    /\ memo = [n \in Nodes |-> NoMemo]
    /\ ask = Quiet /\ held = FALSE
    /\ breaks = tun.breaks

-----------------------------------------------------------------------------
(* Binding: handleBind and handleAssociate.                                *)

\* The session is there; waitClose starts to accept, or the router to read.
\* The service closes its handler before its listener, so that clients come
\* until then.
NewConnector(c) ==
    /\ end[c].bind = "idle"
    /\ end' = [end EXCEPT ![c] = [@ EXCEPT !.bind = "made", !.sess = "up", !.wait = "accept"]]
    /\ UNCHANGED <<tun, hub, reg, memo, ask, breaks>>

\* pool.Add makes the tunnel when there is none, also after the pool closed.
Add(c) ==
    LET n == Of(c).node IN
    /\ end[c].bind = "made"
    /\ end' = [end EXCEPT ![c].bind = "added",
                          ![c].late = IF hub[n].closed THEN @ \cup {"closed"} ELSE @]
    /\ hub' = [hub EXCEPT ![n].tunnel = TRUE, ![n].list = @ \cup {c}]
    /\ UNCHANGED <<tun, reg, memo, ask, breaks>>

Register(c) ==
    /\ end[c].bind = "added"
    /\ end' = [end EXCEPT ![c].bind = "bound",
                          ![c].late = IF end[c].wait = "done" THEN @ \cup {"gone"} ELSE @]
    /\ reg' = IF tun.sd THEN reg \cup {c} ELSE reg
    /\ UNCHANGED <<tun, hub, memo, ask, breaks>>

-----------------------------------------------------------------------------
(* The end of a connector.                                                 *)

SessionBreaks(c) ==
    /\ breaks > 0 /\ end[c].sess = "up"
    /\ breaks' = breaks - 1
    /\ end' = [end EXCEPT ![c].sess = "broken"]
    /\ UNCHANGED <<tun, hub, reg, memo, ask>>

\* waitClose: Accept fails, and the session is closed.  The router is in its
\* read loop only when it has registered.
AcceptFails(c) ==
    /\ end[c].wait = "accept" /\ end[c].sess \in {"broken", "closed"}
    /\ IsTunnel \/ end[c].bind = "bound"
    /\ end' = [end EXCEPT ![c] = [@ EXCEPT !.sess = "closed", !.wait = "deregister"]]
    /\ UNCHANGED <<tun, hub, reg, memo, ask, breaks>>

\* Mutant: the connector stays registered.
DeregisterNothing(c) ==
    /\ end[c].wait = "deregister"
    /\ end' = [end EXCEPT ![c].wait = IF IsTunnel THEN "done" ELSE "delete"]
    /\ UNCHANGED <<tun, hub, reg, memo, ask, breaks>>

Deregister(c) ==
    /\ end[c].wait = "deregister"
    /\ end' = [end EXCEPT ![c].wait = IF IsTunnel THEN "done" ELSE "delete"]
    /\ reg' = reg \ {c}
    /\ UNCHANGED <<tun, hub, memo, ask, breaks>>

\* pool.Del of the router, the last of its deferred calls.
Del(c) ==
    /\ end[c].wait = "delete"
    /\ end' = [end EXCEPT ![c].wait = "done"]
    /\ hub' = [hub EXCEPT ![Of(c).node].list = @ \ {c}]
    /\ UNCHANGED <<tun, reg, memo, ask, breaks>>

\* A tick of Tunnel.clean: what is closed leaves the tunnel; what stays is
\* renewed.
Clean(n) ==
    /\ IsTunnel /\ hub[n].tunnel
    /\ \E c \in hub[n].list : end[c].sess = "closed"
    /\ hub' = [hub EXCEPT ![n].list = {c \in @ : end[c].sess # "closed"}]
    /\ UNCHANGED <<tun, end, reg, memo, ask, breaks>>

\* Mutant: a tunnel is idle whatever is in it.
CloseIdlesAny(n) ==
    /\ IsTunnel /\ hub[n].tunnel
    /\ hub' = [hub EXCEPT ![n] = [@ EXCEPT !.tunnel = FALSE, !.list = {}]]
    /\ UNCHANGED <<tun, end, reg, memo, ask, breaks>>

\* A tick of closeIdles.
CloseIdles(n) ==
    /\ IsTunnel /\ hub[n].tunnel /\ hub[n].list = {} /\ ~hub[n].closed
    /\ hub' = [hub EXCEPT ![n].tunnel = FALSE]
    /\ UNCHANGED <<tun, end, reg, memo, ask, breaks>>

\* The registry forgets a service that nobody renews: clean renews what is in
\* the tunnel and open, sdRenew while the association lasts.
Renewed(c) ==
    IF IsTunnel THEN c \in hub[Of(c).node].list /\ end[c].sess # "closed"
    ELSE end[c].wait \in {"accept", "deregister"}
Lapse(c) ==
    /\ tun.lapses /\ c \in reg /\ ~Renewed(c)
    /\ reg' = reg \ {c}
    /\ UNCHANGED <<tun, end, hub, memo, ask, breaks>>

\* The handler's Close: its entry points, then its pool with every connector.
Close(n) ==
    /\ n \in tun.closes /\ ~hub[n].closed
    /\ hub' = [hub EXCEPT ![n] = [tunnel |-> FALSE, list |-> {}, closed |-> TRUE]]
    /\ end' = [c \in Ends |-> IF c \in hub[n].list THEN [end[c] EXCEPT !.sess = "closed"]
                              ELSE end[c]]
    /\ UNCHANGED <<tun, reg, memo, ask, breaks>>

-----------------------------------------------------------------------------
(* Requests: Dialer.Dial, and the packets of the router.                   *)

Busy == {"route", "dial", "open", "seek"}
N == ask.node
To(at) == [ask EXCEPT !.at = at]

\* A request reaches the handler or the entry point of a node.
Ask(q) ==
    /\ ask.at \notin Busy /\ ~hub[q.node].closed
    /\ ask' = [Quiet EXCEPT !.at = IF IsTunnel THEN "dial" ELSE "route", !.how = q.how,
                            !.udp = q.udp, !.group = q.group, !.node = q.node]
    /\ UNCHANGED <<tun, end, hub, reg, memo, breaks>>

\* getRoute: the gateway of the address; the cache knows addresses only, not
\* the router they were asked for.
GetRoute ==
    /\ ask.at = "route"
    /\ LET cached == tun.caches /\ memo[N].route # Unset IN
       /\ ask' = [To("dial") EXCEPT !.gateway = IF cached THEN memo[N].route ELSE ask.group]
       /\ memo' = [memo EXCEPT ![N].route = IF tun.caches /\ ~cached THEN ask.group ELSE @]
    /\ UNCHANGED <<tun, end, hub, reg, breaks>>

\* The connectors to choose from: a tunnel has one list, a router one for
\* each host; another router has no host of that name.
Wanted(c) == Of(c).group = ask.group /\ ask.gateway = ask.group
Listed == {c \in hub[N].list : IsTunnel \/ Wanted(c)}

\* GetConnector of the tunnel: of a single connector only whether it is open
\* matters; of several the network does, and the weight 255 is exclusive.
\* The router asks only for the weight.
Choices ==
    LET single == Cardinality(Listed) = 1
        fit == {c \in Listed : IsTunnel =>
                    end[c].sess # "closed" /\ (single \/ Of(c).udp = ask.udp)}
        max == {c \in fit : Of(c).max}
    IN IF max # {} THEN max ELSE fit

Get ==
    /\ ask.at = "dial" /\ (IsTunnel \/ ask.from = Nowhere)
    /\ \/ \E c \in Choices :
            ask' = [To("open") EXCEPT !.pick = c, !.alone = Cardinality(Listed) = 1]
       \/ Choices = {} /\ ask' = To("seek")
    /\ UNCHANGED <<tun, end, hub, reg, memo, breaks>>

\* A stream of the connector that was chosen, which may have ended by now.
ConnectorGetConn ==
    LET sess == end[ask.pick].sess IN
    /\ ask.at = "open" /\ IsTunnel
    /\ \/ sess \in {"up", "broken"} /\ ask' = To("granted")
       \/ /\ sess # "up"
          /\ ask' = [ask EXCEPT !.tries = @ + 1,
                                !.at = IF ask.tries + 1 = Retry THEN "refused" ELSE "dial"]
    /\ UNCHANGED <<tun, end, hub, reg, memo, breaks>>

\* A packet is written, whatever becomes of it.
WritePacket ==
    /\ ask.at = "open" /\ ~IsTunnel
    /\ ask' = To(IF end[ask.pick].sess = "up" THEN "granted" ELSE "lost")
    /\ UNCHANGED <<tun, end, hub, reg, memo, breaks>>

\* handleEntrypoint: a packet of another node goes to a connector or nowhere.
EntrypointPacket ==
    /\ ask.at = "dial" /\ ~IsTunnel /\ ask.from # Nowhere
    /\ \/ \E c \in Choices : ask' = [To("open") EXCEPT !.pick = c]
       \/ Choices = {} /\ ask' = To("dropped")
    /\ UNCHANGED <<tun, end, hub, reg, memo, breaks>>

\* Mutant: a node asks itself too.
ServicesOwn == {c \in reg : IF IsTunnel THEN Of(c).udp = ask.udp ELSE Wanted(c)}

\* What the service discovery knows of other nodes.
Services == {c \in reg : Of(c).node # N /\ (IF IsTunnel THEN Of(c).udp = ask.udp ELSE Wanted(c))}

\* The request goes to the entry point of node m.  One for relay is not sent
\* on twice: the second entry point is answered as a connector would be.  One
\* for HTTP carries the name of the node it came through last.
Forward(m) ==
    IF hub[m].closed \/ (ask.how = "relay" /\ ask.from # Nowhere)
                     \/ (ask.how = "http" /\ m = N)
    THEN To(IF IsTunnel THEN "refused" ELSE "dropped")
    ELSE [To("dial") EXCEPT !.node = m, !.from = N, !.tries = 0]

Seek ==
    /\ ask.at = "seek" /\ IsTunnel
    /\ \/ \E c \in Services : ask' = Forward(Of(c).node)
       \/ Services = {} /\ ask' = To("refused")
    /\ UNCHANGED <<tun, end, hub, reg, memo, breaks>>

\* getAddrforRoute: also that there is none is cached.
SeekAddress ==
    /\ ask.at = "seek" /\ ~IsTunnel
    /\ LET key == <<ask.gateway, ask.group>>
           cached == {m \in Nodes \cup {Nowhere} : <<key, m>> \in memo[N].addr}
       IN \E m \in IF cached # {} THEN cached
                   ELSE IF Services = {} THEN {Nowhere} ELSE {Of(c).node : c \in Services} :
            /\ ask' = IF m = Nowhere THEN To("dropped") ELSE Forward(m)
            /\ memo' = IF tun.sd THEN [memo EXCEPT ![N].addr = @ \cup {<<key, m>>}] ELSE memo
    /\ UNCHANGED <<tun, end, hub, reg, breaks>>

\* A cached item expires.
Expire(n) ==
    /\ \/ memo[n].route # Unset /\ memo' = [memo EXCEPT ![n].route = Unset]
       \/ \E a \in memo[n].addr : memo' = [memo EXCEPT ![n].addr = @ \ {a}]
    /\ UNCHANGED <<tun, end, hub, reg, ask, breaks>>

-----------------------------------------------------------------------------

TunnelIdle ==
    /\ tun = [kind |-> "tunnel", sd |-> FALSE, lapses |-> FALSE, ends |-> <<>>, asks |-> {},
              breaks |-> 0, closes |-> {}, caches |-> FALSE]
    /\ end = [c \in Ends |-> [bind |-> "idle", sess |-> "none", wait |-> "none", late |-> {}]]
    /\ hub = [n \in Nodes |-> [tunnel |-> FALSE, list |-> {}, closed |-> FALSE]]
    /\ reg = {} /\ memo = [n \in Nodes |-> NoMemo]
    /\ ask = Quiet /\ held = FALSE /\ breaks = 0

\* A connector that the request wants is bound at its node and sound.
Held ==
    /\ ~hub[N].closed
    /\ \E c \in Bound : /\ Of(c).node = N /\ Of(c).group = ask.group /\ Of(c).udp = ask.udp
                        /\ end[c].bind \in {"added", "bound"} /\ end[c].sess = "up"

Watch ==
    held' = IF ask'.at \notin Busy THEN held
            ELSE Held' /\ (held \/ ask.at \notin Busy \/ ask'.node # ask.node)

AskStep ==
    \/ GetRoute \/ Get \/ ConnectorGetConn \/ WritePacket \/ EntrypointPacket
    \/ Seek \/ SeekAddress

EndStep(c) ==
    c \in Bound /\ (Add(c) \/ Register(c) \/ AcceptFails(c) \/ Deregister(c) \/ Del(c))

TunnelNext ==
    /\ \/ \E c \in Bound : NewConnector(c) \/ EndStep(c) \/ SessionBreaks(c) \/ Lapse(c)
       \/ \E n \in Nodes : Clean(n) \/ CloseIdles(n) \/ Close(n) \/ Expire(n)
       \/ \E q \in tun.asks : Ask(q)
       \/ AskStep
    /\ Watch

TunnelSpec == TunnelInit(TunnelConfs) /\ [][TunnelNext]_nvars

\* The goroutines of the handlers run, and the tickers tick.
TunnelFairness ==
    /\ \A c \in Ends : WF_nvars(EndStep(c) /\ Watch) /\ WF_nvars(c \in Bound /\ Lapse(c) /\ Watch)
    /\ \A n \in Nodes : WF_nvars(Clean(n) /\ Watch)
    /\ WF_nvars(AskStep /\ Watch)

-----------------------------------------------------------------------------
(* Properties.                                                             *)

\* A single connector is taken whatever its network (handler/tunnel/tunnel.go:87).
Alone == IsTunnel /\ ask.alone

\* The route that was cached is another router's (handler/router/associate.go:341).
Misrouted == ask.gateway # ask.group

\* What is granted is a connector of the tunnel, or router, and of the network
\* that was asked for; and a request is refused, a packet dropped, only where
\* at some moment no such connector was bound and sound at its node, or every
\* try found one that had just ended: neither the cleaning of connectors, nor
\* that of idle tunnels, nor the weights lose one that is there
\* (handler/tunnel/dialer.go:41).  Of the weights this is what the code does
\* and not what its comments say: "If the MaxWeight connector closes, selection
\* returns nil until clean() removes it" (handler/tunnel/tunnel.go:26-28, and
\* :15-16), while GetConnector passes over a closed connector before it looks
\* at the weight (:98) and chooses among the others at once.
RightEnd ==
    /\ ask.at = "granted" =>
         /\ Of(ask.pick).group = ask.group
         /\ Of(ask.pick).udp = ask.udp \/ Alone
    /\ ask.at \in {"refused", "dropped"} /\ held => ask.tries = Retry \/ Misrouted

\* handleBind registers after the connector may have ended and deregistered
\* (handler/tunnel/bind.go:128), and adds to a pool that may have closed
\* (handler/tunnel/bind.go:111).
Stays(c) == "gone" \in end[c].late /\ ~tun.lapses
Outlives(c) == "closed" \in end[c].late

\* When a connector has ended, or its handler was closed, it leaves the pool
\* and the registry, but for the late ones above.
LeavesNoTrace ==
    \A c \in Ends :
        c \in Bound /\ end[c].bind # "idle" /\ (end[c].sess = "closed" \/ hub[Of(c).node].closed)
          ~> \/ c \notin reg /\ end[c].sess = "closed" /\ \A n \in Nodes : c \notin hub[n].list
             \/ Stays(c) \/ Outlives(c)

\* Two nodes each of which the registry names for ever, and neither has a
\* connector: a request goes to and fro, since one for TLS carries no trace of
\* the nodes it has been through and one for HTTP only the last
\* (handler/tunnel/entrypoint/ephttp.go:145).
Circles ==
    /\ ask.how \in {"tls", "http"}
    /\ Cardinality({Of(c).node : c \in {d \in reg : Stays(d)}}) > 1

\* Every request ends: it is granted or refused however the nodes send it to
\* one another.
RequestsEnd == ask.at \in Busy ~> ask.at \notin Busy \/ Circles

=============================================================================
