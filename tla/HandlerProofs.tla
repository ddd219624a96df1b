---------------------------- MODULE HandlerProofs ----------------------------
(***************************************************************************)
(* What holds of two things handlers do.  Of the tunnel and the router     *)
(* handler, for any nodes, connectors, requests and order of events: a     *)
(* request gets a connector that it asked for, and is refused only where   *)
(* there was none.  Of the counters handlers and services keep, for any    *)
(* number of connections, any loop and any bounds: no byte is lost or      *)
(* counted twice on its way to the observer.                               *)
(***************************************************************************)
EXTENDS Tunnel, Statistics, SequenceTheorems, TLAPS

-----------------------------------------------------------------------------
(* The tunnel: the inductive invariant.                                    *)

EndType == [bind : {"idle", "made", "added", "bound"},
            sess : {"none", "up", "broken", "closed"},
            wait : {"none", "accept", "deregister", "delete", "done"},
            late : SUBSET {"closed", "gone"}]
HubType == [tunnel : BOOLEAN, list : SUBSET Bound, closed : BOOLEAN]

\* A request is a record; of its fields only the step is of a type that matters.
Steps == Busy \cup {"none", "granted", "refused", "dropped", "lost"}
AskType(q) ==
    /\ q = [at |-> q.at, how |-> q.how, udp |-> q.udp, group |-> q.group, node |-> q.node,
            from |-> q.from, gateway |-> q.gateway, pick |-> q.pick, alone |-> q.alone,
            tries |-> q.tries]
    /\ q.at \in Steps

Typed ==
    /\ tun \in TunnelConfs
    /\ end \in [Ends -> EndType]
    /\ hub \in [Nodes -> HubType]
    /\ reg \subseteq Bound
    /\ AskType(ask)

\* A connector whose reader has left is closed, and one that was added and is
\* up is in the pool of its node until that closes.
Pooled ==
    \A c \in Bound :
        /\ end[c].wait \in {"deregister", "delete", "done"} => end[c].sess = "closed"
        /\ end[c].bind \in {"added", "bound"} /\ end[c].sess = "up" /\ ~hub[Of(c).node].closed
             => c \in hub[Of(c).node].list

\* The request is one of those that come, and is at a node.
Asked ==
    /\ ask.at # "none" => \E q \in tun.asks : q.group = ask.group /\ q.udp = ask.udp
    /\ ask.at \in Busy => ask.node \in Nodes

\* The connector that was picked is one that was asked for.
Picked ==
    ask.at \in {"open", "granted"} =>
        /\ ask.pick \in Bound
        /\ Of(ask.pick).group = ask.group
        /\ Of(ask.pick).udp = ask.udp \/ Alone

\* The history holds what it stands for; a request that looks further, or was
\* turned away, had no connector at its node.
Watched ==
    /\ ask.at \in Busy /\ held => Held
    /\ ask.at = "seek" /\ held => Misrouted
    /\ ask.at \in {"refused", "dropped"} /\ held => ask.tries = Retry \/ Misrouted

IInv == Typed /\ Pooled /\ Asked /\ Picked /\ Watched

-----------------------------------------------------------------------------
(* What a request chooses from.                                            *)

\* The connectors of a request are in the pool of its node, and wanted.
LEMMA ChoicesAre ==
    ASSUME Typed, N \in Nodes, NEW c \in Choices
    PROVE  /\ c \in Bound /\ c \in hub[N].list
           /\ IsTunnel => Of(c).udp = ask.udp \/ Cardinality(Listed) = 1
           /\ ~IsTunnel => Of(c).group = ask.group
<1>1. c \in Listed
  BY Zenon DEF Choices
<1>2. c \in hub[N].list /\ (IsTunnel \/ Wanted(c))
  BY Zenon, <1>1 DEF Listed
<1>3. IsTunnel => Of(c).udp = ask.udp \/ Cardinality(Listed) = 1
  BY Zenon DEF Choices
<1> QED
  BY Zenon, <1>2, <1>3 DEF Typed, HubType, Wanted

\* Where a connector is bound and sound, there is one to choose, unless the
\* packet was given the route of another router.
LEMMA HeldIsChosen ==
    ASSUME Typed, Pooled, Held, ~Misrouted
    PROVE  Choices # {}
<1>1. PICK c \in Bound : /\ Of(c).node = N /\ Of(c).group = ask.group /\ Of(c).udp = ask.udp
                         /\ end[c].bind \in {"added", "bound"} /\ end[c].sess = "up"
  BY Zenon DEF Held
<1>2. c \in hub[N].list
  BY Zenon, <1>1 DEF Held, Pooled
<1>3. c \in Listed
  BY Zenon, <1>1, <1>2 DEF Listed, Wanted, Misrouted
<1>4. c \in {d \in Listed : IsTunnel =>
                end[d].sess # "closed" /\ (Cardinality(Listed) = 1 \/ Of(d).udp = ask.udp)}
  BY Zenon, <1>1, <1>3
<1> QED
  BY Zenon, <1>4 DEF Choices

-----------------------------------------------------------------------------
(* The connectors.                                                         *)

\* A step that leaves the request alone keeps what is known of it.
LEMMA AskUnchanged ==
    ASSUME IInv, UNCHANGED <<tun, ask>>, Watch
    PROVE  Asked' /\ Picked' /\ Watched' /\ AskType(ask)'
<1>1. Asked' /\ Picked' /\ AskType(ask)'
  BY Zenon DEF IInv, Typed, Asked, Picked, AskType, Bound, Of, Alone, IsTunnel
<1>2. Watched'
  BY Zenon DEF IInv, Watched, Watch, Misrouted
<1> QED
  BY Zenon, <1>1, <1>2

\* Binding keeps the pools.
LEMMA BindOK ==
    ASSUME IInv, NEW c \in Bound, NewConnector(c) \/ Add(c) \/ Register(c)
    PROVE  /\ UNCHANGED <<tun, ask>>
           /\ end' \in [Ends -> EndType] /\ hub' \in [Nodes -> HubType'] /\ Pooled'
<1>1. /\ tun \in TunnelConfs /\ end \in [Ends -> EndType] /\ hub \in [Nodes -> HubType]
      /\ Bound \subseteq Ends /\ c \in Ends /\ Of(c).node \in Nodes /\ Pooled
  BY Zenon, TunnelConfsAssumption DEF IInv, Typed, Bound, Of
<1>2. UNCHANGED <<tun, ask>> /\ Bound' = Bound /\ (\A d : Of(d)' = Of(d)) /\ HubType' = HubType
  BY Zenon DEF NewConnector, Add, Register, Bound, Of, HubType
<1>3. CASE NewConnector(c)
  <2>1. end' \in [Ends -> EndType] /\ hub' = hub
    BY Zenon, <1>1, <1>3 DEF NewConnector, EndType
  <2>2. ASSUME NEW d \in Bound
        PROVE  /\ end'[d].wait \in {"deregister", "delete", "done"} => end'[d].sess = "closed"
               /\ end'[d].bind \in {"added", "bound"} =>
                    end'[d].bind = end[d].bind /\ end'[d].sess = end[d].sess
    BY Zenon, <1>1, <1>3, <2>2 DEF NewConnector, EndType, Pooled
  <2> QED
    BY Zenon, <1>1, <1>2, <2>1, <2>2 DEF Pooled
<1>4. CASE Add(c)
  <2> DEFINE n == Of(c).node
             late == IF hub[n].closed THEN end[c].late \cup {"closed"} ELSE end[c].late
  <2>0. late \in SUBSET {"closed", "gone"}
    BY Zenon, <1>1 DEF EndType
  <2>1. end' = [end EXCEPT ![c] = [end[c] EXCEPT !.bind = "added", !.late = late]]
    BY Zenon, <1>1, <1>4 DEF Add
  <2> HIDE DEF late
  <2> DEFINE r == [end[c] EXCEPT !.bind = "added", !.late = late]
  <2>2. r \in EndType /\ r.wait = end[c].wait /\ r.sess = end[c].sess
    BY Zenon, <1>1, <2>0 DEF EndType
  <2>3. /\ hub' \in [Nodes -> HubType] /\ c \in hub'[n].list
        /\ \A m \in Nodes : hub'[m].closed = hub[m].closed /\ hub[m].list \subseteq hub'[m].list
    BY Zenon, <1>1, <1>4 DEF Add, HubType
  <2>4. /\ end' \in [Ends -> EndType]
        /\ \A d \in Bound : /\ end'[d].wait = end[d].wait /\ end'[d].sess = end[d].sess
                            /\ d # c => end'[d].bind = end[d].bind
    BY Zenon, <1>1, <2>1, <2>2
  <2>5. \A d \in Bound : Of(d).node \in Nodes
    BY Zenon, <1>1, TunnelConfsAssumption DEF Bound, Of
  <2> QED
    BY Zenon, <1>1, <1>2, <2>3, <2>4, <2>5 DEF Pooled
<1>5. CASE Register(c)
  <2> DEFINE late == IF end[c].wait = "done" THEN end[c].late \cup {"gone"} ELSE end[c].late
  <2>0. late \in SUBSET {"closed", "gone"} /\ end[c].bind = "added"
    BY Zenon, <1>1, <1>5 DEF EndType, Register
  <2>1. end' = [end EXCEPT ![c] = [end[c] EXCEPT !.bind = "bound", !.late = late]] /\ hub' = hub
    BY Zenon, <1>1, <1>5 DEF Register
  <2> HIDE DEF late
  <2> DEFINE r == [end[c] EXCEPT !.bind = "bound", !.late = late]
  <2>3. r \in EndType /\ r.wait = end[c].wait /\ r.sess = end[c].sess
    BY Zenon, <1>1, <2>0 DEF EndType
  <2>2. end' \in [Ends -> EndType] /\ \A d \in Bound : /\ end'[d].wait = end[d].wait /\ end'[d].sess = end[d].sess
                         /\ end'[d].bind \in {"added", "bound"} => end[d].bind \in {"added", "bound"}
    BY Zenon, <1>1, <2>0, <2>1, <2>3
  <2> QED
    BY <1>1, <1>2, <2>1, <2>2 DEF Pooled
<1> QED
  BY Zenon, <1>2, <1>3, <1>4, <1>5

\* So does the end of a connector: what leaves a pool is closed.
LEMMA EndOK ==
    ASSUME IInv, NEW c \in Bound,
           SessionBreaks(c) \/ AcceptFails(c) \/ Deregister(c) \/ Del(c) \/ Lapse(c)
    PROVE  /\ UNCHANGED <<tun, ask>>
           /\ end' \in [Ends -> EndType] /\ hub' \in [Nodes -> HubType'] /\ Pooled'
<1>1. /\ tun \in TunnelConfs /\ end \in [Ends -> EndType] /\ hub \in [Nodes -> HubType]
      /\ Bound \subseteq Ends /\ c \in Ends /\ Of(c).node \in Nodes /\ Pooled
  BY Zenon, TunnelConfsAssumption DEF IInv, Typed, Bound, Of
<1>2. UNCHANGED <<tun, ask>> /\ Bound' = Bound /\ (\A d : Of(d)' = Of(d)) /\ HubType' = HubType
  BY Zenon DEF SessionBreaks, AcceptFails, Deregister, Del, Lapse, Bound, Of, HubType
<1>3. ASSUME NEW s \in {"broken", "closed", end[c].sess},
             NEW w \in {end[c].wait, "deregister", "delete", "done"},
             w \in {"deregister", "delete", "done"} => s = "closed",
             end' = [end EXCEPT ![c] = [end[c] EXCEPT !.sess = s, !.wait = w]]
      PROVE  /\ end' \in [Ends -> EndType]
             /\ \A d \in Bound :
                  /\ end'[d].wait \in {"deregister", "delete", "done"} => end'[d].sess = "closed"
                  /\ end'[d].sess = "up" => end[d].sess = "up"
                  /\ end'[d].bind = end[d].bind
  <2> DEFINE r == [end[c] EXCEPT !.sess = s, !.wait = w]
  <2>1. /\ r \in EndType /\ r.wait = w /\ r.sess = s /\ r.bind = end[c].bind
        /\ s = "up" => end[c].sess = "up"
    BY Zenon, <1>1, <1>3 DEF EndType
  <2>2. \A d \in Ends : end'[d] = IF d = c THEN r ELSE end[d]
    BY Zenon, <1>1, <1>3
  <2>3. end' \in [Ends -> EndType]
    BY Zenon, <1>1, <1>3, <2>1
  <2> HIDE DEF r
  <2> QED
    BY Zenon, <1>1, <1>3, <2>1, <2>2, <2>3 DEF Pooled
<1>4. /\ end' \in [Ends -> EndType]
      /\ \A d \in Bound :
           /\ end'[d].wait \in {"deregister", "delete", "done"} => end'[d].sess = "closed"
           /\ end'[d].sess = "up" => end[d].sess = "up"
           /\ end'[d].bind = end[d].bind
  <2>0. end[c].wait \in {"deregister", "delete", "done"} => end[c].sess = "closed"
    BY Zenon, <1>1 DEF Pooled
  <2>1. CASE SessionBreaks(c)
    <3>1. /\ end' = [end EXCEPT ![c] = [end[c] EXCEPT !.sess = "broken", !.wait = end[c].wait]]
          /\ end[c].sess = "up"
      BY Zenon, <1>1, <2>1 DEF SessionBreaks, EndType
    <3> QED
      BY Zenon, <1>3, <2>0, <3>1
  <2>2. CASE AcceptFails(c)
    <3>1. end' = [end EXCEPT ![c] = [end[c] EXCEPT !.sess = "closed", !.wait = "deregister"]]
      BY Zenon, <2>2 DEF AcceptFails
    <3> QED
      BY Zenon, <1>3, <3>1
  <2>3. CASE Deregister(c)
    <3>1. PICK w \in {"delete", "done"} :
            end' = [end EXCEPT ![c] = [end[c] EXCEPT !.sess = end[c].sess, !.wait = w]]
      BY Zenon, <1>1, <2>3 DEF Deregister, EndType
    <3> QED
      BY Zenon, <1>3, <2>0, <2>3, <3>1 DEF Deregister
  <2>4. CASE Del(c)
    <3>1. end' = [end EXCEPT ![c] = [end[c] EXCEPT !.sess = end[c].sess, !.wait = "done"]]
      BY Zenon, <1>1, <2>4 DEF Del, EndType
    <3> QED
      BY Zenon, <1>3, <2>0, <2>4, <3>1 DEF Del
  <2>5. CASE Lapse(c)
    BY Zenon, <1>1, <2>5 DEF Lapse, Pooled
  <2> QED
    BY Zenon, <2>1, <2>2, <2>3, <2>4, <2>5
<1>5. CASE UNCHANGED hub
  BY Zenon, <1>1, <1>2, <1>4, <1>5 DEF Pooled
<1>6. CASE Del(c)
  <2>1. end[c].sess = "closed" /\ end'[c].sess = "closed"
    BY Zenon, <1>1, <1>6 DEF Del, Pooled, EndType
  <2>2. hub' \in [Nodes -> HubType]
    BY Zenon, <1>1, <1>6 DEF Del, HubType
  <2>3. \A n \in Nodes : hub'[n].closed = hub[n].closed /\ hub[n].list \subseteq hub'[n].list \cup {c}
    BY Zenon, <1>1, <1>6 DEF Del, HubType
  <2>4. \A d \in Bound : Of(d).node \in Nodes
    BY Zenon, <1>1, TunnelConfsAssumption DEF Bound, Of
  <2> QED
    BY Zenon, <1>1, <1>2, <1>4, <2>1, <2>2, <2>3, <2>4 DEF Pooled
<1> QED
  BY Zenon, <1>1, <1>2, <1>4, <1>5, <1>6 DEF SessionBreaks, AcceptFails, Deregister, Lapse

\* The tickers and Close of a node drop what is closed, or close what they drop.
LEMMA NodeOK ==
    ASSUME IInv, NEW n \in Nodes, Clean(n) \/ CloseIdles(n) \/ Close(n) \/ Expire(n)
    PROVE  /\ UNCHANGED <<tun, ask>>
           /\ end' \in [Ends -> EndType] /\ hub' \in [Nodes -> HubType'] /\ Pooled'
<1>1. /\ tun \in TunnelConfs /\ end \in [Ends -> EndType] /\ hub \in [Nodes -> HubType]
      /\ Bound \subseteq Ends /\ Pooled /\ \A c \in Bound : Of(c).node \in Nodes
  BY Zenon, TunnelConfsAssumption DEF IInv, Typed, Bound, Of
<1>2. UNCHANGED <<tun, ask>> /\ Bound' = Bound /\ (\A d : Of(d)' = Of(d)) /\ HubType' = HubType
  BY Zenon DEF Clean, CloseIdles, Close, Expire, Bound, Of, HubType
<1>3. CASE Clean(n)
  <2>1. /\ end' = end /\ hub' \in [Nodes -> HubType]
        /\ \A m \in Nodes : /\ hub'[m].closed = hub[m].closed
                            /\ \A c \in hub[m].list : end[c].sess # "closed" => c \in hub'[m].list
    BY Zenon, <1>1, <1>3 DEF Clean, HubType
  <2> QED
    BY Zenon, <1>1, <1>2, <2>1 DEF Pooled
<1>4. CASE CloseIdles(n)
  <2>1. /\ end' = end /\ hub' \in [Nodes -> HubType]
        /\ \A m \in Nodes : hub'[m].closed = hub[m].closed /\ hub'[m].list = hub[m].list
    BY Zenon, <1>1, <1>4 DEF CloseIdles, HubType
  <2> QED
    BY Zenon, <1>1, <1>2, <2>1 DEF Pooled
<1>5. CASE Close(n)
  <2>1. hub' = [hub EXCEPT ![n] = [tunnel |-> FALSE, list |-> {}, closed |-> TRUE]]
    BY Zenon, <1>5 DEF Close
  <2>2. [tunnel |-> FALSE, list |-> {}, closed |-> TRUE] \in HubType
    BY Zenon DEF HubType
  <2>3. hub' \in [Nodes -> HubType] /\ hub'[n].closed /\ \A m \in Nodes \ {n} : hub'[m] = hub[m]
    BY Zenon, <1>1, <2>1, <2>2
  <2>4. ASSUME NEW c \in Ends
        PROVE  /\ end'[c] \in EndType /\ end'[c].bind = end[c].bind /\ end'[c].wait = end[c].wait
               /\ end'[c].sess \in {end[c].sess, "closed"}
    BY Zenon, <1>1, <1>5 DEF Close, EndType
  <2>5. end' \in [Ends -> EndType]
    BY Zenon, <1>5, <2>4 DEF Close
  <2> QED
    BY <1>1, <1>2, <2>3, <2>4, <2>5 DEF Pooled
<1>6. CASE Expire(n)
  BY Zenon, <1>1, <1>2, <1>6 DEF Expire, Pooled
<1> QED
  BY Zenon, <1>2, <1>3, <1>4, <1>5, <1>6

\* What is registered is a connector.
LEMMA RegisteredOK ==
    ASSUME IInv,
           \/ \E c \in Bound : NewConnector(c) \/ EndStep(c) \/ SessionBreaks(c) \/ Lapse(c)
           \/ \E n \in Nodes : Clean(n) \/ CloseIdles(n) \/ Close(n) \/ Expire(n)
    PROVE  reg' \subseteq Bound'
<1>1. ASSUME NEW c \in Bound, NewConnector(c) \/ EndStep(c) \/ SessionBreaks(c) \/ Lapse(c)
      PROVE  tun' = tun /\ reg' \subseteq reg \cup {c}
  BY Zenon, <1>1 DEF NewConnector, EndStep, Add, Register, AcceptFails, Deregister, Del,
              SessionBreaks, Lapse
<1>2. ASSUME NEW n \in Nodes, Clean(n) \/ CloseIdles(n) \/ Close(n) \/ Expire(n)
      PROVE  tun' = tun /\ reg' = reg
  BY Zenon, <1>2 DEF Clean, CloseIdles, Close, Expire
<1> QED
  BY Zenon, <1>1, <1>2 DEF IInv, Typed, Bound

-----------------------------------------------------------------------------
(* The request.                                                            *)

\* A request that is on its way again, or turned away, holds no connector.
LEMMA MovedOK ==
    ASSUME IInv, UNCHANGED <<tun, end, hub, reg>>, Watch, AskType(ask'),
           ask'.at \in Busy => ask'.node \in Nodes,
           \E q \in tun.asks : q.group = ask'.group /\ q.udp = ask'.udp,
           ask'.at \notin {"open", "granted"},
           ask'.at = "seek" /\ Held' => ask'.gateway # ask'.group,
           ask'.at \in {"refused", "dropped"} /\ held => ask'.tries = Retry \/ ask'.gateway # ask'.group
    PROVE  IInv'
<1>1. Typed' /\ Pooled' /\ Asked' /\ Picked'
  BY Zenon DEF IInv, Typed, HubType, Pooled, Asked, Picked, Bound, Of, AskType
<1>2. Watched'
  BY Zenon DEF Watched, Watch, Misrouted, Busy
<1> QED
  BY Zenon, <1>1, <1>2 DEF IInv

\* A request arrives.
LEMMA AskOK ==
    ASSUME IInv, NEW q \in tun.asks, Ask(q), Watch
    PROVE  IInv'
<1>1. /\ ask'.at \in {"dial", "route"} /\ ask'.group = q.group /\ ask'.udp = q.udp
      /\ AskType(ask')
  BY Zenon DEF Ask, Quiet, AskType, Steps, Busy
<1> QED
  <2>1. q.node \in Nodes /\ ask'.node = q.node
    BY Zenon, TunnelConfsAssumption DEF IInv, Typed, Ask, Quiet
  <2> QED
    BY Zenon, <1>1, <2>1, MovedOK DEF Ask

\* The route of a packet is found.
LEMMA GetRouteOK ==
    ASSUME IInv, GetRoute, Watch
    PROVE  IInv'
<1>1. AskType(ask) /\ ask.at # "none" /\ Asked
  BY Zenon DEF IInv, Typed, GetRoute
<1>2. /\ ask'.at = "dial" /\ ask'.group = ask.group /\ ask'.udp = ask.udp
      /\ ask'.node = ask.node /\ AskType(ask')
  BY Zenon, <1>1 DEF GetRoute, To, AskType, Steps, Busy
<1>3. ask.node \in Nodes
  BY Zenon, <1>1 DEF GetRoute, Asked, Busy
<1> QED
  BY Zenon, <1>1, <1>2, <1>3, MovedOK DEF GetRoute, Asked

\* A connector that may be chosen is one that the request asked for: of its
\* network, or the only one of the tunnel.
LEMMA ChoiceIsRight ==
    ASSUME IInv, ask.at = "dial", NEW c \in Choices
    PROVE  /\ c \in Bound /\ Of(c).group = ask.group
           /\ Of(c).udp = ask.udp \/ (IsTunnel /\ Cardinality(Listed) = 1)
<1>1. Typed /\ N \in Nodes /\ tun \in TunnelConfs
  BY Zenon DEF IInv, Typed, Asked, Busy, N
<1>2. PICK q \in tun.asks : q.group = ask.group /\ q.udp = ask.udp
  BY Zenon DEF IInv, Asked
<1>3. /\ c \in Bound
      /\ IsTunnel => Of(c).udp = ask.udp \/ Cardinality(Listed) = 1
      /\ ~IsTunnel => Of(c).group = ask.group
  BY Zenon, <1>1, ChoicesAre
<1>4. IF IsTunnel THEN Of(c).group = q.group ELSE Of(c).udp = q.udp
  BY Zenon, <1>1, <1>3, TunnelConfsAssumption DEF Bound, Of, IsTunnel
<1> QED
  BY Zenon, <1>2, <1>3, <1>4

\* A request that has picked a connector, or is granted it.
LEMMA PickedOK ==
    ASSUME IInv, UNCHANGED <<tun, end, hub, reg>>, Watch, AskType(ask'), ask.at \in Busy,
           ask'.node = ask.node, ask'.group = ask.group, ask'.udp = ask.udp,
           ask'.at \in {"open", "granted"}, ask'.pick \in Bound,
           Of(ask'.pick).group = ask.group,
           Of(ask'.pick).udp = ask.udp \/ (IsTunnel /\ ask'.alone)
    PROVE  IInv'
<1>1. Typed' /\ Pooled'
  BY Zenon DEF IInv, Typed, HubType, Pooled, Bound, Of, AskType
<1>2. Asked' /\ Picked'
  BY Zenon DEF IInv, Asked, Picked, Bound, Of, Alone, IsTunnel, Busy
<1>3. Watched'
  BY Zenon DEF Watched, Watch, Misrouted, Busy
<1> QED
  BY Zenon, <1>1, <1>2, <1>3 DEF IInv

\* A connector of the node is chosen, or there is none.
LEMMA GetOK ==
    ASSUME IInv, Get \/ EntrypointPacket, Watch
    PROVE  IInv'
<1>1. /\ AskType(ask) /\ Asked /\ ask.at = "dial" /\ ask.at \in Busy /\ ask.node \in Nodes
      /\ UNCHANGED <<tun, end, hub, reg>> /\ Typed /\ Pooled /\ Watched
  BY Zenon DEF IInv, Typed, Get, EntrypointPacket, Busy, Asked
<1>2. ASSUME NEW c \in Choices,
             \/ ask' = [To("open") EXCEPT !.pick = c, !.alone = Cardinality(Listed) = 1]
             \/ ~IsTunnel /\ ask' = [To("open") EXCEPT !.pick = c]
      PROVE  IInv'
  <2>1. /\ AskType(ask') /\ ask'.node = ask.node /\ ask'.group = ask.group
        /\ ask'.udp = ask.udp /\ ask'.at = "open" /\ ask'.pick = c
        /\ IsTunnel => ask'.alone = (Cardinality(Listed) = 1)
    <3>1. CASE ask' = [To("open") EXCEPT !.pick = c, !.alone = Cardinality(Listed) = 1]
      <4> DEFINE b == Cardinality(Listed) = 1
      <4>1. ask' = [To("open") EXCEPT !.pick = c, !.alone = b]
        BY Zenon, <3>1
      <4> HIDE DEF b
      <4>2. AskType(ask') /\ ask'.node = ask.node /\ ask'.group = ask.group
            /\ ask'.udp = ask.udp /\ ask'.at = "open" /\ ask'.pick = c /\ ask'.alone = b
        BY Zenon, <1>1, <4>1 DEF To, AskType, Steps, Busy
      <4> QED
        BY Zenon, <4>2 DEF b
    <3>2. CASE ~IsTunnel /\ ask' = [To("open") EXCEPT !.pick = c]
      BY Zenon, <1>1, <3>2 DEF To, AskType, Steps, Busy
    <3> QED
      BY Zenon, <1>2, <3>1, <3>2
  <2>2. /\ c \in Bound /\ Of(c).group = ask.group
        /\ Of(c).udp = ask.udp \/ (IsTunnel /\ Cardinality(Listed) = 1)
    BY Zenon, <1>1, ChoiceIsRight
  <2> QED
    BY Zenon, <1>1, <2>1, <2>2, PickedOK
<1>3. ASSUME Choices = {}, NEW p \in {"seek", "dropped"}, ask' = To(p)
      PROVE  IInv'
  <2>1. /\ AskType(ask') /\ ask'.node = ask.node /\ ask'.group = ask.group
        /\ ask'.udp = ask.udp /\ ask'.at = p /\ ask'.gateway = ask.gateway
    BY Zenon, <1>1, <1>3 DEF To, AskType, Steps, Busy
  <2>2. Held => Misrouted
    BY Zenon, <1>1, <1>3, HeldIsChosen
  <2>3. Held' => Held
    BY Zenon, <1>1, <2>1 DEF Held, N, Bound, Of
  <2>4. held => Held
    BY Zenon, <1>1 DEF Watched
  <2> QED
    BY Zenon, <1>1, <1>3, <2>1, <2>2, <2>3, <2>4, MovedOK DEF Asked, Misrouted
<1> QED
  BY Zenon, <1>2, <1>3 DEF Get, EntrypointPacket

\* The stream is opened, or the packet written.
LEMMA OpenOK ==
    ASSUME IInv, ConnectorGetConn \/ WritePacket, Watch
    PROVE  IInv'
<1>1. /\ AskType(ask) /\ Asked /\ ask.at = "open" /\ ask.at \in Busy /\ ask.node \in Nodes
      /\ UNCHANGED <<tun, end, hub, reg>> /\ Picked
  BY Zenon DEF IInv, Typed, ConnectorGetConn, WritePacket, Busy, Asked
<1>2. CASE ask' = To("granted")
  <2>1. /\ AskType(ask') /\ ask'.node = ask.node /\ ask'.group = ask.group
        /\ ask'.udp = ask.udp /\ ask'.at = "granted" /\ ask'.pick = ask.pick
        /\ ask'.alone = ask.alone
    BY Zenon, <1>1, <1>2 DEF To, AskType, Steps, Busy
  <2> QED
    BY Zenon, <1>1, <2>1, PickedOK DEF Picked, Alone
<1>3. CASE ask' = To("lost")
  <2>1. /\ AskType(ask') /\ ask'.group = ask.group /\ ask'.udp = ask.udp /\ ask'.at = "lost"
    BY Zenon, <1>1, <1>3 DEF To, AskType, Steps, Busy
  <2> QED
    BY Zenon, <1>1, <2>1, MovedOK DEF Asked, Busy
<1>4. CASE ask' = [ask EXCEPT !.tries = @ + 1,
                              !.at = IF ask.tries + 1 = Retry THEN "refused" ELSE "dial"]
  <2>1. /\ AskType(ask') /\ ask'.node = ask.node /\ ask'.group = ask.group
        /\ ask'.udp = ask.udp /\ ask'.tries = ask.tries + 1
        /\ ask'.at = IF ask.tries + 1 = Retry THEN "refused" ELSE "dial"
    BY Zenon, <1>1, <1>4 DEF To, AskType, Steps, Busy
  <2> QED
    BY Zenon, <1>1, <2>1, MovedOK DEF Asked
<1> QED
  BY Zenon, <1>2, <1>3, <1>4 DEF ConnectorGetConn, WritePacket

\* The request goes to another node, or no further.
LEMMA SeekOK ==
    ASSUME IInv, Seek \/ SeekAddress, Watch
    PROVE  IInv'
<1>1. /\ AskType(ask) /\ Asked /\ ask.at = "seek" /\ ask.at \in Busy /\ ask.node \in Nodes
      /\ UNCHANGED <<tun, end, hub, reg>> /\ Watched /\ reg \subseteq Bound
      /\ tun \in TunnelConfs
  BY Zenon DEF IInv, Typed, Seek, SeekAddress, Busy, Asked
<1>2. ASSUME NEW p \in {"refused", "dropped"}, ask' = To(p)
      PROVE  IInv'
  <2>1. /\ AskType(ask') /\ ask'.group = ask.group /\ ask'.udp = ask.udp /\ ask'.at = p
        /\ ask'.gateway = ask.gateway
    BY Zenon, <1>1, <1>2 DEF To, AskType, Steps, Busy
  <2> QED
    BY Zenon, <1>1, <1>2, <2>1, MovedOK DEF Asked, Watched, Misrouted, Busy
<1>3. ASSUME NEW m \in Nodes, ask' = Forward(m)
      PROVE  IInv'
  <2>1. CASE ask' = [To("dial") EXCEPT !.node = m, !.from = N, !.tries = 0]
    <3>1. /\ AskType(ask') /\ ask'.group = ask.group /\ ask'.udp = ask.udp /\ ask'.at = "dial"
          /\ ask'.node = m
      BY Zenon, <1>1, <2>1 DEF To, AskType, Steps, Busy
    <3> QED
      BY Zenon, <1>1, <3>1, MovedOK DEF Asked
  <2> QED
    BY Zenon, <1>2, <1>3, <2>1 DEF Forward
<1>4. \A c \in Services : Of(c).node \in Nodes
  BY Zenon, <1>1, TunnelConfsAssumption DEF Services, Bound, Of
<1>5. CASE Seek
  BY Zenon, <1>2, <1>3, <1>4, <1>5 DEF Seek
<1>6. CASE SeekAddress
  <2>1. PICK m \in Nodes \cup {Nowhere} :
               ask' = IF m = Nowhere THEN To("dropped") ELSE Forward(m)
    BY Zenon, <1>4, <1>6 DEF SeekAddress
  <2> QED
    BY Zenon, <1>2, <1>3, <2>1
<1> QED
  BY Zenon, <1>5, <1>6

-----------------------------------------------------------------------------
(* The theorem.                                                            *)

LEMMA InitOK == TunnelInit(TunnelConfs) => IInv
<1> SUFFICES ASSUME TunnelInit(TunnelConfs) PROVE IInv
  BY Zenon
<1>1. /\ tun \in TunnelConfs /\ ask = Quiet /\ ask.at = "none" /\ reg = {}
      /\ Bound \subseteq Ends /\ \A c \in Bound : Of(c).node \in Nodes
  BY Zenon, TunnelConfsAssumption DEF TunnelInit, Quiet, Bound, Of
<1>2. end \in [Ends -> EndType] /\ hub \in [Nodes -> HubType]
  BY Zenon DEF TunnelInit, EndType, HubType
<1>3. AskType(ask)
  BY Zenon, <1>1 DEF Quiet, AskType, Steps
<1>4. Pooled
  BY Zenon, <1>1 DEF TunnelInit, Pooled
<1> QED
  BY Zenon, <1>1, <1>2, <1>3, <1>4 DEF IInv, Typed, Asked, Picked, Watched, Busy

\* Every step keeps the invariant.
LEMMA NextOK == IInv /\ [TunnelNext]_nvars => IInv'
<1> SUFFICES ASSUME IInv, [TunnelNext]_nvars PROVE IInv'
  BY Zenon
<1>1. ASSUME Watch, UNCHANGED <<tun, ask>>, end' \in [Ends -> EndType],
             hub' \in [Nodes -> HubType'], Pooled', reg' \subseteq Bound'
      PROVE  IInv'
  BY Zenon, <1>1, AskUnchanged DEF IInv, Typed
<1>2. ASSUME Watch, NEW c \in Bound,
             NewConnector(c) \/ EndStep(c) \/ SessionBreaks(c) \/ Lapse(c)
      PROVE  IInv'
  BY Zenon, <1>1, <1>2, BindOK, EndOK, RegisteredOK DEF EndStep
<1>3. ASSUME Watch, NEW n \in Nodes, Clean(n) \/ CloseIdles(n) \/ Close(n) \/ Expire(n)
      PROVE  IInv'
  BY Zenon, <1>1, <1>3, NodeOK, RegisteredOK
<1>4. ASSUME Watch, AskStep PROVE IInv'
  BY Zenon, <1>4, GetRouteOK, GetOK, OpenOK, SeekOK DEF AskStep
<1>5. ASSUME Watch, NEW q \in tun.asks, Ask(q) PROVE IInv'
  BY Zenon, <1>5, AskOK
<1>6. CASE UNCHANGED nvars
  <2>1. UNCHANGED <<tun, end, hub, reg, ask, held>>
    BY Zenon, <1>6 DEF nvars
  <2>2. Typed' /\ Pooled' /\ Asked'
    BY Zenon, <2>1 DEF IInv, Typed, Pooled, Asked, HubType, Bound, Of, AskType
  <2>3. Picked' /\ Watched'
    BY Zenon, <2>1 DEF IInv, Picked, Watched, Held, N, Bound, Of, Alone, IsTunnel, Misrouted
  <2> QED
    BY Zenon, <2>2, <2>3 DEF IInv
<1> QED
  BY Zenon, <1>2, <1>3, <1>4, <1>5, <1>6 DEF TunnelNext

\* For any nodes, connectors and requests: GetConnector and the packets of the
\* router give a request a connector of its tunnel and network, and Dial refuses,
\* or handleEntrypoint drops, only where there was none, every try found one that
\* had just ended, or the cached route was another router's.
THEOREM RequestsFindTheirEnd == TunnelSpec => []RightEnd
<1>1. IInv => RightEnd
  BY Zenon DEF IInv, Picked, Watched, RightEnd
<1> QED
  BY <1>1, InitOK, NextOK, PTL DEF TunnelSpec

-----------------------------------------------------------------------------
(* The counters: the inductive invariant.                                  *)

Use == [loop : DOMAIN ObserveStats, who : Owners, reset : BOOLEAN,
        users : SUBSET Users, api : Nat, faults : Nat, cancel : BOOLEAN]

\* An Add of bytes never subtracts.
AnAdd == {a \in Kinds \X Int : a[1] = "bytes" => a[2] \in Nat}
Values == {v \in [Kinds -> Int] : v.bytes \in Nat}
Event == Values \cup {NoEvent}
StatsSet == [val : Values, updated : BOOLEAN]

UserState == [pc : {"look", "make", "count", "flag"},
              at : {NoStats} \cup DOMAIN heap, adds : Seq(AnAdd)]

StatsTypeOK ==
  /\ su \in Use
  /\ heap \in Seq(StatsSet)
  /\ table \in {NoStats} \cup DOMAIN heap
  /\ user \in [Users -> UserState]
  /\ obs \in [pc : {"idle", "resend", "check", "read", "bytes", "send", "end"},
              events : Event, evs : Event]
  /\ told \in [last : [Kinds -> Int], bytes : Int, again : Int]
  /\ counted \in Int /\ shown \in Int

\* A connection that counts holds the counters the table has, and so does the
\* loop; a connection that sets the flag has an Add in hand.
CountersHeld ==
  /\ \A c \in Users : user[c].pc \in {"count", "flag"} /\ user[c].adds # <<>> =>
       user[c].at = table /\ table # NoStats
  /\ \A c \in Users : user[c].pc = "flag" => user[c].adds # <<>>
  /\ obs.pc \in {"read", "bytes", "send"} => table # NoStats
  /\ obs.pc \in {"bytes", "send"} => obs.evs \in Values
  /\ obs.pc = "resend" => obs.events # NoEvent
  /\ su.who = "service" => table # NoStats

Kept == IF table = NoStats THEN 0 ELSE heap[table].val.bytes

\* NothingUncounted, also before there are counters.
Conserved ==
  su.reset => Kept + InHand + told.bytes + shown = counted + told.again

SInv == StatsTypeOK /\ CountersHeld /\ Conserved

\* Every loop keeps what the observer refused, and waits or goes on after a
\* resend (the ten copies of observeStats).
LEMMA LoopsKeep ==
  ASSUME NEW l \in DOMAIN ObserveStats
  PROVE  /\ ObserveStats[l].refused = "kept"
         /\ ObserveStats[l].resent \in {"idle", "check"}
BY DEF ObserveStats, ServiceObserveStats, HttpObserveStats, Http2ObserveStats,
       RelayObserveStats, Socks4ObserveStats, Socks5ObserveStats,
       TungoObserveStats, TunnelObserveStats, RouterObserveStats,
       MasqueObserveStats

\* The Adds of a connection (WrapConn, conn.Read, conn.Close) are a sequence
\* of Adds in which bytes are only added.
LEMMA AddsType ==
  ASSUME NEW w, NEW f
  PROVE  Adds(w, f) \in Seq(AnAdd)
<1>1. /\ <<"total", 1>> \in AnAdd /\ <<"cur", 1>> \in AnAdd
      /\ <<"bytes", 1>> \in AnAdd /\ <<"cur", -1>> \in AnAdd
      /\ <<"errs", 1>> \in AnAdd
  BY DEF AnAdd, Kinds
<1>2. /\ Opening \in Seq(AnAdd) /\ <<>> \in Seq(AnAdd)
      /\ <<<<"bytes", 1>>>> \in Seq(AnAdd) /\ <<<<"cur", -1>>>> \in Seq(AnAdd)
      /\ <<<<"errs", 1>>>> \in Seq(AnAdd)
  BY <1>1 DEF Opening
<1>3. \A b, s : s \in Seq(AnAdd) => When(b, s) \in Seq(AnAdd)
  BY Zenon, <1>2 DEF When
<1>4. \A s, t \in Seq(AnAdd) : s \o t \in Seq(AnAdd)
  OBVIOUS
<1> QED BY Zenon, <1>2, <1>3, <1>4 DEF Adds

\* Replacing one counter set of the heap leaves a sequence of counter sets.
LEMMA UpdatedSeq ==
  ASSUME NEW S, NEW h \in Seq(S), NEW i \in DOMAIN h, NEW v \in S
  PROVE  [h EXCEPT ![i] = v] \in Seq(S)
OBVIOUS

\* The counters and the loop start empty.
LEMMA InitEstablishes == StatsInit => SInv
<1> SUFFICES ASSUME StatsInit PROVE SInv
  BY Zenon
<1>1. PICK u \in StatsUses : \E fails \in [u.users -> {FALSE, u.who = "service"}] :
        StatsStart(u, fails, "idle")
  BY Zenon DEF StatsInit
<1>2. PICK fails \in [u.users -> {FALSE, u.who = "service"}] :
        StatsStart(u, fails, "idle")
  BY Zenon, <1>1
<1>3. u \in Use
  BY Zenon, StatsAssumption DEF Use
<1>4. /\ NewStats \in StatsSet /\ Zero \in Values /\ NoEvent \in Event
      /\ Zero \in [Kinds -> Int] /\ <<>> \in Seq(StatsSet) /\ <<NewStats>> \in Seq(StatsSet)
  BY DEF NewStats, StatsSet, Zero, Values, Event, Kinds
<1>5. \A c \in Users : When(c \in u.users, Adds(u.who, fails[c])) \in Seq(AnAdd)
  BY AddsType DEF When
<1>6. \A c \in Users : c \notin u.users => When(c \in u.users, Adds(u.who, fails[c])) = <<>>
  BY Zenon DEF When
<1>7. StatsTypeOK
  <2>1. heap \in Seq(StatsSet) /\ table \in {NoStats} \cup DOMAIN heap
    BY <1>2, <1>4 DEF StatsStart, NoStats
  <2>2. user \in [Users -> UserState]
    BY Zenon, <1>2, <1>5, <2>1 DEF StatsStart, NoStats, UserState
  <2>3. obs \in [pc : {"idle", "resend", "check", "read", "bytes", "send", "end"},
              events : Event, evs : Event]
    BY Zenon, <1>2, <1>4 DEF StatsStart, Waiting
  <2>4. told \in [last : [Kinds -> Int], bytes : Int, again : Int]
    BY <1>2, <1>4 DEF StatsStart
  <2> QED BY Zenon, <1>2, <1>3, <2>1, <2>2, <2>3, <2>4 DEF StatsStart, StatsTypeOK
<1>8. CountersHeld
  BY <1>2, <1>6 DEF CountersHeld, StatsStart, NoStats, Waiting
<1>9. Conserved
  <2>1. Kept = 0
    BY Zenon, <1>2 DEF Kept, StatsStart, NoStats, NewStats, Zero, Kinds
  <2>2. InHand = 0
    BY <1>2 DEF InHand, StatsStart, Waiting
  <2> QED BY <1>2, <2>1, <2>2 DEF Conserved, StatsStart
<1> QED BY Zenon, <1>7, <1>8, <1>9 DEF SInv

\* Finding or making the client's counters (HandlerStats.Stats) counts nothing.
LEMMA LookKeeps ==
  ASSUME SInv, NEW c \in Users, Look(c) \/ Make(c)
  PROVE  SInv'
<1> USE DEF SInv
<1>0. /\ user' = [user EXCEPT ![c] = user'[c]] /\ user[c] \in UserState
      /\ user[c].adds \in Seq(AnAdd)
  BY Zenon DEF Look, Make, UserMoves, StatsTypeOK, UserState
<1>1. CASE Look(c)
  <2>1. /\ user'[c].pc \in {"make", "count"} /\ user'[c].adds = user[c].adds
        /\ user'[c].at \in {NoStats} \cup DOMAIN heap
        /\ user'[c].pc = "count" => user'[c].at = table /\ table # NoStats
        /\ user'[c] \in UserState
    BY Zenon, <1>0, <1>1 DEF Look, UserMoves, StatsTypeOK, UserState
  <2>2. UNCHANGED <<su, heap, table, obs, told, counted, shown>>
    BY Zenon, <1>1 DEF Look
  <2>3. StatsTypeOK'
    BY Zenon, <1>0, <2>1, <2>2 DEF StatsTypeOK, UserState
  <2>4. CountersHeld'
    BY Zenon, <1>0, <2>1, <2>2 DEF CountersHeld, StatsTypeOK
  <2> QED BY Zenon, <2>2, <2>3, <2>4 DEF Conserved, Kept, InHand
<1>2. CASE Make(c)
  <2>0. UNCHANGED <<su, obs, told, counted, shown>> /\ user[c].pc = "make"
    BY Zenon, <1>2 DEF Make
  <2>1. CASE table # NoStats
    <3>1. UNCHANGED <<heap, table>>
      BY Zenon, <1>2, <2>1 DEF Make
    <3>2. user'[c] = [user[c] EXCEPT !.pc = "count", !.at = table]
      BY Zenon, <1>2, <3>1 DEF Make, UserMoves, StatsTypeOK
    <3>3. user'[c] \in UserState
      BY Zenon, <1>0, <3>2 DEF StatsTypeOK, UserState
    <3>4. StatsTypeOK'
      BY Zenon, <1>0, <2>0, <3>1, <3>3 DEF StatsTypeOK, UserState
    <3>6. user'[c].pc = "count" /\ user'[c].at = table' /\ table' # NoStats
      BY Zenon, <1>0, <2>1, <3>1, <3>2 DEF UserState
    <3>5. CountersHeld'
      BY Zenon, <1>0, <2>0, <3>1, <3>6 DEF CountersHeld, StatsTypeOK
    <3> QED BY Zenon, <2>0, <3>1, <3>4, <3>5 DEF Conserved, Kept, InHand
  <2>2. CASE table = NoStats
    <3>1. heap' = Append(heap, NewStats) /\ table' = Len(heap')
      BY Zenon, <1>2, <2>2 DEF Make
    <3>2. user'[c] = [user[c] EXCEPT !.pc = "count", !.at = table']
      BY Zenon, <1>2 DEF Make, UserMoves, StatsTypeOK
    <3>3. NewStats \in StatsSet
      BY DEF NewStats, StatsSet, Zero, Values, Kinds
    <3>4. /\ heap' \in Seq(StatsSet) /\ table' = Len(heap) + 1
          /\ table' \in DOMAIN heap' /\ table' # NoStats /\ heap'[table'] = NewStats
          /\ DOMAIN heap \subseteq DOMAIN heap'
      BY <3>1, <3>3 DEF StatsTypeOK, NoStats
    <3>5. user' \in [Users -> UserState']
      <4>1. user'[c] \in UserState'
        BY Zenon, <1>0, <3>2, <3>4 DEF UserState
      <4>2. UserState \subseteq UserState'
        BY Zenon, <3>4 DEF UserState
      <4> QED BY Zenon, <1>0, <4>1, <4>2 DEF StatsTypeOK
    <3>8. StatsTypeOK'
      BY Zenon, <2>0, <3>4, <3>5 DEF StatsTypeOK
    <3>6. CountersHeld'
      <4>1. user'[c].pc = "count" /\ user'[c].at = table' /\ table' # NoStats
        BY Zenon, <1>0, <3>2, <3>4 DEF UserState
      <4>2. \A d \in Users : d # c => user'[d] = user[d]
        BY Zenon, <1>0 DEF StatsTypeOK
      <4>3. \A d \in Users : ~(user[d].pc \in {"count", "flag"} /\ user[d].adds # <<>>)
        BY Zenon, <2>2 DEF CountersHeld
      <4> QED BY Zenon, <2>0, <3>4, <4>1, <4>2, <4>3 DEF CountersHeld
    <3>7. Kept = 0 /\ Kept' = 0
      BY <2>2, <3>4 DEF Kept, NewStats, Zero, Kinds
    <3> QED BY Zenon, <2>0, <3>8, <3>6, <3>7 DEF Conserved, InHand
  <2> QED BY Zenon, <2>1, <2>2
<1> QED BY Zenon, <1>1, <1>2

\* An Add: the counter and the ghost move together, the flag moves nothing.
LEMMA AddKeeps ==
  ASSUME SInv, NEW c \in Users, Count(c) \/ Flag(c)
  PROVE  SInv'
<1> USE DEF SInv
<1>0. /\ user \in [Users -> UserState] /\ user[c] \in UserState
      /\ user' = [user EXCEPT ![c] = user'[c]]
      /\ user[c].adds \in Seq(AnAdd) /\ user[c].adds # <<>>
      /\ user[c].at = table /\ table # NoStats /\ table \in DOMAIN heap
      /\ heap \in Seq(StatsSet) /\ heap[table] \in StatsSet
      /\ UNCHANGED <<su, table, obs, told, shown>>
  <2>1. /\ user \in [Users -> UserState] /\ user[c] \in UserState
        /\ user' = [user EXCEPT ![c] = user'[c]]
        /\ UNCHANGED <<su, table, obs, told, shown>> /\ heap \in Seq(StatsSet)
    BY Zenon DEF Count, Flag, UserMoves, UserMovesTo, StatsTypeOK
  <2>2. user[c].adds # <<>> /\ user[c].at = table /\ table # NoStats
    BY Zenon DEF Count, Flag, CountersHeld
  <2> QED BY <2>1, <2>2 DEF StatsTypeOK, UserState
<1>1. CASE Count(c)
  <2> DEFINE add == Head(user[c].adds)
  <2>1. add \in AnAdd
    BY <1>0
  <2>2. add[1] \in Kinds /\ add[2] \in Int /\ (add[1] = "bytes" => add[2] \in Nat)
    BY Zenon, <2>1 DEF AnAdd
  <2> HIDE DEF add
  <2>3. /\ heap' = [heap EXCEPT ![table].val[add[1]] = @ + add[2]]
        /\ counted' = counted + IF add[1] = "bytes" THEN add[2] ELSE 0
        /\ user'[c] = [user[c] EXCEPT !.pc = "flag"]
    BY Zenon, <1>0, <1>1 DEF Count, UserMoves, UserMovesTo, add
  <2>4. /\ DOMAIN heap' = DOMAIN heap
        /\ heap' = [heap EXCEPT ![table] = heap'[table]]
        /\ heap'[table] = [heap[table] EXCEPT !.val[add[1]] = @ + add[2]]
    BY Zenon, <1>0, <2>3
  <2>5. heap[table].val \in Values /\ heap[table].updated \in BOOLEAN
    BY Zenon, <1>0 DEF StatsSet
  <2>6. /\ heap'[table].val = [heap[table].val EXCEPT ![add[1]] = @ + add[2]]
        /\ heap'[table].updated = heap[table].updated
    BY Zenon, <1>0, <2>4 DEF StatsSet
  <2>7. heap'[table].val \in Values
    BY <2>2, <2>5, <2>6 DEF Values, Kinds
  <2>8. heap' \in Seq(StatsSet)
    <3>1. heap'[table] \in StatsSet
      BY Zenon, <1>0, <2>4, <2>5, <2>7 DEF StatsSet
    <3> QED BY <1>0, <2>4, <3>1, UpdatedSeq
  <2>9. UserState' = UserState
    BY Zenon, <2>4 DEF UserState
  <2>10. StatsTypeOK'
    <3>1. user'[c] \in UserState
      BY Zenon, <1>0, <2>3 DEF UserState
    <3>2. counted' \in Int
      BY <2>2, <2>3 DEF StatsTypeOK
    <3> QED BY Zenon, <1>0, <2>4, <2>8, <2>9, <3>1, <3>2 DEF StatsTypeOK
  <2>11. CountersHeld'
    <3>1. /\ user'[c].pc = "flag" /\ user'[c].at = user[c].at
          /\ user'[c].adds = user[c].adds
      BY Zenon, <1>0, <2>3 DEF UserState
    <3> QED BY Zenon, <1>0, <3>1 DEF CountersHeld
  <2>12. Kept' = Kept + IF add[1] = "bytes" THEN add[2] ELSE 0
    BY <1>0, <2>2, <2>5, <2>6 DEF Kept, Values, Kinds
  <2>13. InHand' = InHand
    BY Zenon, <1>0 DEF InHand
  <2>14. Kept \in Int /\ InHand \in Int
    <3>1. obs.events.bytes \in Int /\ obs.evs.bytes \in Int
      BY DEF StatsTypeOK, Event, Values, NoEvent, Kinds
    <3>2. Kept \in Int
      BY <1>0, <2>5 DEF Kept, Values
    <3> QED BY <3>1, <3>2 DEF InHand
  <2>15. Conserved'
    <3> DEFINE n == IF add[1] = "bytes" THEN add[2] ELSE 0
    <3>1. n \in Int /\ Kept' = Kept + n /\ counted' = counted + n
      BY <2>2, <2>3, <2>12
    <3> HIDE DEF n
    <3>2. told.bytes \in Int /\ told.again \in Int /\ shown \in Int /\ counted \in Int
      BY Zenon DEF StatsTypeOK
    <3>3. /\ told'.bytes = told.bytes /\ told'.again = told.again /\ shown' = shown
          /\ su'.reset = su.reset
      BY Zenon, <1>0
    <3> QED BY <2>13, <2>14, <3>1, <3>2, <3>3 DEF Conserved
  <2> QED BY Zenon, <2>10, <2>11, <2>15
<1>2. CASE Flag(c)
  <2>1. /\ heap' = [heap EXCEPT ![table].updated = TRUE]
        /\ user'[c] = [user[c] EXCEPT !.pc = "count", !.adds = Tail(@)]
        /\ UNCHANGED counted
    BY Zenon, <1>0, <1>2 DEF Flag, UserMoves
  <2>2. /\ DOMAIN heap' = DOMAIN heap
        /\ heap' = [heap EXCEPT ![table] = heap'[table]]
        /\ heap'[table] = [heap[table] EXCEPT !.updated = TRUE]
    BY Zenon, <1>0, <2>1
  <2>3. heap'[table] \in StatsSet /\ heap'[table].val = heap[table].val
    BY Zenon, <1>0, <2>2 DEF StatsSet
  <2>4. heap' \in Seq(StatsSet)
    <3>1. heap'[table] \in StatsSet
      BY Zenon, <2>3
    <3>2. heap' = [heap EXCEPT ![table] = heap'[table]]
      BY Zenon, <2>2
    <3>3. heap \in Seq(StatsSet) /\ table \in DOMAIN heap
      BY Zenon, <1>0
    <3>4. [heap EXCEPT ![table] = heap'[table]] \in Seq(StatsSet)
      BY Zenon, <3>1, <3>3, UpdatedSeq
    <3> QED BY Zenon, <3>2, <3>4
  <2>5. UserState' = UserState
    BY Zenon, <2>2 DEF UserState
  <2>6. Tail(user[c].adds) \in Seq(AnAdd)
    BY <1>0
  <2>7. /\ user'[c] \in UserState /\ user'[c].pc = "count"
        /\ user'[c].at = user[c].at
    BY Zenon, <1>0, <2>1, <2>6 DEF UserState
  <2>8. StatsTypeOK'
    BY Zenon, <1>0, <2>1, <2>2, <2>4, <2>5, <2>7 DEF StatsTypeOK
  <2>9. CountersHeld'
    BY Zenon, <1>0, <2>7 DEF CountersHeld
  <2>10. Conserved'
    BY Zenon, <1>0, <2>1, <2>3 DEF Conserved, Kept, InHand
  <2> QED BY Zenon, <2>8, <2>9, <2>10
<1> QED BY Zenon, <1>1, <1>2

\* The numbers the balance is made of.
LEMMA Numbers ==
  ASSUME StatsTypeOK
  PROVE  /\ Kept \in Int /\ InHand \in Int
         /\ told.bytes \in Int /\ told.again \in Int
         /\ shown \in Int /\ counted \in Int
         /\ obs.events.bytes \in Int /\ obs.evs.bytes \in Int
         /\ obs.events \in [Kinds -> Int] /\ obs.evs \in [Kinds -> Int]
<1>1. obs.events \in [Kinds -> Int] /\ obs.evs \in [Kinds -> Int]
  BY DEF StatsTypeOK, Event, Values, NoEvent
<1>2. obs.events.bytes \in Int /\ obs.evs.bytes \in Int
  BY Zenon, <1>1 DEF Kinds
<1>3. Kept \in Int
  <2>1. CASE table = NoStats
    BY <2>1 DEF Kept
  <2>2. CASE table # NoStats
    <3>1. heap[table] \in StatsSet
      BY <2>2 DEF StatsTypeOK
    <3> QED BY <2>2, <3>1 DEF Kept, StatsSet, Values
  <2> QED BY Zenon, <2>1, <2>2
<1> QED BY <1>1, <1>2, <1>3 DEF InHand, StatsTypeOK

\* The ticker and the end of the loop move no bytes.
LEMMA TickKeeps ==
  ASSUME SInv, ObserverTick \/ Cancelled
  PROVE  SInv'
<1> USE DEF SInv
<1>1. /\ obs.pc = "idle" /\ obs' = [obs EXCEPT !.pc = obs'.pc]
      /\ obs'.pc \in {"resend", "check", "end"}
      /\ obs'.pc = "resend" => obs.events # NoEvent
      /\ obs'.pc = "check" => obs.events = NoEvent
      /\ UNCHANGED <<su, heap, table, user, told, counted, shown>>
  BY Zenon DEF ObserverTick, Cancelled, ObsMovesTo, ObsMoves, StatsTypeOK
<1>2. obs'.events = obs.events /\ obs'.evs = obs.evs
  BY Zenon, <1>1 DEF StatsTypeOK
<1>3. StatsTypeOK'
  BY Zenon, <1>1 DEF StatsTypeOK, UserState
<1>4. CountersHeld'
  BY Zenon, <1>1, <1>2 DEF CountersHeld
<1>5. InHand' = InHand
  BY Zenon, <1>1, <1>2 DEF InHand
<1> QED BY Zenon, <1>1, <1>3, <1>4, <1>5 DEF Conserved, Kept

\* Looking whether there is something new (IsUpdated) and reading the counts
\* moves no bytes: what a handler's loop forgets here it has just resent.
LEMMA CheckKeeps ==
  ASSUME SInv, Check \/ ReadCounts
  PROVE  SInv'
<1> USE DEF SInv
<1>1. CASE Check
  <2>1. /\ obs.pc = "check" /\ UNCHANGED <<su, table, user, told, counted, shown>>
        /\ obs'.pc \in {"read", "idle"}
        /\ obs'.pc = "idle" => obs' = Waiting(NoEvent) /\ UNCHANGED heap
        /\ obs'.pc = "read" =>
             /\ table # NoStats /\ obs' = [obs EXCEPT !.pc = "read"]
             /\ heap' = [heap EXCEPT ![table].updated = FALSE]
    BY <1>1 DEF Check, Nothing, ObsMovesTo, ObsMoves, StatsTypeOK, Waiting
  <2>2. InHand = 0 /\ InHand' = 0
    BY <2>1 DEF InHand, Waiting
  <2>3. CASE obs'.pc = "idle"
    <3>1. StatsTypeOK'
      BY <2>1, <2>3 DEF StatsTypeOK, UserState, Waiting, Event
    <3>2. CountersHeld'
      BY Zenon, <2>1, <2>3 DEF CountersHeld
    <3> QED BY Zenon, <2>1, <2>2, <2>3, <3>1, <3>2 DEF Conserved, Kept
  <2>4. CASE obs'.pc = "read"
    <3>1. heap \in Seq(StatsSet) /\ table \in DOMAIN heap /\ heap[table] \in StatsSet
      BY <2>1, <2>4 DEF StatsTypeOK
    <3>2. /\ DOMAIN heap' = DOMAIN heap
          /\ heap' = [heap EXCEPT ![table] = heap'[table]]
          /\ heap'[table] = [heap[table] EXCEPT !.updated = FALSE]
      BY Zenon, <2>1, <2>4, <3>1
    <3>3. heap'[table] \in StatsSet
      BY Zenon, <3>1, <3>2 DEF StatsSet
    <3>4. heap'[table].val = heap[table].val
      BY Zenon, <3>1, <3>2 DEF StatsSet
    <3>5. heap' \in Seq(StatsSet)
      <4>1. [heap EXCEPT ![table] = heap'[table]] \in Seq(StatsSet)
        BY Zenon, <3>1, <3>3, UpdatedSeq
      <4> QED BY Zenon, <3>2, <4>1
    <3>6. UserState' = UserState
      BY Zenon, <3>2 DEF UserState
    <3>7. StatsTypeOK'
      BY Zenon, <2>1, <2>4, <3>2, <3>5, <3>6 DEF StatsTypeOK
    <3>8. CountersHeld'
      BY Zenon, <2>1, <2>4 DEF CountersHeld
    <3> QED BY Zenon, <2>1, <2>2, <2>4, <3>4, <3>7, <3>8 DEF Conserved, Kept
  <2> QED BY Zenon, <2>1, <2>3, <2>4
<1>2. CASE ReadCounts
  <2>1. /\ obs.pc = "read" /\ obs' = [obs EXCEPT !.evs = heap[table].val, !.pc = "bytes"]
        /\ UNCHANGED <<su, heap, table, user, told, counted, shown>>
    BY Zenon, <1>2 DEF ReadCounts, ObsMoves
  <2>2. table # NoStats
    BY Zenon, <2>1 DEF CountersHeld
  <2>3. heap[table].val \in Values
    <3>1. heap[table] \in StatsSet
      BY <2>2 DEF StatsTypeOK
    <3> QED BY Zenon, <3>1 DEF StatsSet
  <2>4. obs'.pc = "bytes" /\ obs'.evs = heap[table].val /\ obs'.events = obs.events
    BY Zenon, <2>1 DEF StatsTypeOK
  <2>5. StatsTypeOK'
    BY Zenon, <2>1, <2>3 DEF StatsTypeOK, UserState, Event
  <2>6. CountersHeld'
    BY Zenon, <2>1, <2>2, <2>3, <2>4 DEF CountersHeld
  <2>7. InHand' = InHand
    BY Zenon, <2>1, <2>4 DEF InHand
  <2> QED BY Zenon, <2>1, <2>5, <2>6, <2>7 DEF Conserved, Kept
<1> QED BY Zenon, <1>1, <1>2

\* Taking the bytes out of the counters (Stats.Get with resetTraffic): into the
\* event of the loop, or into the answer to GET /config.
LEMMA Taken ==
  ASSUME StatsTypeOK, table # NoStats, UNCHANGED table,
         heap' = [heap EXCEPT ![table].val.bytes = IF Reset THEN 0 ELSE @]
  PROVE  /\ heap' \in Seq(StatsSet) /\ DOMAIN heap' = DOMAIN heap
         /\ UserState' = UserState
         /\ heap[table].val \in Values
         /\ Kept = heap[table].val.bytes
         /\ Kept' = IF Reset THEN 0 ELSE Kept
<1>1. heap \in Seq(StatsSet) /\ table \in DOMAIN heap /\ heap[table] \in StatsSet
  BY DEF StatsTypeOK
<1>2. heap[table].val \in Values /\ heap[table].updated \in BOOLEAN
  BY Zenon, <1>1 DEF StatsSet
<1>3. /\ DOMAIN heap' = DOMAIN heap
      /\ heap' = [heap EXCEPT ![table] = heap'[table]]
      /\ heap'[table] = [heap[table] EXCEPT !.val.bytes = IF Reset THEN 0 ELSE @]
  BY Zenon, <1>1
<1>4. /\ heap'[table].val = [heap[table].val EXCEPT !.bytes = IF Reset THEN 0 ELSE @]
      /\ heap'[table] = [val |-> heap'[table].val, updated |-> heap[table].updated]
  BY Zenon, <1>1, <1>3 DEF StatsSet
<1>5. heap'[table].val \in Values /\ heap'[table].val.bytes = IF Reset THEN 0 ELSE heap[table].val.bytes
  BY <1>2, <1>4 DEF Values, Kinds
<1>6. heap'[table] \in StatsSet
  BY <1>2, <1>4, <1>5 DEF StatsSet
<1>7. heap' \in Seq(StatsSet)
  <2>1. [heap EXCEPT ![table] = heap'[table]] \in Seq(StatsSet)
    BY Zenon, <1>1, <1>6, UpdatedSeq
  <2> QED BY Zenon, <1>3, <2>1
<1>8. Kept = heap[table].val.bytes /\ Kept' = heap'[table].val.bytes
  BY Zenon DEF Kept
<1> QED BY Zenon, <1>2, <1>3, <1>5, <1>7, <1>8 DEF UserState

\* Reading the bytes moves them from the counters to the event.
LEMMA ReadKeeps ==
  ASSUME SInv, ReadBytes
  PROVE  SInv'
<1> USE DEF SInv
<1>1. /\ obs.pc = "bytes" /\ UNCHANGED <<su, table, user, told, counted, shown>>
      /\ obs' = [obs EXCEPT !.evs.bytes = heap[table].val.bytes, !.pc = "send"]
      /\ heap' = [heap EXCEPT ![table].val.bytes = IF Reset THEN 0 ELSE @]
  BY Zenon DEF ReadBytes, ObsMoves
<1>2. table # NoStats /\ obs.evs \in Values
  BY Zenon, <1>1 DEF CountersHeld
<1>3. /\ heap' \in Seq(StatsSet) /\ DOMAIN heap' = DOMAIN heap
      /\ UserState' = UserState
      /\ heap[table].val \in Values
      /\ Kept = heap[table].val.bytes
      /\ Kept' = IF Reset THEN 0 ELSE Kept
  BY Zenon, <1>1, <1>2, Taken
<1>4. /\ obs'.pc = "send" /\ obs'.events = obs.events
      /\ obs'.evs = [obs.evs EXCEPT !.bytes = heap[table].val.bytes]
  BY Zenon, <1>1 DEF StatsTypeOK
<1>5. obs'.evs \in Values /\ obs'.evs.bytes = heap[table].val.bytes
  BY Zenon, <1>2, <1>3, <1>4 DEF Values, Kinds
<1>6. StatsTypeOK'
  <2>1. obs' \in [pc : {"idle", "resend", "check", "read", "bytes", "send", "end"},
                  events : Event, evs : Event]
    <3>1. obs' = [pc |-> "send", events |-> obs.events, evs |-> obs'.evs]
      BY Zenon, <1>1, <1>4 DEF StatsTypeOK
    <3> QED BY <1>5, <3>1 DEF StatsTypeOK, Event
  <2> QED BY Zenon, <1>1, <1>3, <2>1 DEF StatsTypeOK
<1>7. CountersHeld'
  BY Zenon, <1>1, <1>2, <1>4, <1>5 DEF CountersHeld
<1>8. InHand = 0 /\ InHand' = Kept
  <2>1. Kept \in Int
    BY Zenon, Numbers
  <2> QED BY <1>1, <1>3, <1>4, <1>5, <2>1 DEF InHand
<1>9. Conserved'
  <2>1. su.reset => Kept' = 0
    BY Zenon, <1>3 DEF Reset
  <2>2. su' = su /\ told' = told /\ counted' = counted /\ shown' = shown
    BY Zenon, <1>1
  <2> QED BY <1>8, <2>1, <2>2, Numbers DEF Conserved
<1> QED BY Zenon, <1>6, <1>7, <1>9

\* GET /config moves the bytes of the counters to its answer.
LEMMA FillKeeps ==
  ASSUME SInv, FillServiceStatus
  PROVE  SInv'
<1> USE DEF SInv
<1>1. /\ su.who = "service" /\ su.api > 0 /\ su' = [su EXCEPT !.api = @ - 1]
      /\ shown' = shown + IF Reset THEN heap[table].val.bytes ELSE 0
      /\ heap' = [heap EXCEPT ![table].val.bytes = IF Reset THEN 0 ELSE @]
      /\ UNCHANGED <<table, user, obs, told, counted>>
  BY Zenon DEF FillServiceStatus, ByService
<1>2. table # NoStats
  BY Zenon, <1>1 DEF CountersHeld
<1>3. /\ heap' \in Seq(StatsSet) /\ DOMAIN heap' = DOMAIN heap
      /\ UserState' = UserState
      /\ heap[table].val \in Values
      /\ Kept = heap[table].val.bytes
      /\ Kept' = IF Reset THEN 0 ELSE Kept
  BY Zenon, <1>1, <1>2, Taken
<1>4. su' \in Use /\ su'.reset = su.reset /\ su'.who = su.who
  BY <1>1 DEF StatsTypeOK, Use
<1>5. StatsTypeOK'
  <2>1. shown' \in Int
    BY <1>1, <1>3, Numbers
  <2> QED BY Zenon, <1>1, <1>3, <1>4, <2>1 DEF StatsTypeOK
<1>6. CountersHeld'
  BY Zenon, <1>1, <1>4 DEF CountersHeld
<1>7. InHand' = InHand
  BY Zenon, <1>1 DEF InHand
<1>8. Conserved'
  <2>1. su.reset => shown' = shown + Kept /\ Kept' = 0
    BY Zenon, <1>1, <1>3 DEF Reset
  <2>2. told' = told /\ counted' = counted
    BY Zenon, <1>1
  <2> QED BY <1>4, <1>7, <2>1, <2>2, Numbers DEF Conserved
<1> QED BY Zenon, <1>5, <1>6, <1>8

\* What the observer does with an event, for the balance: an answer it sends or
\* loses means it has the bytes, and a lost one that it will have them again.
LEMMA Observed ==
  ASSUME StatsTypeOK, NEW ev \in Values, NEW a \in Answers, Observe(ev, a)
  PROVE  /\ su' \in Use /\ su'.reset = su.reset /\ su'.who = su.who
         /\ su'.loop = su.loop
         /\ told' \in [last : [Kinds -> Int], bytes : Int, again : Int]
         /\ a = "ok" => told'.bytes = told.bytes + ev.bytes /\ told'.again = told.again
         /\ a # "ok" => told'.bytes - told'.again = told.bytes - told.again
         /\ UNCHANGED <<heap, table, user, counted, shown>>
         /\ UserState' = UserState
<1>1. told.bytes \in Int /\ told.again \in Int /\ ev.bytes \in Int /\ ev \in [Kinds -> Int]
  BY DEF StatsTypeOK, Values
<1>2. a \in {"ok", "refused", "lost"} /\ (a # "ok" => su.faults > 0)
  BY Zenon DEF Answers
<1>3. su' \in Use /\ su'.reset = su.reset /\ su'.who = su.who /\ su'.loop = su.loop
  <2>1. CASE a = "ok"
    BY Zenon, <2>1 DEF Observe, StatsTypeOK
  <2>2. CASE a # "ok"
    <3>1. su' = [su EXCEPT !.faults = @ - 1] /\ su \in Use /\ su.faults > 0
      BY Zenon, <1>2, <2>2 DEF Observe, StatsTypeOK
    <3> QED BY <3>1 DEF Use
  <2> QED BY Zenon, <2>1, <2>2
<1>4. UNCHANGED <<heap, table, user, counted, shown>>
  BY Zenon DEF Observe
<1>5. /\ told' \in [last : [Kinds -> Int], bytes : Int, again : Int]
      /\ a = "ok" => told'.bytes = told.bytes + ev.bytes /\ told'.again = told.again
      /\ a # "ok" => told'.bytes - told'.again = told.bytes - told.again
  <2>1. CASE a = "refused"
    BY Zenon, <1>1, <2>1 DEF Observe, StatsTypeOK
  <2>2. CASE a = "ok"
    <3>1. told' = [last |-> ev, bytes |-> told.bytes + ev.bytes, again |-> told.again]
      BY <1>1, <2>2 DEF Observe
    <3> QED BY <1>1, <2>2, <3>1
  <2>3. CASE a = "lost"
    <3>1. told' = [last |-> ev, bytes |-> told.bytes + ev.bytes,
                   again |-> told.again + ev.bytes]
      BY Zenon, <2>3 DEF Observe
    <3> QED BY <1>1, <2>3, <3>1
  <2> QED BY Zenon, <1>2, <2>1, <2>2, <2>3
<1> QED BY Zenon, <1>3, <1>4, <1>5 DEF UserState

\* A resend: the event stays until the observer has accepted it.
LEMMA ResendKeeps ==
  ASSUME SInv, NEW a \in Answers, Resend(a)
  PROVE  SInv'
<1> USE DEF SInv
<1>1. obs.pc = "resend" /\ obs.events # NoEvent /\ obs.events \in Values
  BY Zenon DEF Resend, CountersHeld, StatsTypeOK, Event
<1>2. /\ su' \in Use /\ su'.reset = su.reset /\ su'.who = su.who
      /\ told' \in [last : [Kinds -> Int], bytes : Int, again : Int]
      /\ a = "ok" => told'.bytes = told.bytes + obs.events.bytes /\ told'.again = told.again
      /\ a # "ok" => told'.bytes - told'.again = told.bytes - told.again
      /\ UNCHANGED <<heap, table, user, counted, shown>>
      /\ UserState' = UserState
  BY Zenon, <1>1, Observed DEF Resend
<1>3. /\ a # "ok" => obs' = [obs EXCEPT !.pc = "idle"]
      /\ a = "ok" => obs' = Waiting(NoEvent) \/ obs' = [obs EXCEPT !.pc = "check"]
  BY Zenon DEF Resend, ObsMoves
<1>4. /\ obs' \in [pc : {"idle", "resend", "check", "read", "bytes", "send", "end"},
                   events : Event, evs : Event]
      /\ obs'.pc \in {"idle", "check"}
      /\ a # "ok" => obs'.pc = "idle" /\ obs'.events = obs.events
      /\ a = "ok" => obs'.pc = "check" \/ obs'.events = NoEvent
  BY <1>3 DEF StatsTypeOK, Waiting, Event
<1>5. StatsTypeOK'
  BY Zenon, <1>2, <1>4 DEF StatsTypeOK
<1>6. CountersHeld'
  BY Zenon, <1>2, <1>4 DEF CountersHeld
<1>7. InHand = obs.events.bytes
  BY <1>1, Numbers DEF InHand
<1>8. InHand' = IF a = "ok" THEN 0 ELSE obs.events.bytes
  BY <1>1, <1>4, Numbers DEF InHand
<1>9. Kept' = Kept
  BY Zenon, <1>2 DEF Kept
<1>10. told'.bytes \in Int /\ told'.again \in Int
  BY Zenon, <1>2
<1>11. Conserved'
  <2>1. counted' = counted /\ shown' = shown /\ su'.reset = su.reset
    BY Zenon, <1>2
  <2>2. CASE a = "ok"
    <3>1. InHand' = 0 /\ told'.bytes = told.bytes + InHand /\ told'.again = told.again
      BY Zenon, <1>2, <1>7, <1>8, <2>2
    <3> QED BY <1>9, <2>1, <3>1, Numbers DEF Conserved
  <2>3. CASE a # "ok"
    <3>1. InHand' = InHand /\ told'.bytes - told'.again = told.bytes - told.again
      BY Zenon, <1>2, <1>7, <1>8, <2>3
    <3> QED BY <1>9, <1>10, <2>1, <3>1, Numbers DEF Conserved
  <2> QED BY Zenon, <2>2, <2>3
<1> QED BY Zenon, <1>5, <1>6, <1>11

\* Sending what was just read: accepted, or kept for the next tick.
LEMMA SendKeeps ==
  ASSUME SInv, NEW a \in Answers, Send(a)
  PROVE  SInv'
<1> USE DEF SInv
<1>1. obs.pc = "send" /\ obs.evs \in Values
  BY Zenon DEF Send, CountersHeld
<1>2. /\ su' \in Use /\ su'.reset = su.reset /\ su'.who = su.who
      /\ told' \in [last : [Kinds -> Int], bytes : Int, again : Int]
      /\ a = "ok" => told'.bytes = told.bytes + obs.evs.bytes /\ told'.again = told.again
      /\ a # "ok" => told'.bytes - told'.again = told.bytes - told.again
      /\ UNCHANGED <<heap, table, user, counted, shown>>
      /\ UserState' = UserState
  BY Zenon, <1>1, Observed DEF Send
<1>3. obs' = IF a = "ok" THEN Waiting(NoEvent) ELSE Waiting(obs.evs)
  <2>1. su.loop \in DOMAIN ObserveStats
    BY Zenon DEF StatsTypeOK, Use
  <2>2. Loop.refused = "kept"
    BY Zenon, <2>1, LoopsKeep DEF Loop
  <2> QED BY Zenon, <2>2 DEF Send, Nothing, ObsMoves
<1>4. obs.evs # NoEvent
  BY <1>1 DEF Values, NoEvent, Kinds
<1>5. /\ obs' \in [pc : {"idle", "resend", "check", "read", "bytes", "send", "end"},
                   events : Event, evs : Event]
      /\ obs'.pc = "idle" /\ obs'.events = IF a = "ok" THEN NoEvent ELSE obs.evs
  BY Zenon, <1>1, <1>3 DEF Waiting, Event
<1>6. StatsTypeOK'
  BY Zenon, <1>2, <1>5 DEF StatsTypeOK
<1>7. CountersHeld'
  BY Zenon, <1>2, <1>5 DEF CountersHeld
<1>8. InHand = obs.evs.bytes
  BY <1>1, Numbers DEF InHand
<1>9. InHand' = IF a = "ok" THEN 0 ELSE obs.evs.bytes
  BY <1>4, <1>5, Numbers DEF InHand
<1>10. Kept' = Kept
  BY Zenon, <1>2 DEF Kept
<1>11. told'.bytes \in Int /\ told'.again \in Int
  BY Zenon, <1>2
<1>12. Conserved'
  <2>1. counted' = counted /\ shown' = shown /\ su'.reset = su.reset
    BY Zenon, <1>2
  <2>2. CASE a = "ok"
    <3>1. InHand' = 0 /\ told'.bytes = told.bytes + InHand /\ told'.again = told.again
      BY Zenon, <1>2, <1>8, <1>9, <2>2
    <3> QED BY <1>10, <2>1, <3>1, Numbers DEF Conserved
  <2>3. CASE a # "ok"
    <3>1. InHand' = InHand /\ told'.bytes - told'.again = told.bytes - told.again
      BY Zenon, <1>2, <1>8, <1>9, <2>3
    <3> QED BY <1>10, <1>11, <2>1, <3>1, Numbers DEF Conserved
  <2> QED BY Zenon, <2>2, <2>3
<1> QED BY Zenon, <1>6, <1>7, <1>12

\* Every byte a connection counted is in one place (NothingUncounted), for any
\* number of connections, whichever handler's or service's observeStats runs,
\* and however often the observer refuses events or its answers get lost.
THEOREM BytesAreConserved == StatsInit /\ [][StatsNext]_statsVars => []NothingUncounted
<1>1. SInv /\ [StatsNext]_statsVars => SInv'
  <2> SUFFICES ASSUME SInv, [StatsNext]_statsVars PROVE SInv'
    BY Zenon
  <2>1. ASSUME NEW c \in Users, UserStep(c) PROVE SInv'
    BY Zenon, <2>1, LookKeeps, AddKeeps DEF UserStep
  <2>2. CASE ObserverTick \/ Cancelled
    BY Zenon, <2>2, TickKeeps
  <2>3. CASE Check \/ ReadCounts
    BY Zenon, <2>3, CheckKeeps
  <2>4. CASE ReadBytes
    BY Zenon, <2>4, ReadKeeps
  <2>5. ASSUME NEW a \in Answers, Resend(a) PROVE SInv'
    BY Zenon, <2>5, ResendKeeps
  <2>6. ASSUME NEW a \in Answers, Send(a) PROVE SInv'
    BY Zenon, <2>6, SendKeeps
  <2>7. CASE FillServiceStatus
    BY Zenon, <2>7, FillKeeps
  <2>8. CASE UNCHANGED statsVars
    BY Zenon, <2>8 DEF statsVars, SInv, StatsTypeOK, UserState, CountersHeld, Conserved, Kept, InHand
  <2> QED BY Zenon, <2>1, <2>2, <2>3, <2>4, <2>5, <2>6, <2>7, <2>8 DEF StatsNext, ObserveStep
<1>2. SInv => NothingUncounted
  BY Zenon DEF SInv, Conserved, Kept, NothingUncounted, Reset
<1> QED BY <1>1, <1>2, InitEstablishes, PTL
=============================================================================
