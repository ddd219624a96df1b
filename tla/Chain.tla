------------------------------- MODULE Chain -------------------------------
(***************************************************************************)
(* The routing core: Router.dial and Router.Bind (chain/router.go) retry   *)
(* over routes that Chain.Route (chain/chain.go) composes, one node per    *)
(* hop chosen by chainHop.Select (hop/hop.go) with the failure and backup  *)
(* filters of selector/filter.go, and that chainRoute.connect              *)
(* (chain/route.go) walks node by node, marking the nodes that fail and    *)
(* resetting the ones that answer.  Node probes (chain/node.go) write the  *)
(* same fail markers, and the session cache of a multiplexing dialer       *)
(* (dialer/mtls) decides how much of a route is really dialled.            *)
(*                                                                         *)
(* A request's matchers, bypasses and filters are abstracted to the set of *)
(* nodes that admit it; the strategy of a selector to "some candidate".    *)
(* A place answers a call in time or not at all.  The chain's own marker,  *)
(* which connect also writes, is left out: a chain's hops never read it.   *)
(***************************************************************************)
EXTENDS Integers, Sequences, FiniteSets, FiniteSetsExt, Functions

CONSTANTS
    Clients,      \* concurrent calls of the router
    Binders,      \* the clients that call Router.Bind; the others dial
    Nodes,        \* every node of every hop
    HopOf,        \* the hop (1 .. NHops) a node belongs to
    NHops,        \* number of hops of the chain
    Admits,       \* client -> the nodes whose bypass/matcher/filter admit it
    Configs,      \* the situations the program may be started in: the nodes of
                  \* the hops, which are backup, multiplexing and probed (by
                  \* HTTP, by a command, the others by a connection), their
                  \* priorities, the router's retries, and the places that may
                  \* be down and change, maxFlips times (a bound)
    MaxFails,     \* FailFilter's maxFails
    FailTimeout,  \* FailFilter's failTimeout, in ticks
    Target,       \* the address dialled
    Resolver,     \* the router's resolver
    Test,         \* node -> what its probe asks: the page of an HTTP probe, the
                  \* command of a command probe
    NoNode        \* Select's nil

Places == Nodes \cup {Target, Resolver} \cup Range(Test)

ASSUME ChainAssumption ==
    /\ Binders \subseteq Clients
    /\ IsFiniteSet(Nodes)
    /\ NHops \in Nat \ {0}
    /\ HopOf \in [Nodes -> 1 .. NHops]
    /\ Admits \in [Clients -> SUBSET Nodes]
    /\ \A cf \in Configs : /\ cf.nodes \subseteq Nodes
                           /\ cf.backup \subseteq Nodes
                           /\ cf.mux \subseteq Nodes
                           /\ cf.priority \in [Nodes -> Int]
                           /\ cf.retries \in Int
                           /\ cf.probed \subseteq cf.nodes
                           /\ cf.http \subseteq cf.probed
                           /\ cf.cmd \subseteq cf.probed \ cf.http
                           /\ cf.unstable \subseteq Places
                           /\ cf.maxFlips \in Nat
    /\ MaxFails \in Nat \ {0}
    /\ FailTimeout \in Nat \ {0}
    /\ NoNode \notin Nodes
    /\ Target \notin Nodes
    /\ Resolver \notin Nodes
    /\ DOMAIN Test = Nodes /\ Range(Test) \cap Nodes = {}

VARIABLES
    conf,      \* the configuration in force
    up,        \* the places that answer
    fails,     \* node -> its fail marker: count (saturating at MaxFails) and
               \* the ticks left before the last failure is forgotten
    sess,      \* node -> the path of its cached mux session, <<>> when none
    req,       \* client -> the state of its dial
    probe,     \* node -> the answer a probe got and has not recorded yet
    flips      \* how often a place went down or came back

vars == <<conf, up, fails, sess, req, probe, flips>>

Marker == [count : 0 .. MaxFails, left : 0 .. FailTimeout]

Steps == {"idle", "resolve", "select", "enter", "reach", "settle", "connect",
          "direct", "connected", "failed"}

(***************************************************************************)
(* Fail markers (selector.Marker of the core library) and the filters.     *)
(***************************************************************************)
Mark(fs, S) ==
    [n \in Nodes |-> IF n \in S
                     THEN [count |-> Min({fs[n].count + 1, MaxFails}),
                           left  |-> FailTimeout]
                     ELSE fs[n]]

Reset(fs, n) == [fs EXCEPT ![n].count = 0]

(* Mutant of Dead: one failure more than maxFails is needed.               *)
DeadLater(n) == fails[n].count > MaxFails /\ fails[n].left > 0

Dead(n) == fails[n].count >= MaxFails /\ fails[n].left > 0

AtMostOne(S) == \A m, n \in S : m = n

FailFilter(S) == IF AtMostOne(S) THEN S ELSE {n \in S : ~ Dead(n)}

(* Mutant of BackupFilter: backups are dropped when nothing else is left.  *)
BackupFilterStrict(S) == S \ conf.backup

BackupFilter(S) ==
    IF AtMostOne(S) \/ S \subseteq conf.backup THEN S ELSE S \ conf.backup

(* NewSelector with the filters of ParseNodeSelector: the set the strategy *)
(* may return a member of.                                                 *)
Selectable(S) == BackupFilter(FailFilter(S))

(***************************************************************************)
(* chainHop.Select.                                                        *)
(***************************************************************************)
Pool(c, h) == {n \in conf.nodes \cap Admits[c] : HopOf[n] = h}

Tier(P, p) == {n \in P : conf.priority[n] = p}

Priorities(P) == {conf.priority[n] : n \in P}

(* A tier of backups is passed over while the pool has a primary.          *)
Considered(P, p) == ~ (Tier(P, p) \subseteq conf.backup /\ ~ (P \subseteq conf.backup))

(* The tiers from the highest priority down: the first whose selector      *)
(* returns a node.                                                         *)
FromTiers(P) ==
    LET yields == {p \in Priorities(P) :
                     Considered(P, p) /\ Selectable(Tier(P, p)) # {}}
    IN  IF yields = {} THEN {NoNode} ELSE Selectable(Tier(P, Max(yields)))

Shortcut(P) ==
    LET top == Max(Priorities(P) \cup {0})
    IN  top > 0 /\ AtMostOne(Tier(P, top)) /\ Tier(P, top) \cap conf.backup = {}

Select(c, h) ==
    LET P == Pool(c, h)
        top == Max(Priorities(P) \cup {0})
    IN  CASE P = {}                  -> {NoNode}
          [] P # {} /\ AtMostOne(P)  -> P
          [] OTHER ->
               IF Shortcut(P) THEN Tier(P, top)
               ELSE IF Tier(P, top) = P
               THEN IF Selectable(P) = {} THEN {NoNode} ELSE Selectable(P)
               ELSE FromTiers(P)

(***************************************************************************)
(* Routes.  A multiplexing node splits the route: what precedes it is the  *)
(* sub-route its transport dials through when it has no live session.      *)
(***************************************************************************)
Mux(n) == n \in conf.mux

Heads(rt, i) == {rt[j] : j \in {k \in 1 .. Len(rt) : k > i /\ Mux(rt[k])}}

(* Where connecting starts: at the last node with a cached session.        *)
Cached(n) == Mux(n) /\ sess[n] # <<>>

IsEntry(rt, p) ==
    /\ p = 1 \/ Cached(rt[p])
    /\ \A i \in p + 1 .. Len(rt) : ~ Cached(rt[i])

(* The dialers whose session mutex client d holds: those of the mux nodes  *)
(* whose sub-route it is dialling.                                         *)
Holding(d) ==
    IF req[d].pc \in {"reach", "settle"} THEN Heads(req[d].route, req[d].at) ELSE {}

Held(n, c) == \E d \in Clients \ {c} : n \in Holding(d)

(***************************************************************************)
(* The initial state.                                                      *)
(***************************************************************************)
(* A call at step p of attempt t that has no route and no connection.      *)
Fresh(p, t, q) == [pc |-> p, try |-> t, route |-> <<>>, at |-> 0, ok |-> FALSE,
                   path |-> <<>>, quiet |-> q]

Idle == Fresh("idle", 0, FALSE)

Init ==
    /\ conf \in Configs
    /\ \E D \in SUBSET conf.unstable : up = Places \ D
    /\ fails = [n \in Nodes |-> [count |-> 0, left |-> 0]]
    /\ sess = [n \in Nodes |-> <<>>]
    /\ req = [c \in Clients |-> Idle]
    /\ probe = [n \in Nodes |-> "none"]
    /\ flips = 0

(***************************************************************************)
(* One attempt after the other: Router.dial and Router.Bind.               *)
(***************************************************************************)
Attempts == IF conf.retries + 1 <= 0 THEN 1 ELSE conf.retries + 1

Request == [pc : Steps, try : 0 .. Attempts - 1, route : Seq(Nodes), at : Nat,
            ok : BOOLEAN, path : Seq(Nodes), quiet : BOOLEAN]

FirstStep(c) == IF c \in Binders THEN "select" ELSE "resolve"

Attempt(c, t) == Fresh(FirstStep(c), t, req[c].quiet)

(* Mutant of AfterFailure: the attempts are not counted.                   *)
AfterFailureForever(c) ==
    IF req[c].try + 1 < Attempts
    THEN Attempt(c, req[c].try)
    ELSE Fresh("failed", 0, req[c].quiet)

(* The attempt has failed and holds no connection: the next one, or the    *)
(* error of the last.                                                      *)
AfterFailure(c) ==
    IF req[c].try + 1 < Attempts
    THEN Attempt(c, req[c].try + 1)
    ELSE Fresh("failed", 0, req[c].quiet)

GiveUp(c) == req' = [req EXCEPT ![c] = AfterFailure(c)]

Start(c) ==
    /\ req[c].pc = "idle"
    /\ req' = [req EXCEPT ![c] = Fresh(FirstStep(c), 0, TRUE)]
    /\ UNCHANGED <<conf, up, fails, sess, probe, flips>>

Resolve(c) ==
    /\ req[c].pc = "resolve"
    /\ \/ Resolver \in up /\ req' = [req EXCEPT ![c].pc = "select"]
       \/ Resolver \notin up /\ GiveUp(c)
    /\ UNCHANGED <<conf, up, fails, sess, probe, flips>>

(* Chain.Route has composed rt; it may stop short of the last hop.  Dial   *)
(* takes a route without nodes as the default route, Bind as an error.     *)
Routed(c, rt) ==
    \/ rt # <<>> /\ req' = [req EXCEPT ![c] = [@ EXCEPT !.pc = "enter", !.route = rt]]
    \/ rt = <<>> /\ c \notin Binders /\ req' = [req EXCEPT ![c].pc = "direct"]
    \/ rt = <<>> /\ c \in Binders /\ GiveUp(c)

Route(c) ==
    /\ req[c].pc = "select"
    /\ LET rt == req[c].route
           h  == Len(rt) + 1
       IN  \E n \in Select(c, h) :
             \/ n = NoNode /\ Routed(c, rt)
             \/ n # NoNode /\ h = NHops /\ Routed(c, Append(rt, n))
             \/ n # NoNode /\ h < NHops
                /\ req' = [req EXCEPT ![c].route = Append(rt, n)]
    /\ UNCHANGED <<conf, up, fails, sess, probe, flips>>

(***************************************************************************)
(* chainRoute.connect, with the nested connects of its sub-routes.         *)
(***************************************************************************)
Enter(c) ==
    LET rt == req[c].route
    IN  /\ req[c].pc = "enter"
        /\ \E p \in 1 .. Len(rt) :
              /\ IsEntry(rt, p)
              /\ \A i \in p .. Len(rt) : ~ (Mux(rt[i]) /\ Held(rt[i], c))
              /\ req' = [req EXCEPT ![c] = [@ EXCEPT !.pc = "reach", !.at = p]]
        /\ UNCHANGED <<conf, up, fails, sess, probe, flips>>

(* The connection to the node at position at, over a cached session or     *)
(* through what has been connected so far.                                 *)
PathTo(c) ==
    LET n == req[c].route[req[c].at]
    IN  IF Cached(n) THEN sess[n] ELSE Append(req[c].path, n)

Answers(c) == Range(PathTo(c)) \subseteq up

(* Client d is about to dial n, or has done so and not shaken hands yet.   *)
Opening(d, n) ==
    /\ req[d].pc = "reach" /\ req[d].route[req[d].at] = n
    /\ Mux(n) /\ ~ Cached(n) /\ Answers(d)

(* A session that has not shaken hands counts as closed, and the mutex is  *)
(* free between Dial and Handshake: the Dial of another call or of the     *)
(* probe replaces it, and Handshake refuses "unrecognized connection".     *)
Refused(c) ==
    \E n \in Nodes :
        /\ Opening(c, n)
        /\ \/ \E d \in Clients \ {c} : Opening(d, n)
           \/ n \in (conf.probed \ conf.cmd) \cap up /\ probe[n] = "none"

(* Resolve, Dial or Connect, and Handshake of one node.                    *)
Reach(c) ==
    LET n == req[c].route[req[c].at]
        answers == Answers(c)
    IN  /\ req[c].pc = "reach"
        /\ \/ /\ answers
              /\ req' = [req EXCEPT ![c] =
                           [@ EXCEPT !.pc = "settle", !.ok = TRUE, !.path = PathTo(c)]]
              /\ sess' = IF Mux(n) THEN [sess EXCEPT ![n] = PathTo(c)] ELSE sess
           \/ /\ ~ answers
              /\ req' = [req EXCEPT ![c] = [@ EXCEPT !.pc = "settle", !.ok = FALSE]]
              /\ sess' = [sess EXCEPT ![n] = <<>>]
           \/ /\ Refused(c)
              /\ req' = [req EXCEPT ![c] = [@ EXCEPT !.pc = "settle", !.ok = FALSE]]
              /\ UNCHANGED sess
        /\ UNCHANGED <<conf, up, fails, probe, flips>>

SettleReached(c) ==
    LET rt == req[c].route
        i  == req[c].at
    IN  /\ req[c].pc = "settle" /\ req[c].ok
        /\ fails' = Reset(fails, rt[i])
        /\ req' = [req EXCEPT ![c] =
                     IF i = Len(rt)
                     THEN [@ EXCEPT !.pc = "connect", !.at = 0, !.ok = FALSE]
                     ELSE [@ EXCEPT !.pc = "reach", !.at = i + 1, !.ok = FALSE]]
        /\ UNCHANGED <<conf, up, sess, probe, flips>>

(* Mutant of Blamed: the node before the one that failed is marked.        *)
BlamedPredecessor(rt, i) == {rt[IF i > 1 THEN i - 1 ELSE i]} \cup Heads(rt, i)

(* A node that cannot be reached is marked, and with it every multiplexing *)
(* node whose dial was under way; what was connected is closed.            *)
Blamed(rt, i) == {rt[i]} \cup Heads(rt, i)

SettleFailed(c) ==
    /\ req[c].pc = "settle" /\ ~ req[c].ok
    /\ fails' = Mark(fails, Blamed(req[c].route, req[c].at))
    /\ GiveUp(c)
    /\ UNCHANGED <<conf, up, sess, probe, flips>>

(* chainRoute.Dial and Bind, once connected: the last node's Connect (or   *)
(* Bind).  No marker is touched.                                           *)
Connect(c) ==
    /\ req[c].pc = "connect"
    /\ \/ /\ Range(req[c].path) \cup {Target} \subseteq up
          /\ req' = [req EXCEPT ![c].pc = "connected"]
       \/ /\ ~ (Range(req[c].path) \cup {Target} \subseteq up)
          /\ GiveUp(c)
    /\ UNCHANGED <<conf, up, fails, sess, probe, flips>>

(* defaultRoute.Dial.                                                      *)
Direct(c) ==
    /\ req[c].pc = "direct"
    /\ \/ Target \in up /\ req' = [req EXCEPT ![c].pc = "connected"]
       \/ Target \notin up /\ GiveUp(c)
    /\ UNCHANGED <<conf, up, fails, sess, probe, flips>>

(* The caller is done with the connection, or with the error.              *)
Release(c) ==
    /\ req[c].pc \in {"connected", "failed"}
    /\ req' = [req EXCEPT ![c] = Idle]
    /\ UNCHANGED <<conf, up, fails, sess, probe, flips>>

(***************************************************************************)
(* probeNode and recordProbe.  A probe by connection or by HTTP dials the  *)
(* node; that of a multiplexing node does so without a sub-route, and      *)
(* leaves the session in the dialer's cache.                               *)
(***************************************************************************)
ProbePath(n) == IF Cached(n) THEN sess[n] ELSE <<n>>

(* Dial and Handshake.                                                     *)
ProbeNode(n) ==
    LET answers == Range(ProbePath(n)) \subseteq up
        reached == IF n \in conf.http THEN "asks" ELSE "ok"
    IN  /\ n \in conf.probed \ conf.cmd
        /\ probe[n] = "none"
        /\ ~ (\E d \in Clients : n \in Holding(d))
        /\ \/ /\ probe' = [probe EXCEPT ![n] = IF answers THEN reached ELSE "failed"]
              /\ sess' = [sess EXCEPT ![n] =
                            IF Mux(n) /\ answers THEN ProbePath(n) ELSE <<>>]
           \/ /\ answers /\ \E d \in Clients : Opening(d, n)
              /\ probe' = [probe EXCEPT ![n] = "failed"]
              /\ UNCHANGED sess
        /\ UNCHANGED <<conf, up, fails, req, flips>>

(* HTTPProber.Probe over the connection: it fails also when the node       *)
(* answers and the page does not, or with another status.                  *)
ProbePage(n) ==
    /\ probe[n] = "asks"
    /\ LET answers == /\ Mux(n) => Cached(n)
                      /\ Range(ProbePath(n)) \cup {Test[n]} \subseteq up
       IN  probe' = [probe EXCEPT ![n] = IF answers THEN "ok" ELSE "failed"]
    /\ UNCHANGED <<conf, up, fails, sess, req, flips>>

(* CmdProber.Probe: a command, which need not have to do with the node.    *)
ProbeCommand(n) ==
    /\ n \in conf.cmd
    /\ probe[n] = "none"
    /\ probe' = [probe EXCEPT ![n] = IF Test[n] \in up THEN "ok" ELSE "failed"]
    /\ UNCHANGED <<conf, up, fails, sess, req, flips>>

RecordProbe(n) ==
    /\ probe[n] \in {"ok", "failed"}
    /\ fails' = IF probe[n] = "ok" THEN Reset(fails, n) ELSE Mark(fails, {n})
    /\ probe' = [probe EXCEPT ![n] = "none"]
    /\ UNCHANGED <<conf, up, sess, req, flips>>

Probe(n) == ProbeNode(n) \/ ProbePage(n) \/ ProbeCommand(n) \/ RecordProbe(n)

(***************************************************************************)
(* The environment: time, and places that fail and recover.                *)
(***************************************************************************)
Disturbed == [c \in Clients |-> [req[c] EXCEPT !.quiet = FALSE]]

Tick ==
    /\ \E n \in Nodes : fails[n].left > 0
    /\ fails' = [n \in Nodes |-> [fails[n] EXCEPT !.left = IF @ > 0 THEN @ - 1 ELSE 0]]
    /\ req' = Disturbed
    /\ UNCHANGED <<conf, up, sess, probe, flips>>

Flip(p) ==
    /\ flips < conf.maxFlips
    /\ up' = IF p \in up THEN up \ {p} ELSE up \cup {p}
    /\ sess' = [n \in Nodes |-> IF p \in Range(sess[n]) THEN <<>> ELSE sess[n]]
    /\ req' = Disturbed
    /\ flips' = flips + 1
    /\ UNCHANGED <<conf, fails, probe>>

Advance(c) ==
    \/ Resolve(c) \/ Route(c) \/ Enter(c) \/ Reach(c)
    \/ SettleReached(c) \/ SettleFailed(c) \/ Connect(c) \/ Direct(c)

Next ==
    \/ \E c \in Clients : Start(c) \/ Advance(c) \/ Release(c)
    \/ \E n \in Nodes : Probe(n)
    \/ Tick
    \/ \E p \in conf.unstable : Flip(p)

Spec == Init /\ [][Next]_vars

(* A started call keeps running; a Go mutex is not starved.                *)
FairSpec ==
    /\ Spec
    /\ \A c \in Clients : WF_vars(Advance(c)) /\ SF_vars(Enter(c))

(***************************************************************************)
(* Properties.                                                             *)
(***************************************************************************)
TypeOK ==
    /\ conf \in Configs
    /\ up \subseteq Places
    /\ fails \in [Nodes -> Marker]
    /\ sess \in [Nodes -> Seq(Nodes)]
    /\ req \in [Clients -> Request]
    /\ probe \in [Nodes -> {"none", "asks", "ok", "failed"}]
    /\ flips \in 0 .. conf.maxFlips

(* A node that answers and that its probe has nothing against: the page or *)
(* the command of an HTTP or command probe may fail though the node serves *)
(* (chain/node.go:59, :94), and marks it then.                             *)
Sound(n) == n \in up /\ (n \in conf.http \cup conf.cmd => Test[n] \in up)

(* A node that is down and that its probe resets: its command succeeds.    *)
Praised(n) == n \in conf.cmd \ up /\ Test[n] \in up

(* A hop whose nodes compete on equal terms, one of which is sound.        *)
Uniform(P) == \A m, n \in P : conf.priority[m] = conf.priority[n]

Served(c, h) == Uniform(Pool(c, h)) /\ \E n \in Pool(c, h) : Sound(n)

(* No multiplexing node: one is also marked for the failure of a node of   *)
(* its sub-route, and when calls that open its session refuse each other.  *)
PlainChain == conf.mux = {}

Down(c) == (UNION {Pool(c, h) : h \in 1 .. NHops}) \ up

(* While no place changes, a fail marker only ever accuses a node that is  *)
(* down, or that its HTTP or command probe refuses: no client and no other *)
(* probe marks a node that answers, in whatever order connect, the probes  *)
(* and their late marks and resets interleave.                             *)
AnsweringNodesUnmarked ==
    flips = 0 /\ PlainChain => \A n \in Nodes : Sound(n) => fails[n].count = 0

(* While no place changes, a client whose hops each have a sound node      *)
(* among equals is never routed around a hop: FailFilter cannot have       *)
(* emptied a pool, whatever the other clients and the probes marked, so    *)
(* Chain.Route never stops short and Dial never falls back to direct.      *)
NoHopBypassed ==
    \A c \in Clients :
        (flips = 0 /\ PlainChain /\ \A h \in 1 .. NHops : Served(c, h))
            => /\ req[c].pc # "direct"
               /\ req[c].pc \in {"enter", "reach", "settle", "connect"} =>
                    /\ Len(req[c].route) = NHops
                    /\ \A i \in 1 .. NHops : HopOf[req[c].route[i]] = i

(* The same client reaches its target: each node that is down costs at     *)
(* most MaxFails attempts, so with that many retries Router.dial does not  *)
(* return an error, provided no failure expires while it runs and no       *)
(* command probe resets a node that is down.                               *)
FailoverSucceeds ==
    \A c \in Clients :
        (/\ flips = 0 /\ PlainChain /\ req[c].quiet
         /\ \A h \in 1 .. NHops : Served(c, h)
         /\ \A n \in Down(c) : ~ Praised(n)
         /\ {Target, Resolver} \subseteq up
         /\ conf.retries >= MaxFails * Cardinality(Down(c)))
            => req[c].pc # "failed"

(* Every call returns: Router.dial and Router.Bind make finitely many      *)
(* attempts and each one ends, also when clients wait for the session      *)
(* mutex of a multiplexing dialer.                                         *)
CallsReturn ==
    \A c \in Clients :
        req[c].pc # "idle" ~> req[c].pc \in {"connected", "failed"}

(* "the resulting Route carries traffic through every selected node in     *)
(* order" (package chain): a connected call passes the nodes of its route. *)
RouteIsFollowed ==
    \A c \in Clients :
        req[c].pc \in {"connect", "connected"} => req[c].path = req[c].route
=============================================================================
