---------------------------- MODULE ChainProofs ----------------------------
(***************************************************************************)
(* Proofs about Chain for any number of clients, hops, nodes and           *)
(* configurations: type correctness, that fail markers accuse only nodes   *)
(* that are down or fail their probe, that no served hop is bypassed, and  *)
(* that a call with as many retries as failures it may meet does not fail. *)
(***************************************************************************)
EXTENDS Chain, FiniteSetTheorems, TLAPS

\* The clients NoHopBypassed speaks of.
Entitled(c) == flips = 0 /\ PlainChain /\ \A h \in 1 .. NHops : Served(c, h)

\* A call whose route follows the hops, and whose open connection and failure
\* are what the network really answered.
RequestOK(c, r) ==
    /\ r \in Request
    /\ Len(r.route) <= NHops
    /\ \A i \in 1 .. Len(r.route) : r.route[i] \in Pool(c, i)
    /\ r.pc = "resolve" => r.route = <<>>
    /\ r.pc = "select" => Len(r.route) < NHops
    /\ r.pc \in {"reach", "settle"} => r.at \in 1 .. Len(r.route)
    /\ flips = 0 => Range(r.path) \subseteq up
    /\ flips = 0 /\ PlainChain /\ r.pc = "settle" => (r.ok <=> r.route[r.at] \in up)
    /\ Entitled(c) =>
         /\ r.pc # "direct"
         /\ r.pc \in {"enter", "reach", "settle", "connect"} => Len(r.route) = NHops

\* Sessions and probes, too, reflect what answers while nothing changes.
AnswersOK ==
    flips = 0 => \A n \in Nodes : /\ Range(sess[n]) \subseteq up
                                  /\ PlainChain /\ probe[n] = "failed" => ~ Sound(n)
                                  /\ PlainChain /\ probe[n] = "ok" => n \in up \/ Praised(n)
                                  /\ probe[n] = "asks" => n \in conf.http

\* The inductive invariant.
IInv ==
    /\ TypeOK
    /\ \A c \in Clients : RequestOK(c, req[c])
    /\ AnswersOK
    /\ AnsweringNodesUnmarked
-----------------------------------------------------------------------------
(* Facts about the operators.                                              *)

\* The filters of a selector return some of the nodes they are given.
LEMMA FiltersSelect ==
    ASSUME NEW S PROVE Selectable(S) \subseteq S
BY Zenon DEF Selectable, FailFilter, BackupFilter

\* chainHop.Select returns nil or a node of the hop that admits the request.
LEMMA SelectFromPool ==
    ASSUME NEW c, NEW h
    PROVE  Select(c, h) \subseteq Pool(c, h) \cup {NoNode}
<1> DEFINE P == Pool(c, h)
<1>1. \A p : Tier(P, p) \subseteq P
  BY Zenon DEF Tier
<1>2. FromTiers(P) \subseteq P \cup {NoNode}
  BY Zenon, <1>1, FiltersSelect DEF FromTiers
<1> QED
  BY Zenon, <1>1, <1>2, FiltersSelect DEF Select

\* A selector given a node that is not dead returns one: FailFilter keeps it,
\* and BackupFilter empties no set.
LEMMA SelectorYields ==
    ASSUME NEW S, NEW u \in S, ~ Dead(u)
    PROVE  Selectable(S) # {}
<1>1. FailFilter(S) # {}
  BY Zenon DEF FailFilter
<1>2. \A T : T # {} => BackupFilter(T) # {}
  BY Zenon DEF BackupFilter
<1> QED
  BY Zenon, <1>1, <1>2 DEF Selectable

\* chainHop.Select does not return nil when the hop's candidates are equals and
\* one of them is not dead.
LEMMA SelectFindsNode ==
    ASSUME NEW c, NEW h, NEW u \in Pool(c, h), ~ Dead(u), Uniform(Pool(c, h)),
           NoNode \notin Nodes, conf.nodes \subseteq Nodes
    PROVE  NoNode \notin Select(c, h)
<1> DEFINE P == Pool(c, h)
           p == conf.priority[u]
<1>1. P \subseteq Nodes /\ P # {} /\ NoNode \notin P
  BY Zenon DEF Pool
<1>2. Tier(P, p) = P /\ p \in Priorities(P)
  BY Zenon DEF Tier, Priorities, Uniform
<1>3. Considered(P, p)
  BY Zenon, <1>2 DEF Considered
<1>4. Selectable(P) # {}
  BY Zenon, SelectorYields
<1>5. NoNode \notin FromTiers(P)
  <2>1. {q \in Priorities(P) : Considered(P, q) /\ Selectable(Tier(P, q)) # {}} # {}
    BY Zenon, <1>2, <1>3, <1>4
  <2>2. \A q : NoNode \notin Selectable(Tier(P, q))
    BY Zenon, <1>1, FiltersSelect DEF Tier
  <2> QED
    BY Zenon, <2>1, <2>2 DEF FromTiers
<1>6. NoNode \notin Selectable(P) /\ \A q : NoNode \notin Tier(P, q)
  BY Zenon, <1>1, FiltersSelect DEF Tier
<1> QED
  BY Zenon, <1>1, <1>4, <1>5, <1>6 DEF Select

\* Router.dial and Router.Bind make at least one attempt.
LEMMA SomeAttempt ==
    ASSUME conf \in Configs
    PROVE  Attempts \in Nat /\ Attempts >= 1 /\ 0 \in 0 .. Attempts - 1
<1>1. conf.retries \in Int
  BY Zenon, ChainAssumption
<1>2. Attempts \in Nat /\ Attempts >= 1
  BY <1>1 DEF Attempts
<1> QED
  BY <1>2

\* A call that holds no route and no connection is in a good state.
LEMMA FreshOK ==
    ASSUME NEW c \in Clients, NEW p \in {"idle", "resolve", "select", "failed"},
           NEW t \in 0 .. Attempts - 1, NEW q \in BOOLEAN
    PROVE  RequestOK(c, Fresh(p, t, q))
<1>1. p \in Steps
  BY Zenon DEF Steps
<1>2. Fresh(p, t, q) \in Request
  BY <1>1 DEF Fresh, Request
<1>3. /\ Fresh(p, t, q).route = <<>> /\ Fresh(p, t, q).path = <<>>
      /\ Fresh(p, t, q).pc = p
  BY Zenon DEF Fresh
<1>4. Range(<<>>) = {}
  BY DEF Range
<1> QED
  BY <1>2, <1>3, <1>4, ChainAssumption DEF RequestOK

\* A call after a failed attempt holds no route and no connection.
LEMMA AfterFailureOK ==
    ASSUME IInv, NEW c \in Clients
    PROVE  RequestOK(c, AfterFailure(c))
<1>1. req[c] \in Request /\ conf \in Configs
  BY Zenon DEF IInv, TypeOK
<1>2. req[c].try \in 0 .. Attempts - 1 /\ req[c].quiet \in BOOLEAN
  BY Zenon, <1>1 DEF Request
<1>3. CASE req[c].try + 1 < Attempts
  <2>1. req[c].try + 1 \in 0 .. Attempts - 1
    BY <1>1, <1>2, <1>3, SomeAttempt
  <2>2. FirstStep(c) \in {"idle", "resolve", "select", "failed"}
    BY Zenon DEF FirstStep
  <2>3. RequestOK(c, Fresh(FirstStep(c), req[c].try + 1, req[c].quiet))
    BY Zenon, <1>2, <2>1, <2>2, FreshOK
  <2> QED
    BY Zenon, <1>3, <2>3 DEF AfterFailure, Attempt
<1>4. CASE ~ (req[c].try + 1 < Attempts)
  <2>1. RequestOK(c, Fresh("failed", 0, req[c].quiet))
    BY Zenon, <1>1, <1>2, SomeAttempt, FreshOK
  <2> QED
    BY Zenon, <1>4, <2>1 DEF AfterFailure
<1> QED
  BY Zenon, <1>3, <1>4
-----------------------------------------------------------------------------
(* The steps of a call.                                                    *)

\* A step that replaces one call's state by a good one and leaves the places
\* alone leaves every call in a good state.
LEMMA OneCallChanges ==
    ASSUME IInv, NEW c \in Clients, NEW r, RequestOK(c, r),
           req' = [req EXCEPT ![c] = r], UNCHANGED <<conf, up, flips>>
    PROVE  /\ req' \in [Clients -> Request']
           /\ \A d \in Clients : RequestOK(d, req[d])'
<1>1. Request' = Request /\ \A q : \A d \in Clients : RequestOK(d, q)' <=> RequestOK(d, q)
  BY DEF Request, Attempts, RequestOK, Entitled, PlainChain, Served, Sound, Uniform, Pool
<1>2. req' \in [Clients -> Request]
  BY Zenon DEF IInv, TypeOK, RequestOK
<1>3. \A d \in Clients : RequestOK(d, req'[d])
  BY Zenon DEF IInv, TypeOK
<1> QED
  BY Zenon, <1>1, <1>2, <1>3

\* The same, for a step that touches nothing else.
LEMMA OnlyOneCallChanges ==
    ASSUME IInv, NEW c \in Clients, NEW r, RequestOK(c, r),
           req' = [req EXCEPT ![c] = r], UNCHANGED <<conf, up, fails, sess, probe, flips>>
    PROVE  IInv'
<1>1. /\ req' \in [Clients -> Request']
      /\ \A d \in Clients : RequestOK(d, req[d])'
  BY Zenon, OneCallChanges
<1>2. TypeOK'
  BY Zenon, <1>1 DEF IInv, TypeOK
<1>3. AnswersOK'
  BY Zenon DEF IInv, AnswersOK, Sound, Praised, PlainChain
<1>4. AnsweringNodesUnmarked'
  BY Zenon DEF IInv, AnsweringNodesUnmarked, Sound, PlainChain
<1> QED
  BY Zenon, <1>1, <1>2, <1>3, <1>4 DEF IInv

\* A failed attempt that only gives up keeps the invariant.
LEMMA GiveUpOK ==
    ASSUME IInv, NEW c \in Clients, GiveUp(c),
           UNCHANGED <<conf, up, fails, sess, probe, flips>>
    PROVE  IInv'
BY Zenon, AfterFailureOK, OnlyOneCallChanges DEF GiveUp

\* Router.dial and Router.Bind start their first attempt.
LEMMA StartOK ==
    ASSUME IInv, NEW c \in Clients, Start(c)
    PROVE  IInv'
<1>1. conf \in Configs
  BY Zenon DEF IInv, TypeOK
<1>2. FirstStep(c) \in {"idle", "resolve", "select", "failed"}
  BY Zenon DEF FirstStep
<1>3. RequestOK(c, Fresh(FirstStep(c), 0, TRUE))
  BY Zenon, <1>1, <1>2, SomeAttempt, FreshOK
<1> QED
  BY Zenon, <1>3, OnlyOneCallChanges DEF Start

\* The caller is done with the call.
LEMMA ReleaseOK ==
    ASSUME IInv, NEW c \in Clients, Release(c)
    PROVE  IInv'
<1>1. conf \in Configs
  BY Zenon DEF IInv, TypeOK
<1>2. RequestOK(c, Idle)
  BY Zenon, <1>1, SomeAttempt, FreshOK DEF Idle
<1> QED
  BY Zenon, <1>2, OnlyOneCallChanges DEF Release

\* A call that has no route yet, or is past its route, may change its step.
LEMMA StepOK ==
    ASSUME IInv, NEW c \in Clients, NEW p \in {"select", "connected"},
           p = "select" => req[c].route = <<>>
    PROVE  RequestOK(c, [req[c] EXCEPT !.pc = p])
<1> DEFINE r == [req[c] EXCEPT !.pc = p]
<1>1. req[c] \in Request /\ RequestOK(c, req[c])
  BY Zenon DEF IInv, TypeOK
<1>2. r \in Request /\ r.pc = p /\ r.route = req[c].route /\ r.path = req[c].path
  BY Zenon, <1>1 DEF Request, Steps
<1> QED
  BY <1>1, <1>2, ChainAssumption DEF RequestOK

\* The router resolves the address of the target.
LEMMA ResolveOK ==
    ASSUME IInv, NEW c \in Clients, Resolve(c)
    PROVE  IInv'
<1>0. req[c].route = <<>>
  BY Zenon DEF IInv, RequestOK, Resolve
<1>1. CASE req' = [req EXCEPT ![c].pc = "select"]
  <2>1. req' = [req EXCEPT ![c] = [req[c] EXCEPT !.pc = "select"]]
    BY Zenon, <1>1 DEF IInv, TypeOK
  <2> QED
    BY Zenon, <1>0, <2>1, StepOK, OnlyOneCallChanges DEF Resolve
<1>2. CASE GiveUp(c)
  BY Zenon, <1>2, GiveUpOK DEF Resolve
<1> QED
  BY Zenon, <1>1, <1>2 DEF Resolve

\* The last node connects to the target, or binds.
LEMMA ConnectOK ==
    ASSUME IInv, NEW c \in Clients, Connect(c) \/ Direct(c)
    PROVE  IInv'
<1>1. CASE req' = [req EXCEPT ![c].pc = "connected"]
  <2>1. req' = [req EXCEPT ![c] = [req[c] EXCEPT !.pc = "connected"]]
    BY Zenon, <1>1 DEF IInv, TypeOK
  <2> QED
    BY Zenon, <2>1, StepOK, OnlyOneCallChanges DEF Connect, Direct
<1>2. CASE GiveUp(c)
  BY Zenon, <1>2, GiveUpOK DEF Connect, Direct
<1> QED
  BY Zenon, <1>1, <1>2 DEF Connect, Direct

\* An entitled call is offered a node by every hop.
LEMMA HopOffersNode ==
    ASSUME IInv, NEW c \in Clients, NEW h \in 1 .. NHops, Entitled(c)
    PROVE  NoNode \notin Select(c, h)
<1>1. PICK u \in Pool(c, h) : Sound(u)
  BY Zenon DEF Entitled, Served
<1>2. conf \in Configs /\ conf.nodes \subseteq Nodes
  BY Zenon, ChainAssumption DEF IInv, TypeOK
<1>3. fails[u].count = 0
  BY Zenon, <1>1, <1>2 DEF IInv, AnsweringNodesUnmarked, Entitled, Pool
<1>4. ~ Dead(u)
  BY <1>3, ChainAssumption DEF Dead
<1>5. Uniform(Pool(c, h))
  BY Zenon DEF Entitled, Served
<1> QED
  BY Zenon, <1>1, <1>2, <1>4, <1>5, SelectFindsNode, ChainAssumption

\* Extending a route by a node of the next hop.
LEMMA AppendRoute ==
    ASSUME NEW c \in Clients, NEW rt \in Seq(Nodes), Len(rt) < NHops,
           \A i \in 1 .. Len(rt) : rt[i] \in Pool(c, i),
           NEW n \in Pool(c, Len(rt) + 1), conf.nodes \subseteq Nodes
    PROVE  /\ Append(rt, n) \in Seq(Nodes)
           /\ Append(rt, n) # <<>>
           /\ Len(Append(rt, n)) = Len(rt) + 1
           /\ \A i \in 1 .. Len(Append(rt, n)) : Append(rt, n)[i] \in Pool(c, i)
<1>1. n \in Nodes
  BY Zenon DEF Pool
<1>2. /\ Append(rt, n) \in Seq(Nodes)
      /\ Append(rt, n) # <<>>
      /\ Len(Append(rt, n)) = Len(rt) + 1
  BY <1>1
<1>3. ASSUME NEW i \in 1 .. Len(Append(rt, n))
      PROVE  Append(rt, n)[i] \in Pool(c, i)
  <2>1. CASE i = Len(rt) + 1
    BY <1>1, <2>1
  <2>2. CASE i \in 1 .. Len(rt)
    BY <1>1, <2>2
  <2> QED
    BY <1>2, <2>1, <2>2
<1> QED
  BY Zenon, <1>2, <1>3

\* A route that is not empty is handed to connect; for an entitled call it is
\* complete.
LEMMA RoutedOK ==
    ASSUME IInv, NEW c \in Clients, req[c].pc = "select",
           NEW rt \in Seq(Nodes), Len(rt) <= NHops,
           \A i \in 1 .. Len(rt) : rt[i] \in Pool(c, i),
           Entitled(c) => Len(rt) = NHops,
           Routed(c, rt), UNCHANGED <<conf, up, fails, sess, probe, flips>>
    PROVE  IInv'
<1>1. req[c] \in Request /\ RequestOK(c, req[c])
  BY Zenon DEF IInv, TypeOK
<1>2. CASE rt # <<>> /\ req' = [req EXCEPT ![c] = [@ EXCEPT !.pc = "enter", !.route = rt]]
  <2> DEFINE r == [req[c] EXCEPT !.pc = "enter", !.route = rt]
  <2>1. r \in Request /\ r.pc = "enter" /\ r.route = rt /\ r.path = req[c].path
    BY Zenon, <1>1 DEF Request, Steps
  <2>2. RequestOK(c, r)
    BY Zenon, <1>1, <2>1 DEF RequestOK
  <2> QED
    BY Zenon, <1>2, <2>2, OnlyOneCallChanges DEF IInv, TypeOK
<1>3. CASE rt = <<>> /\ req' = [req EXCEPT ![c].pc = "direct"]
  <2> DEFINE r == [req[c] EXCEPT !.pc = "direct"]
  <2>1. r \in Request /\ r.pc = "direct" /\ r.route = req[c].route /\ r.path = req[c].path
    BY Zenon, <1>1 DEF Request, Steps
  <2>2. ~ Entitled(c)
    BY Zenon, <1>3, ChainAssumption
  <2>3. RequestOK(c, r)
    BY Zenon, <1>1, <2>1, <2>2 DEF RequestOK
  <2> QED
    BY Zenon, <1>3, <2>3, OnlyOneCallChanges DEF IInv, TypeOK
<1>4. CASE GiveUp(c)
  BY Zenon, <1>4, GiveUpOK
<1> QED
  BY Zenon, <1>2, <1>3, <1>4 DEF Routed

\* Chain.Route takes one more hop.
LEMMA RouteOK ==
    ASSUME IInv, NEW c \in Clients, Route(c)
    PROVE  IInv'
<1> DEFINE rt == req[c].route
           h == Len(rt) + 1
<1>1. req[c] \in Request /\ RequestOK(c, req[c]) /\ rt \in Seq(Nodes)
  BY Zenon DEF IInv, TypeOK, Request
<1>2. /\ req[c].pc = "select" /\ Len(rt) < NHops
      /\ \A i \in 1 .. Len(rt) : rt[i] \in Pool(c, i)
  BY Zenon, <1>1 DEF Route, RequestOK
<1>3. h \in 1 .. NHops
  BY <1>1, <1>2, ChainAssumption
<1>4. conf.nodes \subseteq Nodes
  BY Zenon, ChainAssumption DEF IInv, TypeOK
<1>5. PICK n \in Select(c, h) :
         \/ n = NoNode /\ Routed(c, rt)
         \/ n # NoNode /\ h = NHops /\ Routed(c, Append(rt, n))
         \/ n # NoNode /\ h < NHops /\ req' = [req EXCEPT ![c].route = Append(rt, n)]
  BY Zenon DEF Route
<1>6. UNCHANGED <<conf, up, fails, sess, probe, flips>>
  BY Zenon DEF Route
<1>7. CASE n = NoNode /\ Routed(c, rt)
  <2>1. ~ Entitled(c)
    BY Zenon, <1>3, <1>5, <1>7, HopOffersNode
  <2>2. Len(rt) <= NHops
    BY <1>1, <1>2, ChainAssumption
  <2> QED
    BY Zenon, <1>1, <1>2, <1>6, <1>7, <2>1, <2>2, RoutedOK
<1>8. ASSUME n # NoNode
      PROVE  /\ Append(rt, n) \in Seq(Nodes)
             /\ Len(Append(rt, n)) = h
             /\ \A i \in 1 .. Len(Append(rt, n)) : Append(rt, n)[i] \in Pool(c, i)
  <2>1. n \in Pool(c, h)
    BY <1>5, <1>8, SelectFromPool
  <2> QED
    BY Zenon, <1>1, <1>2, <1>4, <2>1, AppendRoute
<1>9. CASE n # NoNode /\ h = NHops /\ Routed(c, Append(rt, n))
  <2>1. Len(Append(rt, n)) = NHops /\ NHops \in Nat
    BY Zenon, <1>8, <1>9, ChainAssumption
  <2>2. Len(Append(rt, n)) <= NHops
    BY <2>1
  <2> QED
    BY Zenon, <1>2, <1>6, <1>8, <1>9, <2>1, <2>2, RoutedOK
<1>10. CASE n # NoNode /\ h < NHops /\ req' = [req EXCEPT ![c].route = Append(rt, n)]
  <2> DEFINE r == [req[c] EXCEPT !.route = Append(rt, n)]
  <2>1. r \in Request /\ r.pc = "select" /\ r.route = Append(rt, n) /\ r.path = req[c].path
    BY Zenon, <1>1, <1>2, <1>8, <1>10 DEF Request
  <2>2. Len(r.route) < NHops
    BY Zenon, <1>8, <1>10, <2>1
  <2>3. RequestOK(c, r)
    <3>1. Len(r.route) <= NHops
      BY <1>3, <1>8, <1>10, <2>1
    <3>2. \A i \in 1 .. Len(r.route) : r.route[i] \in Pool(c, i)
      BY Zenon, <1>8, <1>10, <2>1
    <3>3. flips = 0 => Range(r.path) \subseteq up
      BY Zenon, <1>1, <2>1 DEF RequestOK
    <3> HIDE DEF r
    <3> QED
      BY Zenon, <2>1, <2>2, <3>1, <3>2, <3>3 DEF RequestOK
  <2> QED
    BY Zenon, <1>6, <1>10, <2>3, OnlyOneCallChanges DEF IInv, TypeOK
<1> QED
  BY Zenon, <1>5, <1>7, <1>9, <1>10

\* connect starts at the first node, or at the last one with a session.
LEMMA EnterOK ==
    ASSUME IInv, NEW c \in Clients, Enter(c)
    PROVE  IInv'
<1>1. req[c] \in Request /\ RequestOK(c, req[c]) /\ req[c].pc = "enter"
  BY Zenon DEF IInv, TypeOK, Enter
<1>2. PICK p \in 1 .. Len(req[c].route) :
         req' = [req EXCEPT ![c] = [@ EXCEPT !.pc = "reach", !.at = p]]
  BY Zenon DEF Enter
<1> DEFINE r == [req[c] EXCEPT !.pc = "reach", !.at = p]
<1>3. /\ r \in Request /\ r.pc = "reach" /\ r.at = p
      /\ r.route = req[c].route /\ r.path = req[c].path
  <2>1. req[c].route \in Seq(Nodes) /\ p \in Nat
    BY <1>1, <1>2 DEF Request
  <2> QED
    BY Zenon, <1>1, <2>1 DEF Request, Steps
<1>4. RequestOK(c, r)
  BY Zenon, <1>1, <1>2, <1>3 DEF RequestOK
<1> QED
  BY Zenon, <1>2, <1>4, OnlyOneCallChanges DEF Enter, IInv, TypeOK

\* The nodes of a path extended by one node.
LEMMA RangeAppend ==
    ASSUME NEW p \in Seq(Nodes), NEW n \in Nodes
    PROVE  /\ Append(p, n) \in Seq(Nodes)
           /\ Range(Append(p, n)) = Range(p) \cup {n}
<1>1. Append(p, n) \in Seq(Nodes) /\ DOMAIN p = 1 .. Len(p)
      /\ DOMAIN Append(p, n) = 1 .. (Len(p) + 1) /\ Len(p) \in Nat
  OBVIOUS
<1>2. \A i \in 1 .. Len(p) : Append(p, n)[i] = p[i]
  OBVIOUS
<1>3. Append(p, n)[Len(p) + 1] = n
  OBVIOUS
<1>4. \A i \in 1 .. (Len(p) + 1) : i \in 1 .. Len(p) \/ i = Len(p) + 1
  BY <1>1
<1>5. 1 .. Len(p) \subseteq 1 .. (Len(p) + 1) /\ Len(p) + 1 \in 1 .. (Len(p) + 1)
  BY <1>1
<1> QED
  BY Zenon, <1>1, <1>2, <1>3, <1>4, <1>5 DEF Range

\* One node of the route is dialled.
LEMMA ReachOK ==
    ASSUME IInv, NEW c \in Clients, Reach(c)
    PROVE  IInv'
<1> DEFINE n == req[c].route[req[c].at]
<1>1. /\ req[c] \in Request /\ RequestOK(c, req[c]) /\ req[c].pc = "reach"
      /\ sess \in [Nodes -> Seq(Nodes)]
      /\ UNCHANGED <<conf, up, fails, probe, flips>>
  BY Zenon DEF IInv, TypeOK, Reach
<1>2. req[c].at \in 1 .. Len(req[c].route) /\ req[c].route \in Seq(Nodes)
      /\ req[c].path \in Seq(Nodes)
  BY Zenon, <1>1 DEF RequestOK, Request
<1>3. n \in Nodes
  BY <1>2
<1>4. PathTo(c) \in Seq(Nodes)
  BY Zenon, <1>1, <1>2, <1>3, RangeAppend DEF PathTo
<1>5. ASSUME flips = 0, ~ (Range(PathTo(c)) \subseteq up)
      PROVE  n \notin up
  <2>1. Range(sess[n]) \subseteq up /\ Range(req[c].path) \subseteq up
    BY Zenon, <1>1, <1>3, <1>5 DEF IInv, AnswersOK, RequestOK
  <2> QED
    BY <1>2, <1>3, <1>5, <2>1, RangeAppend DEF PathTo
<1>6. CASE /\ Range(PathTo(c)) \subseteq up
           /\ req' = [req EXCEPT ![c] =
                [@ EXCEPT !.pc = "settle", !.ok = TRUE, !.path = PathTo(c)]]
           /\ sess' = IF Mux(n) THEN [sess EXCEPT ![n] = PathTo(c)] ELSE sess
  <2> DEFINE r == [req[c] EXCEPT !.pc = "settle", !.ok = TRUE, !.path = PathTo(c)]
  <2>1. /\ r \in Request /\ r.pc = "settle" /\ r.ok = TRUE /\ r.path = PathTo(c)
        /\ r.at = req[c].at /\ r.route = req[c].route
    BY Zenon, <1>1, <1>4 DEF Request, Steps
  <2>2. RequestOK(c, r)
    <3>1. PlainChain => n \in Range(PathTo(c))
      BY <1>2, <1>3, RangeAppend DEF PathTo, Cached, Mux, PlainChain
    <3> QED
      BY Zenon, <1>1, <1>6, <2>1, <3>1 DEF RequestOK
  <2>3. req' \in [Clients -> Request'] /\ \A d \in Clients : RequestOK(d, req[d])'
    BY Zenon, <1>1, <1>6, <2>2, OneCallChanges DEF IInv, TypeOK
  <2>4. sess' \in [Nodes -> Seq(Nodes)]
    BY Zenon, <1>1, <1>3, <1>4, <1>6
  <2>5. AnswersOK'
    BY Zenon, <1>1, <1>3, <1>6 DEF IInv, AnswersOK, Sound, Praised, PlainChain
  <2>6. TypeOK'
    BY Zenon, <1>1, <2>3, <2>4 DEF IInv, TypeOK
  <2>7. AnsweringNodesUnmarked'
    BY Zenon, <1>1 DEF IInv, AnsweringNodesUnmarked, Sound, PlainChain
  <2> QED
    BY Zenon, <2>3, <2>5, <2>6, <2>7 DEF IInv
<1>7. CASE /\ ~ (Range(PathTo(c)) \subseteq up)
           /\ req' = [req EXCEPT ![c] = [@ EXCEPT !.pc = "settle", !.ok = FALSE]]
           /\ sess' = [sess EXCEPT ![n] = <<>>]
  <2> DEFINE r == [req[c] EXCEPT !.pc = "settle", !.ok = FALSE]
  <2>1. /\ r \in Request /\ r.pc = "settle" /\ r.ok = FALSE /\ r.path = req[c].path
        /\ r.at = req[c].at /\ r.route = req[c].route
    BY Zenon, <1>1, <1>4 DEF Request, Steps
  <2>2. RequestOK(c, r)
    BY Zenon, <1>1, <1>5, <1>7, <2>1 DEF RequestOK
  <2>3. req' \in [Clients -> Request'] /\ \A d \in Clients : RequestOK(d, req[d])'
    BY Zenon, <1>1, <1>7, <2>2, OneCallChanges DEF IInv, TypeOK
  <2>4. sess' \in [Nodes -> Seq(Nodes)]
    BY <1>1, <1>3, <1>7
  <2>5. Range(<<>>) = {}
    BY DEF Range
  <2>6. AnswersOK'
    BY Zenon, <1>1, <1>3, <1>7, <2>5 DEF IInv, AnswersOK, Sound, Praised, PlainChain
  <2>7. TypeOK'
    BY Zenon, <1>1, <2>3, <2>4 DEF IInv, TypeOK
  <2>8. AnsweringNodesUnmarked'
    BY Zenon, <1>1 DEF IInv, AnsweringNodesUnmarked, Sound, PlainChain
  <2> QED
    BY Zenon, <2>3, <2>6, <2>7, <2>8 DEF IInv
<1>8. CASE /\ Refused(c)
           /\ req' = [req EXCEPT ![c] = [@ EXCEPT !.pc = "settle", !.ok = FALSE]]
           /\ UNCHANGED sess
  <2> DEFINE r == [req[c] EXCEPT !.pc = "settle", !.ok = FALSE]
  <2>1. /\ r \in Request /\ r.pc = "settle" /\ r.ok = FALSE /\ r.path = req[c].path
        /\ r.at = req[c].at /\ r.route = req[c].route
    BY Zenon, <1>1 DEF Request, Steps
  <2>2. ~ PlainChain
    BY Zenon, <1>8 DEF Refused, Opening, Mux, PlainChain
  <2>3. RequestOK(c, r)
    BY Zenon, <1>1, <2>1, <2>2 DEF RequestOK
  <2> QED
    BY Zenon, <1>1, <1>8, <2>3, OnlyOneCallChanges DEF IInv, TypeOK
<1> QED
  BY Zenon, <1>6, <1>7, <1>8 DEF Reach, Answers

\* Marking and resetting keep markers well-formed.
LEMMA MarkerTypes ==
    ASSUME fails \in [Nodes -> Marker]
    PROVE  /\ \A S : Mark(fails, S) \in [Nodes -> Marker]
           /\ \A n \in Nodes : Reset(fails, n) \in [Nodes -> Marker]
<1>1. MaxFails \in Nat /\ FailTimeout \in Nat
  BY Zenon, ChainAssumption
<1>2. ASSUME NEW k \in 0 .. MaxFails
      PROVE  Min({k + 1, MaxFails}) \in 0 .. MaxFails
  <2>1. \E x \in {k + 1, MaxFails} : \A y \in {k + 1, MaxFails} : x <= y
    BY <1>1
  <2>2. /\ Min({k + 1, MaxFails}) \in {k + 1, MaxFails}
        /\ \A y \in {k + 1, MaxFails} : Min({k + 1, MaxFails}) <= y
    BY Zenon, <2>1 DEF Min
  <2> QED
    BY <1>1, <2>2
<1>3. ASSUME NEW S PROVE Mark(fails, S) \in [Nodes -> Marker]
  <2>1. ASSUME NEW n \in Nodes
        PROVE  [count |-> Min({fails[n].count + 1, MaxFails}),
                left |-> FailTimeout] \in Marker
    <3>1. fails[n].count \in 0 .. MaxFails
      BY Zenon DEF Marker
    <3>2. Min({fails[n].count + 1, MaxFails}) \in 0 .. MaxFails
      BY Zenon, <1>2, <3>1
    <3>3. FailTimeout \in 0 .. FailTimeout
      BY <1>1
    <3> QED
      BY Zenon, <3>2, <3>3 DEF Marker
  <2> QED
    BY Zenon, <2>1 DEF Mark
<1>4. ASSUME NEW n \in Nodes PROVE Reset(fails, n) \in [Nodes -> Marker]
  <2>1. 0 \in 0 .. MaxFails
    BY <1>1
  <2>2. [fails[n] EXCEPT !.count = 0] \in Marker
    BY Zenon, <2>1 DEF Marker
  <2> QED
    BY Zenon, <2>2 DEF Reset
<1> QED
  BY Zenon, <1>3, <1>4

\* A node that answered is reset, and connect moves on.
LEMMA SettleReachedOK ==
    ASSUME IInv, NEW c \in Clients, SettleReached(c)
    PROVE  IInv'
<1> DEFINE rt == req[c].route
           i == req[c].at
           done == [req[c] EXCEPT !.pc = "connect", !.at = 0, !.ok = FALSE]
           on == [req[c] EXCEPT !.pc = "reach", !.at = i + 1, !.ok = FALSE]
           r == IF i = Len(rt) THEN done ELSE on
<1>1. /\ req[c] \in Request /\ RequestOK(c, req[c]) /\ req[c].pc = "settle"
      /\ fails \in [Nodes -> Marker]
      /\ UNCHANGED <<conf, up, sess, probe, flips>>
  BY Zenon DEF IInv, TypeOK, SettleReached
<1>2. i \in 1 .. Len(rt) /\ rt \in Seq(Nodes) /\ rt[i] \in Nodes /\ i \in Nat
  BY <1>1 DEF RequestOK, Request
<1>3. ASSUME i = Len(rt) PROVE RequestOK(c, done)
  <2>1. /\ done \in Request /\ done.pc = "connect"
        /\ done.route = rt /\ done.path = req[c].path
    BY Zenon, <1>1 DEF Request, Steps
  <2> QED
    BY Zenon, <1>1, <1>3, <2>1 DEF RequestOK
<1>4. ASSUME i # Len(rt) PROVE RequestOK(c, on)
  <2> DEFINE j == i + 1
  <2>0. j \in Nat
    BY <1>2
  <2> HIDE DEF j
  <2>1. /\ on \in Request /\ on.pc = "reach" /\ on.at = j
        /\ on.route = rt /\ on.path = req[c].path
    <3>1. on = [req[c] EXCEPT !.pc = "reach", !.at = j, !.ok = FALSE]
      BY Zenon DEF j
    <3> QED
      BY Zenon, <1>1, <2>0, <3>1 DEF Request, Steps
  <2>2. j \in 1 .. Len(rt)
    BY <1>2, <1>4 DEF j
  <2> QED
    BY Zenon, <1>1, <1>4, <2>1, <2>2 DEF RequestOK
<1>5. RequestOK(c, r)
  BY Zenon, <1>3, <1>4
<1>6. req' = [req EXCEPT ![c] = r]
  BY Zenon DEF SettleReached, IInv, TypeOK
<1>7. req' \in [Clients -> Request'] /\ \A d \in Clients : RequestOK(d, req[d])'
  BY Zenon, <1>1, <1>5, <1>6, OneCallChanges
<1>8. fails' \in [Nodes -> Marker]
  BY Zenon, <1>1, <1>2, MarkerTypes DEF SettleReached
<1>9. TypeOK'
  BY Zenon, <1>1, <1>7, <1>8 DEF IInv, TypeOK
<1>10. \A n \in Nodes : fails[n].count = 0 => fails'[n].count = 0
  BY Zenon, <1>1, <1>2 DEF SettleReached, Reset, Marker
<1>11. AnsweringNodesUnmarked'
  BY Zenon, <1>1, <1>10 DEF IInv, AnsweringNodesUnmarked, Sound, PlainChain
<1>12. AnswersOK'
  BY Zenon, <1>1 DEF IInv, AnswersOK, Sound, Praised, PlainChain
<1> QED
  BY Zenon, <1>7, <1>9, <1>11, <1>12 DEF IInv

\* Without multiplexing nodes connect blames only the node it could not reach.
LEMMA OnlyTheFailedNode ==
    ASSUME PlainChain, NEW rt, NEW i
    PROVE  Blamed(rt, i) = {rt[i]}
BY Zenon DEF Blamed, Heads, Mux, PlainChain

\* A node that did not answer is marked, and the attempt given up.
LEMMA SettleFailedOK ==
    ASSUME IInv, NEW c \in Clients, SettleFailed(c)
    PROVE  IInv'
<1> DEFINE B == Blamed(req[c].route, req[c].at)
<1>1. /\ req[c].pc = "settle" /\ ~ req[c].ok /\ fails' = Mark(fails, B)
      /\ GiveUp(c)
      /\ fails \in [Nodes -> Marker] /\ RequestOK(c, req[c])
      /\ UNCHANGED <<conf, up, sess, probe, flips>>
  BY Zenon DEF IInv, TypeOK, SettleFailed
<1>2. req' \in [Clients -> Request'] /\ \A d \in Clients : RequestOK(d, req[d])'
  BY Zenon, <1>1, AfterFailureOK, OneCallChanges DEF GiveUp
<1>3. fails' \in [Nodes -> Marker]
  BY Zenon, <1>1, MarkerTypes
<1>4. TypeOK'
  BY Zenon, <1>1, <1>2, <1>3 DEF IInv, TypeOK
<1>5. ASSUME flips = 0, PlainChain, NEW n \in Nodes, Sound(n)
      PROVE  fails'[n].count = 0
  <2>1. n \notin B
    BY <1>1, <1>5, OnlyTheFailedNode DEF RequestOK, Sound
  <2>2. fails'[n] = fails[n]
    BY Zenon, <1>1, <2>1 DEF Mark
  <2> QED
    BY Zenon, <1>5, <2>2 DEF IInv, AnsweringNodesUnmarked
<1>6. AnsweringNodesUnmarked'
  BY Zenon, <1>1, <1>5 DEF AnsweringNodesUnmarked, Sound, PlainChain
<1>7. AnswersOK'
  BY Zenon, <1>1 DEF IInv, AnswersOK, Sound, Praised, PlainChain
<1> QED
  BY Zenon, <1>2, <1>4, <1>6, <1>7 DEF IInv
-----------------------------------------------------------------------------
(* Probes and the environment.                                             *)

\* No call is affected by a step that leaves the calls and the places alone.
LEMMA CallsUnchanged ==
    ASSUME IInv, UNCHANGED <<conf, up, req, flips>>
    PROVE  req' \in [Clients -> Request'] /\ \A d \in Clients : RequestOK(d, req[d])'
<1>1. Request' = Request /\ \A q : \A d \in Clients : RequestOK(d, q)' <=> RequestOK(d, q)
  BY DEF Request, Attempts, RequestOK, Entitled, PlainChain, Served, Sound, Uniform, Pool
<1> QED
  BY Zenon, <1>1 DEF IInv, TypeOK

\* A probe dials its node.
LEMMA ProbeNodeOK ==
    ASSUME IInv, NEW n \in Nodes, ProbeNode(n)
    PROVE  IInv'
<1>1. /\ sess \in [Nodes -> Seq(Nodes)] /\ probe \in [Nodes -> {"none", "asks", "ok", "failed"}]
      /\ UNCHANGED <<conf, up, fails, req, flips>>
  BY Zenon DEF IInv, TypeOK, ProbeNode
<1>2. <<n>> \in Seq(Nodes) /\ <<>> \in Seq(Nodes)
  OBVIOUS
<1>3. ProbePath(n) \in Seq(Nodes)
  BY Zenon, <1>1, <1>2 DEF ProbePath
<1>4. Range(<<n>>) = {n} /\ Range(<<>>) = {}
  BY DEF Range
<1>5. ASSUME flips = 0, ~ (Range(ProbePath(n)) \subseteq up) PROVE n \notin up
  <2>1. Range(sess[n]) \subseteq up
    BY Zenon, <1>5 DEF IInv, AnswersOK, Sound, Praised, PlainChain
  <2> QED
    BY Zenon, <1>4, <1>5, <2>1 DEF ProbePath
<1>6. sess' \in [Nodes -> Seq(Nodes)] /\ probe' \in [Nodes -> {"none", "asks", "ok", "failed"}]
  BY Zenon, <1>1, <1>2, <1>3 DEF ProbeNode
<1>11. PlainChain => ~ \E d \in Clients : Opening(d, n)
  BY Zenon DEF Opening, Mux, PlainChain
<1>7. req' \in [Clients -> Request'] /\ \A d \in Clients : RequestOK(d, req[d])'
  BY Zenon, <1>1, CallsUnchanged
<1>8. TypeOK'
  BY Zenon, <1>1, <1>6, <1>7 DEF IInv, TypeOK
<1>9. AnswersOK'
  <2>1. ASSUME flips = 0, NEW m \in Nodes
        PROVE  /\ Range(sess'[m]) \subseteq up
               /\ PlainChain /\ probe'[m] = "failed" => ~ Sound(m)
               /\ PlainChain /\ probe'[m] = "ok" => m \in up \/ Praised(m)
               /\ probe'[m] = "asks" => m \in conf.http
    <3>1. CASE m # n
      BY Zenon, <1>1, <2>1, <3>1 DEF IInv, AnswersOK, Sound, Praised, PlainChain, ProbeNode
    <3>2. CASE m = n
      <4>1. Range(sess[n]) \subseteq up
        BY Zenon, <2>1 DEF IInv, AnswersOK
      <4>2. PlainChain => ProbePath(n) = <<n>>
        BY Zenon DEF ProbePath, Cached, Mux, PlainChain
      <4> QED
        BY Zenon, <1>1, <1>4, <1>5, <1>11, <2>1, <3>2, <4>1, <4>2 DEF ProbeNode, Sound
    <3> QED
      BY Zenon, <3>1, <3>2
  <2> QED
    BY Zenon, <1>1, <2>1 DEF AnswersOK, Sound, Praised, PlainChain
<1>10. AnsweringNodesUnmarked'
  BY Zenon, <1>1 DEF IInv, AnsweringNodesUnmarked, Sound, PlainChain
<1> QED
  BY Zenon, <1>7, <1>8, <1>9, <1>10 DEF IInv

\* A probe that only gets an answer, which marks a node that is not sound and
\* praises one that answers or whose command succeeds.
LEMMA ProbeAnswersOK ==
    ASSUME IInv, NEW n \in Nodes, UNCHANGED <<conf, up, fails, sess, req, flips>>,
           NEW a \in {"ok", "failed"}, probe' = [probe EXCEPT ![n] = a],
           flips = 0 /\ PlainChain /\ a = "failed" => ~ Sound(n),
           flips = 0 /\ PlainChain /\ a = "ok" => n \in up \/ Praised(n)
    PROVE  IInv'
<1>1. probe \in [Nodes -> {"none", "asks", "ok", "failed"}]
  BY Zenon DEF IInv, TypeOK
<1>2. probe' \in [Nodes -> {"none", "asks", "ok", "failed"}]
  BY Zenon, <1>1
<1>3. req' \in [Clients -> Request'] /\ \A d \in Clients : RequestOK(d, req[d])'
  BY Zenon, CallsUnchanged
<1>4. TypeOK'
  BY Zenon, <1>2, <1>3 DEF IInv, TypeOK
<1>5. \A m \in Nodes : probe'[m] = IF m = n THEN a ELSE probe[m]
  BY Zenon, <1>1
<1>6. AnswersOK'
  BY Zenon, <1>5 DEF IInv, AnswersOK, Sound, Praised, PlainChain
<1>7. AnsweringNodesUnmarked'
  BY Zenon DEF IInv, AnsweringNodesUnmarked, Sound, PlainChain
<1> QED
  BY Zenon, <1>3, <1>4, <1>6, <1>7 DEF IInv

\* An HTTP probe gets the page or not: the node answers if it does.
LEMMA ProbePageOK ==
    ASSUME IInv, NEW n \in Nodes, ProbePage(n)
    PROVE  IInv'
<1> DEFINE answers == /\ Mux(n) => Cached(n)
                      /\ Range(ProbePath(n)) \cup {Test[n]} \subseteq up
           a == IF answers THEN "ok" ELSE "failed"
<1>1. probe' = [probe EXCEPT ![n] = a] /\ UNCHANGED <<conf, up, fails, sess, req, flips>>
  BY Zenon DEF ProbePage
<1>2. ASSUME PlainChain PROVE ProbePath(n) = <<n>> /\ ~ Mux(n)
  BY Zenon, <1>2 DEF ProbePath, Cached, Mux, PlainChain
<1>3. Range(<<n>>) = {n}
  BY DEF Range
<1>4. ASSUME PlainChain PROVE answers <=> n \in up /\ Test[n] \in up
  BY Zenon, <1>2, <1>3, <1>4
<1>5. a \in {"ok", "failed"}
  BY Zenon
<1> QED
  BY Zenon, <1>1, <1>4, <1>5, ProbeAnswersOK DEF IInv, AnswersOK, ProbePage, Sound

\* A command succeeds or not.
LEMMA ProbeCommandOK ==
    ASSUME IInv, NEW n \in Nodes, ProbeCommand(n)
    PROVE  IInv'
<1> DEFINE a == IF Test[n] \in up THEN "ok" ELSE "failed"
<1>1. /\ probe' = [probe EXCEPT ![n] = a] /\ UNCHANGED <<conf, up, fails, sess, req, flips>>
      /\ n \in conf.cmd
  BY Zenon DEF ProbeCommand
<1>2. a \in {"ok", "failed"}
  BY Zenon
<1> QED
  BY Zenon, <1>1, <1>2, ProbeAnswersOK DEF Sound, Praised

\* A probe records its answer.
LEMMA RecordProbeOK ==
    ASSUME IInv, NEW n \in Nodes, RecordProbe(n)
    PROVE  IInv'
<1>1. /\ fails \in [Nodes -> Marker] /\ probe \in [Nodes -> {"none", "asks", "ok", "failed"}]
      /\ UNCHANGED <<conf, up, sess, req, flips>>
  BY Zenon DEF IInv, TypeOK, RecordProbe
<1>2. fails' \in [Nodes -> Marker] /\ probe' \in [Nodes -> {"none", "asks", "ok", "failed"}]
  BY Zenon, <1>1, MarkerTypes DEF RecordProbe
<1>3. req' \in [Clients -> Request'] /\ \A d \in Clients : RequestOK(d, req[d])'
  BY Zenon, <1>1, CallsUnchanged
<1>4. TypeOK'
  BY Zenon, <1>1, <1>2, <1>3 DEF IInv, TypeOK
<1>5. AnswersOK'
  BY Zenon, <1>1 DEF IInv, AnswersOK, Sound, Praised, PlainChain, RecordProbe
<1>6. ASSUME flips = 0, PlainChain, NEW m \in Nodes, Sound(m)
      PROVE  fails'[m].count = 0
  <2>1. fails[m].count = 0
    BY Zenon, <1>6 DEF IInv, AnsweringNodesUnmarked
  <2>2. CASE probe[n] = "ok"
    BY Zenon, <1>1, <2>1, <2>2 DEF RecordProbe, Reset, Marker
  <2>3. CASE probe[n] = "failed"
    <3>1. m # n
      BY Zenon, <1>6, <2>3 DEF IInv, AnswersOK, Sound, Praised, PlainChain
    <3> QED
      BY Zenon, <2>1, <2>3, <3>1 DEF RecordProbe, Mark
  <2> QED
    BY Zenon, <1>1, <2>2, <2>3 DEF RecordProbe
<1>7. AnsweringNodesUnmarked'
  BY Zenon, <1>1, <1>6 DEF AnsweringNodesUnmarked, Sound, PlainChain
<1> QED
  BY Zenon, <1>3, <1>4, <1>5, <1>7 DEF IInv

\* A call does not notice that time passes or that a place changes; only what
\* it knows about the places may be outdated.
LEMMA DisturbedOK ==
    ASSUME IInv, req' = Disturbed, conf' = conf,
           flips' # 0 \/ UNCHANGED <<up, flips>>
    PROVE  req' \in [Clients -> Request'] /\ \A d \in Clients : RequestOK(d, req[d])'
<1>1. Request' = Request
  BY Zenon DEF Request, Attempts
<1>2. ASSUME NEW d \in Clients PROVE req'[d] \in Request' /\ RequestOK(d, req[d])'
  <2>1. req[d] \in Request /\ RequestOK(d, req[d])
    BY Zenon DEF IInv, TypeOK
  <2>2. req'[d] = [req[d] EXCEPT !.quiet = FALSE]
    BY Zenon DEF Disturbed
  <2>3. /\ req'[d] \in Request /\ req'[d].pc = req[d].pc /\ req'[d].at = req[d].at
        /\ req'[d].route = req[d].route /\ req'[d].path = req[d].path
        /\ req'[d].ok = req[d].ok
    BY Zenon, <2>1, <2>2 DEF Request
  <2>4. Pool(d, 1)' = Pool(d, 1) /\ \A i : Pool(d, i)' = Pool(d, i)
    BY Zenon DEF Pool
  <2>5. Entitled(d)' => Entitled(d)
    BY DEF Entitled, PlainChain, Served, Sound, Uniform, Pool
  <2>6. PlainChain' <=> PlainChain
    BY Zenon DEF PlainChain
  <2> QED
    BY Zenon, <1>1, <2>1, <2>3, <2>4, <2>5, <2>6 DEF RequestOK, Entitled
<1>3. req' = [d \in Clients |-> req'[d]]
  BY Zenon DEF Disturbed
<1> QED
  BY Zenon, <1>2, <1>3

\* Time passes.
LEMMA TickOK ==
    ASSUME IInv, Tick
    PROVE  IInv'
<1>1. /\ fails \in [Nodes -> Marker] /\ req' = Disturbed
      /\ UNCHANGED <<conf, up, sess, probe, flips>>
  BY Zenon DEF IInv, TypeOK, Tick
<1>2. req' \in [Clients -> Request'] /\ \A d \in Clients : RequestOK(d, req[d])'
  BY Zenon, <1>1, DisturbedOK
<1>3. ASSUME NEW n \in Nodes
      PROVE  fails'[n] \in Marker /\ fails'[n].count = fails[n].count
  <2> DEFINE k == IF fails[n].left > 0 THEN fails[n].left - 1 ELSE 0
  <2>1. fails[n] \in Marker /\ fails[n].left \in 0 .. FailTimeout
    BY Zenon, <1>1 DEF Marker
  <2>2. k \in 0 .. FailTimeout
    BY <2>1, ChainAssumption
  <2>3. fails'[n] = [fails[n] EXCEPT !.left = k]
    BY Zenon, <2>1 DEF Tick, Marker
  <2> HIDE DEF k
  <2> QED
    BY Zenon, <2>1, <2>2, <2>3 DEF Marker
<1>4. fails' \in [Nodes -> Marker]
  BY Zenon, <1>3 DEF Tick
<1>5. TypeOK'
  BY Zenon, <1>1, <1>2, <1>4 DEF IInv, TypeOK
<1>6. AnswersOK'
  BY Zenon, <1>1 DEF IInv, AnswersOK, Sound, Praised, PlainChain
<1>7. AnsweringNodesUnmarked'
  BY Zenon, <1>1, <1>3 DEF IInv, AnsweringNodesUnmarked, Sound, PlainChain
<1> QED
  BY Zenon, <1>2, <1>5, <1>6, <1>7 DEF IInv

\* A place goes down or comes back.
LEMMA FlipOK ==
    ASSUME IInv, NEW p \in conf.unstable, Flip(p)
    PROVE  IInv'
<1>1. /\ conf \in Configs /\ up \subseteq Places /\ flips \in 0 .. conf.maxFlips
      /\ sess \in [Nodes -> Seq(Nodes)]
      /\ req' = Disturbed /\ UNCHANGED <<conf, fails, probe>>
      /\ flips' = flips + 1 /\ flips < conf.maxFlips
  BY Zenon DEF IInv, TypeOK, Flip
<1>2. conf.maxFlips \in Nat /\ p \in Places
  BY Zenon, <1>1, ChainAssumption
<1>3. flips' # 0 /\ flips' \in 0 .. conf.maxFlips
  BY <1>1, <1>2
<1>4. req' \in [Clients -> Request'] /\ \A d \in Clients : RequestOK(d, req[d])'
  BY Zenon, <1>1, <1>3, DisturbedOK
<1>5. sess' \in [Nodes -> Seq(Nodes)] /\ up' \subseteq Places
  BY <1>1, <1>2 DEF Flip
<1>6. TypeOK'
  BY Zenon, <1>1, <1>3, <1>4, <1>5 DEF IInv, TypeOK
<1> QED
  BY Zenon, <1>3, <1>4, <1>6 DEF IInv, AnswersOK, AnsweringNodesUnmarked
-----------------------------------------------------------------------------
(* The invariant.                                                          *)

\* The invariant holds initially.
LEMMA InitOK == Init => IInv
<1> SUFFICES ASSUME Init PROVE IInv
  BY Zenon
<1>1. conf \in Configs /\ up \subseteq Places /\ flips = 0
  BY Zenon DEF Init
<1>2. ASSUME NEW c \in Clients PROVE RequestOK(c, req[c])
  <2>1. RequestOK(c, Idle)
    BY Zenon, <1>1, SomeAttempt, FreshOK DEF Idle
  <2> QED
    BY Zenon, <2>1 DEF Init
<1>3. req \in [Clients -> Request]
  BY Zenon, <1>2 DEF Init, RequestOK
<1>4. fails \in [Nodes -> Marker] /\ sess \in [Nodes -> Seq(Nodes)]
      /\ probe \in [Nodes -> {"none", "asks", "ok", "failed"}]
  BY ChainAssumption DEF Init, Marker
<1>5. flips \in 0 .. conf.maxFlips
  BY <1>1, ChainAssumption
<1>6. TypeOK
  BY Zenon, <1>1, <1>3, <1>4, <1>5 DEF TypeOK
<1>7. AnswersOK /\ AnsweringNodesUnmarked
  BY DEF Init, AnswersOK, AnsweringNodesUnmarked, Range
<1> QED
  BY Zenon, <1>2, <1>6, <1>7 DEF IInv

\* Every step keeps the invariant.
LEMMA NextOK == IInv /\ [Next]_vars => IInv'
<1> SUFFICES ASSUME IInv, [Next]_vars PROVE IInv'
  BY Zenon
<1>1. ASSUME NEW c \in Clients, Start(c) \/ Release(c) PROVE IInv'
  BY Zenon, <1>1, StartOK, ReleaseOK
<1>2. ASSUME NEW c \in Clients, Advance(c) PROVE IInv'
  BY Zenon, <1>2, ResolveOK, RouteOK, EnterOK, ReachOK, SettleReachedOK, SettleFailedOK,
     ConnectOK DEF Advance
<1>3. ASSUME NEW n \in Nodes, Probe(n) PROVE IInv'
  BY Zenon, <1>3, ProbeNodeOK, ProbePageOK, ProbeCommandOK, RecordProbeOK DEF Probe
<1>4. CASE Tick
  BY Zenon, <1>4, TickOK
<1>5. ASSUME NEW p \in conf.unstable, Flip(p) PROVE IInv'
  BY Zenon, <1>5, FlipOK
<1>6. CASE UNCHANGED vars
  <2>1. /\ UNCHANGED <<conf, up, req, flips>> /\ UNCHANGED <<fails, sess, probe>>
    BY Zenon, <1>6 DEF vars
  <2>2. req' \in [Clients -> Request'] /\ \A d \in Clients : RequestOK(d, req[d])'
    BY Zenon, <2>1, CallsUnchanged
  <2> QED
    BY Zenon, <2>1, <2>2 DEF IInv, TypeOK, AnswersOK, AnsweringNodesUnmarked, Sound, Praised, PlainChain
<1> QED
  BY Zenon, <1>1, <1>2, <1>3, <1>4, <1>5, <1>6 DEF Next
-----------------------------------------------------------------------------
(* Failover: the attempts of a call are paid for by failures on record.    *)

\* The failures on record, and not expired, of the nodes that c may meet and
\* that are down: the k-th failure of node n is <<n, k>>.
Spent(c) == {f \in Down(c) \X (1 .. MaxFails) :
               fails[f[1]].left > 0 /\ f[2] <= fails[f[1]].count}

\* No probe resets a node that is down and that c may meet.
Steady(c) == Entitled(c) /\ \A n \in Down(c) : ~ Praised(n)

\* The calls FailoverSucceeds speaks of.
Hopeful(c, r) ==
    /\ Steady(c) /\ r.quiet
    /\ {Target, Resolver} \subseteq up
    /\ conf.retries >= MaxFails * Cardinality(Down(c))

\* A call has made no more attempts than there are failures on record.  When its
\* route holds a node that is down, the attempt at hand is covered as well: by a
\* failure recorded meanwhile, or by the one that the call will add itself.
TallyOK(c, r) ==
    Hopeful(c, r) =>
        /\ r.pc # "failed"
        /\ r.try <= Cardinality(Spent(c))
        /\ \A i \in 1 .. Len(r.route) :
              \/ r.route[i] \in up
              \/ r.try < Cardinality(Spent(c))
              \/ <<r.route[i], MaxFails>> \notin Spent(c)

\* The inductive invariant of failover.
FInv == IInv /\ \A c \in Clients : TallyOK(c, req[c])

\* The nodes that are down.
LEMMA DownAreNodes ==
    ASSUME IInv, NEW c
    PROVE  Down(c) \subseteq Nodes
BY ChainAssumption DEF IInv, TypeOK, Down, Pool

\* Each node can have at most MaxFails failures on record.
LEMMA FailuresAreBounded ==
    ASSUME NEW D \in SUBSET Nodes, NEW F \in SUBSET (D \X (1 .. MaxFails))
    PROVE  /\ IsFiniteSet(F)
           /\ Cardinality(F) \in Nat
           /\ Cardinality(F) <= MaxFails * Cardinality(D)
<1>1. IsFiniteSet(D)
  BY Zenon, ChainAssumption, FS_Subset
<1>2. IsFiniteSet(1 .. MaxFails) /\ Cardinality(1 .. MaxFails) = MaxFails
  BY ChainAssumption, FS_Interval
<1> DEFINE A == D \X (1 .. MaxFails)
<1>3. IsFiniteSet(A) /\ Cardinality(A) = Cardinality(D) * MaxFails
  BY Zenon, <1>1, <1>2, FS_Product
<1>4. F \in SUBSET A
  BY Zenon
<1> HIDE DEF A
<1>5. IsFiniteSet(F) /\ Cardinality(F) <= Cardinality(A)
  BY Zenon, <1>3, <1>4, FS_Subset
<1>6. Cardinality(D) \in Nat /\ MaxFails \in Nat
  BY Zenon, <1>1, ChainAssumption, FS_CardinalityType
<1>7. Cardinality(D) * MaxFails = MaxFails * Cardinality(D)
  BY <1>6
<1> QED
  BY Zenon, <1>3, <1>5, <1>7, FS_CardinalityType

\* While nothing is forgotten the failures on record only grow in number, up to
\* MaxFails for each node that is down.
LEMMA SpentGrows ==
    ASSUME IInv, IInv', NEW c, Spent(c) \subseteq Spent(c)'
    PROVE  /\ Cardinality(Spent(c)) \in Nat /\ Cardinality(Spent(c)') \in Nat
           /\ Cardinality(Spent(c)) <= Cardinality(Spent(c)')
           /\ Cardinality(Spent(c)') <= MaxFails * Cardinality(Down(c)')
           /\ \A f \in Spent(c)' \ Spent(c) :
                Cardinality(Spent(c)) + 1 <= Cardinality(Spent(c)')
<1> DEFINE S == Spent(c)
           T == Spent(c)'
           D == Down(c)'
<1>1. IsFiniteSet(S) /\ Cardinality(S) \in Nat
  BY Zenon, DownAreNodes, FailuresAreBounded DEF Spent
<1>2. /\ IsFiniteSet(T) /\ Cardinality(T) \in Nat
      /\ Cardinality(T) <= MaxFails * Cardinality(D)
  <2>1. D \subseteq Nodes
    BY ChainAssumption DEF IInv, TypeOK, Down, Pool
  <2>2. T \subseteq D \X (1 .. MaxFails)
    BY Zenon DEF Spent
  <2> HIDE DEF T, D
  <2> QED
    BY Zenon, <2>1, <2>2, FailuresAreBounded
<1>3. S \subseteq T
  BY Zenon
<1> HIDE DEF S, T, D
<1>4. Cardinality(S) <= Cardinality(T)
  BY Zenon, <1>2, <1>3, FS_Subset
<1>5. ASSUME NEW f \in T \ S PROVE Cardinality(S) + 1 <= Cardinality(T)
  <2>1. IsFiniteSet(S \cup {f}) /\ Cardinality(S \cup {f}) = Cardinality(S) + 1
    BY Zenon, <1>1, <1>5, FS_AddElement
  <2>2. S \cup {f} \in SUBSET T
    BY Zenon, <1>3, <1>5
  <2> QED
    BY <1>2, <2>1, <2>2, FS_Subset
<1> QED
  BY Zenon, <1>1, <1>2, <1>4, <1>5 DEF S, T, D

\* The tally of a call survives a step that changes no place, forgets no
\* failure of a node that is down, and leaves the call as good as it was.
LEMMA TallyKept ==
    ASSUME IInv, IInv', NEW c \in Clients, UNCHANGED <<conf, up, flips>>,
           Steady(c) => Spent(c) \subseteq Spent(c)',
           TallyOK(c, req'[c])
    PROVE  TallyOK(c, req[c])'
<1> DEFINE r == req'[c]
<1>1. SUFFICES ASSUME Hopeful(c, req[c])'
               PROVE  /\ r.pc # "failed"
                      /\ r.try <= Cardinality(Spent(c)')
                      /\ \A i \in 1 .. Len(r.route) :
                           \/ r.route[i] \in up'
                           \/ r.try < Cardinality(Spent(c)')
                           \/ <<r.route[i], MaxFails>> \notin Spent(c)'
  BY Zenon DEF TallyOK, Hopeful
<1>2. Hopeful(c, r)
  BY <1>1 DEF Hopeful, Steady, Entitled, PlainChain, Served, Sound, Praised, Uniform, Pool, Down
<1>3. /\ r.pc # "failed" /\ r.try <= Cardinality(Spent(c))
      /\ \A i \in 1 .. Len(r.route) :
           \/ r.route[i] \in up
           \/ r.try < Cardinality(Spent(c))
           \/ <<r.route[i], MaxFails>> \notin Spent(c)
  BY Zenon, <1>2 DEF TallyOK
<1>4. Spent(c) \subseteq Spent(c)'
  BY Zenon, <1>2 DEF Hopeful
<1>5. r.try \in Int
  <2>1. r.try \in 0 .. (Attempts' - 1)
    BY Zenon DEF IInv, TypeOK, Request
  <2> QED
    BY <2>1
<1>6. /\ Cardinality(Spent(c)) \in Nat /\ Cardinality(Spent(c)') \in Nat
      /\ Cardinality(Spent(c)) <= Cardinality(Spent(c)')
      /\ \A f \in Spent(c)' \ Spent(c) :
           Cardinality(Spent(c)) + 1 <= Cardinality(Spent(c)')
  BY Zenon, <1>4, SpentGrows
<1> HIDE DEF r
<1> QED
  BY SMTT(30), <1>3, <1>4, <1>5, <1>6

\* What marking does to a marker.
LEMMA MarkIs ==
    ASSUME fails \in [Nodes -> Marker], NEW S, NEW n \in Nodes
    PROVE  /\ n \notin S => Mark(fails, S)[n] = fails[n]
           /\ n \in S => /\ Mark(fails, S)[n].left = FailTimeout
                         /\ Mark(fails, S)[n].count =
                              IF fails[n].count < MaxFails THEN fails[n].count + 1
                                                           ELSE MaxFails
<1> DEFINE k == fails[n].count
<1>1. k \in 0 .. MaxFails /\ MaxFails \in Nat
  BY Zenon, ChainAssumption DEF Marker
<1>2. Min({k + 1, MaxFails}) = IF k < MaxFails THEN k + 1 ELSE MaxFails
  <2> DEFINE m == IF k < MaxFails THEN k + 1 ELSE MaxFails
  <2>1. m \in {k + 1, MaxFails} /\ \A y \in {k + 1, MaxFails} : m <= y
    BY <1>1
  <2>2. \A x \in {k + 1, MaxFails} :
           (\A y \in {k + 1, MaxFails} : x <= y) => x = m
    BY <1>1
  <2> HIDE DEF m
  <2> QED
    BY Zenon, <2>1, <2>2 DEF Min, m
<1> QED
  BY Zenon, <1>2 DEF Mark

\* Marking erases no failure that is on record.
LEMMA MarkKeepsSpent ==
    ASSUME IInv, NEW S, NEW c, fails' = Mark(fails, S), UNCHANGED <<conf, up>>
    PROVE  Spent(c) \subseteq Spent(c)'
<1>1. Down(c)' = Down(c) /\ Down(c) \subseteq Nodes
  BY ChainAssumption DEF IInv, TypeOK, Down, Pool
<1>2. ASSUME NEW n \in Nodes, fails[n].left > 0, NEW k \in 1 .. MaxFails, k <= fails[n].count
      PROVE  fails'[n].left > 0 /\ k <= fails'[n].count
  <2>1. fails[n].count \in 0 .. MaxFails /\ fails \in [Nodes -> Marker]
        /\ MaxFails \in Nat /\ FailTimeout > 0
    BY ChainAssumption DEF IInv, TypeOK, Marker
  <2>2. CASE n \in S
    BY <1>2, <2>1, <2>2, MarkIs
  <2>3. CASE n \notin S
    BY Zenon, <1>2, <2>1, <2>3, MarkIs
  <2> QED
    BY Zenon, <2>2, <2>3
<1>3. ASSUME NEW f \in Spent(c) PROVE f \in Spent(c)'
  <2>1. /\ f \in Down(c) \X (1 .. MaxFails) /\ f[1] \in Nodes /\ f[2] \in 1 .. MaxFails
        /\ fails[f[1]].left > 0 /\ f[2] <= fails[f[1]].count
    BY Zenon, <1>1 DEF Spent
  <2>2. fails'[f[1]].left > 0 /\ f[2] <= fails'[f[1]].count
    BY Zenon, <1>2, <2>1
  <2> QED
    BY Zenon, <1>1, <2>1, <2>2 DEF Spent
<1> QED
  BY Zenon, <1>3

\* Resetting another node erases no failure of a node that is down.
LEMMA ResetKeepsSpent ==
    ASSUME IInv, NEW c, NEW n \in Nodes, n \notin Down(c), fails' = Reset(fails, n),
           UNCHANGED <<conf, up>>
    PROVE  Spent(c) \subseteq Spent(c)'
<1>1. Down(c)' = Down(c) /\ Down(c) \subseteq Nodes
  <2>1. Down(c)' = Down(c)
    BY DEF Down, Pool
  <2> QED
    BY Zenon, <2>1, DownAreNodes
<1>2. \A m \in Down(c) : fails'[m] = fails[m]
  BY Zenon, <1>1 DEF Reset, IInv, TypeOK
<1> QED
  BY Zenon, <1>1, <1>2 DEF Spent

\* A failure that a call sees is put on record, unless all of the node's were.
LEMMA MarkAddsToSpent ==
    ASSUME IInv, NEW c, NEW n \in Down(c), <<n, MaxFails>> \notin Spent(c),
           fails' = Mark(fails, {n}), UNCHANGED <<conf, up>>
    PROVE  \E f \in Spent(c)' : f \notin Spent(c)
<1>1. Down(c)' = Down(c) /\ n \in Nodes
  <2>1. Down(c)' = Down(c)
    BY DEF Down, Pool
  <2> QED
    BY Zenon, <2>1, DownAreNodes
<1>2. /\ fails \in [Nodes -> Marker] /\ fails[n].count \in 0 .. MaxFails
      /\ fails[n].left \in 0 .. FailTimeout
      /\ MaxFails \in Nat \ {0} /\ FailTimeout > 0
  BY <1>1, ChainAssumption DEF IInv, TypeOK, Marker
<1>3. /\ fails'[n].left = FailTimeout
      /\ fails'[n].count = IF fails[n].count < MaxFails THEN fails[n].count + 1 ELSE MaxFails
  BY Zenon, <1>1, <1>2, MarkIs
<1>4. ~ (fails[n].left > 0 /\ MaxFails <= fails[n].count)
  <2>1. MaxFails \in 1 .. MaxFails
    BY <1>2
  <2> QED
    BY Zenon, <2>1 DEF Spent
<1> DEFINE k == fails'[n].count
<1>5. k \in 1 .. MaxFails /\ ~ (fails[n].left > 0 /\ k <= fails[n].count)
  BY <1>2, <1>3, <1>4
<1> HIDE DEF k
<1>6. <<n, k>> \in Spent(c)'
  <2>1. fails'[n].left > 0 /\ k <= fails'[n].count
    BY <1>2, <1>3, <1>5 DEF k
  <2> QED
    BY Zenon, <1>1, <1>5, <2>1 DEF Spent
<1>7. <<n, k>> \notin Spent(c)
  BY Zenon, <1>5 DEF Spent
<1> QED
  BY Zenon, <1>6, <1>7

\* Among equals, one of which answers, chainHop.Select does not return a dead
\* node that is down: a pool of one node is the node that answers.
LEMMA SelectedIsAlive ==
    ASSUME IInv, NEW c \in Clients, NEW h \in 1 .. NHops, Entitled(c),
           NEW n \in Select(c, h), n \in Nodes, n \notin up
    PROVE  ~ Dead(n)
<1> DEFINE P == Pool(c, h)
           top == Max(Priorities(P) \cup {0})
<1>1. PICK u \in P : u \in up
  BY Zenon DEF Entitled, Served, Sound
<1> DEFINE p == conf.priority[u]
<1>2. /\ Uniform(P) /\ P # {} /\ P \subseteq Nodes /\ conf.priority \in [Nodes -> Int]
      /\ NoNode \notin Nodes
  BY Zenon, <1>1, ChainAssumption DEF Entitled, Served, IInv, TypeOK, Pool
<1>3. Tier(P, p) = P /\ Priorities(P) = {p} /\ p \in Int
  BY Zenon, <1>1, <1>2 DEF Tier, Priorities, Uniform
<1>4. n # NoNode /\ (AtMostOne(P) => n \notin P)
  BY Zenon, <1>1, <1>2 DEF AtMostOne
<1>5. ~ AtMostOne(P)
  BY Zenon, <1>2, <1>4, SelectFromPool
<1>6. ASSUME n \in Selectable(P) PROVE ~ Dead(n)
  BY Zenon, <1>5, <1>6 DEF Selectable, BackupFilter, FailFilter
<1>7. CASE Shortcut(P) /\ n \in Tier(P, top)
  <2>1. top > 0 /\ AtMostOne(Tier(P, top))
    BY Zenon, <1>7 DEF Shortcut
  <2>2. top \in {p, 0}
    <3>1. \E x \in {p, 0} : \A y \in {p, 0} : x >= y
      BY <1>3
    <3> QED
      BY Zenon, <1>3, <3>1 DEF Max
  <2>3. top = p
    BY <2>1, <2>2
  <2> QED
    BY Zenon, <1>3, <1>5, <2>1, <2>3
<1>8. CASE n \in FromTiers(P)
  <2> DEFINE ys == {q \in Priorities(P) : Considered(P, q) /\ Selectable(Tier(P, q)) # {}}
  <2>1. ys # {} /\ n \in Selectable(Tier(P, Max(ys)))
    BY Zenon, <1>4, <1>8 DEF FromTiers
  <2>2. ys = {p}
    BY Zenon, <1>3, <2>1
  <2>3. Max({p}) = p
    BY <1>3 DEF Max
  <2> HIDE DEF ys
  <2> QED
    BY Zenon, <1>3, <1>6, <2>1, <2>2, <2>3
<1>9. n \in Selectable(P) \/ n \in FromTiers(P) \/ (Shortcut(P) /\ n \in Tier(P, top))
  BY Zenon, <1>2, <1>4, <1>5 DEF Select
<1> QED
  BY Zenon, <1>6, <1>7, <1>8, <1>9

\* No failure of a node that is down is forgotten, whoever answers or probes.
LEMMA SpentKept ==
    ASSUME IInv, NEW c, UNCHANGED <<conf, up>>,
           \/ UNCHANGED fails
           \/ \E S : fails' = Mark(fails, S)
           \/ \E n \in Nodes \ Down(c) : fails' = Reset(fails, n)
    PROVE  Spent(c) \subseteq Spent(c)'
<1>1. CASE UNCHANGED fails
  <2>1. Down(c)' = Down(c)
    BY DEF Down, Pool
  <2> QED
    BY Zenon, <1>1, <2>1 DEF Spent
<1> QED
  BY Zenon, <1>1, MarkKeepsSpent, ResetKeepsSpent

\* Neither a call nor a probe changes a place.
LEMMA PlacesKept ==
    ASSUME \/ \E c \in Clients : Start(c) \/ Advance(c) \/ Release(c)
           \/ \E n \in Nodes : Probe(n)
    PROVE  UNCHANGED <<conf, up, flips>>
<1>1. ASSUME NEW c \in Clients, Start(c) \/ Advance(c) \/ Release(c)
      PROVE  UNCHANGED <<conf, up, flips>>
  <2>1. CASE Start(c) \/ Release(c) \/ Resolve(c) \/ Route(c) \/ Enter(c)
    BY Zenon, <2>1 DEF Start, Release, Resolve, Route, Enter
  <2>2. CASE Reach(c) \/ SettleReached(c) \/ SettleFailed(c) \/ Connect(c) \/ Direct(c)
    BY Zenon, <2>2 DEF Reach, SettleReached, SettleFailed, Connect, Direct
  <2> QED
    BY Zenon, <1>1, <2>1, <2>2 DEF Advance
<1>2. ASSUME NEW n \in Nodes, Probe(n)
      PROVE  UNCHANGED <<conf, up, flips>>
  BY Zenon, <1>2 DEF Probe, ProbeNode, ProbePage, ProbeCommand, RecordProbe
<1> QED
  BY Zenon, <1>1, <1>2

\* The markers change in no other way while no place changes and no time passes.
LEMMA MarkersGrow ==
    ASSUME IInv, NEW c, Steady(c),
           \/ \E d \in Clients : Start(d) \/ Advance(d) \/ Release(d)
           \/ \E n \in Nodes : Probe(n)
    PROVE  \/ UNCHANGED fails
           \/ \E S : fails' = Mark(fails, S)
           \/ \E n \in Nodes \ Down(c) : fails' = Reset(fails, n)
<1>5. flips = 0 /\ PlainChain
  BY Zenon DEF Steady, Entitled
<1>1. ASSUME NEW d \in Clients, SettleReached(d)
      PROVE  \E n \in Nodes \ Down(c) : fails' = Reset(fails, n)
  <2>1. /\ req[d] \in Request /\ RequestOK(d, req[d]) /\ req[d].pc = "settle" /\ req[d].ok
        /\ fails' = Reset(fails, req[d].route[req[d].at])
    BY Zenon, <1>1 DEF IInv, TypeOK, SettleReached
  <2>2. req[d].route[req[d].at] \in Nodes
    BY SMTT(30), <2>1 DEF RequestOK, Request
  <2>3. req[d].route[req[d].at] \notin Down(c)
    BY Zenon, <1>5, <2>1 DEF RequestOK, Down
  <2> QED
    BY Zenon, <2>1, <2>2, <2>3
<1>2. ASSUME NEW n \in Nodes, RecordProbe(n)
      PROVE  \/ \E S : fails' = Mark(fails, S)
             \/ \E m \in Nodes \ Down(c) : fails' = Reset(fails, m)
  <2>1. probe[n] = "ok" => n \notin Down(c)
    BY Zenon, <1>5 DEF IInv, AnswersOK, Steady, Down
  <2> QED
    BY Zenon, <1>2, <2>1 DEF RecordProbe
<1>3. ASSUME NEW d \in Clients, Start(d) \/ Advance(d) \/ Release(d)
      PROVE  UNCHANGED fails \/ SettleReached(d) \/ \E S : fails' = Mark(fails, S)
  <2>1. CASE SettleFailed(d)
    BY Zenon, <2>1 DEF SettleFailed
  <2>2. CASE Start(d) \/ Release(d) \/ Resolve(d) \/ Route(d)
    BY Zenon, <2>2 DEF Start, Release, Resolve, Route
  <2>3. CASE Enter(d) \/ Reach(d) \/ Connect(d) \/ Direct(d)
    BY Zenon, <2>3 DEF Enter, Reach, Connect, Direct
  <2> QED
    BY Zenon, <1>3, <2>1, <2>2, <2>3 DEF Advance
<1>4. ASSUME NEW n \in Nodes, Probe(n)
      PROVE  UNCHANGED fails \/ RecordProbe(n)
  BY Zenon, <1>4 DEF Probe, ProbeNode, ProbePage, ProbeCommand, RecordProbe
<1> QED
  BY Zenon, <1>1, <1>2, <1>3, <1>4

\* A call that keeps its attempt and its route, and does not fail, keeps its tally.
LEMMA SameTally ==
    ASSUME NEW c, NEW q, NEW r, TallyOK(c, q), r.quiet = q.quiet, r.try = q.try,
           r.route = q.route, r.pc # "failed"
    PROVE  TallyOK(c, r)
BY Zenon DEF TallyOK, Hopeful

\* A hopeful call that is routed: the node added to its route is not dead, or
\* answers.
LEMMA RouteTally ==
    ASSUME FInv, NEW c \in Clients, Route(c)
    PROVE  TallyOK(c, req'[c])
<1> SUFFICES ASSUME Hopeful(c, req'[c]) PROVE TallyOK(c, req'[c])
  BY Zenon DEF TallyOK
<1> DEFINE rt == req[c].route
           h == Len(rt) + 1
<1>1. /\ IInv /\ TallyOK(c, req[c]) /\ req[c] \in Request /\ RequestOK(c, req[c])
      /\ req \in [Clients -> Request]
  BY Zenon DEF FInv, IInv, TypeOK
<1>2. /\ rt \in Seq(Nodes) /\ Len(rt) \in Nat /\ req[c].pc = "select" /\ Len(rt) < NHops
  BY <1>1 DEF Route, RequestOK, Request
<1>3. h \in 1 .. NHops
  BY <1>2, ChainAssumption
<1>4. Entitled(c)
  BY Zenon DEF Hopeful, Steady
<1>5. PICK n \in Select(c, h) :
         \/ n = NoNode /\ Routed(c, rt)
         \/ n # NoNode /\ h = NHops /\ Routed(c, Append(rt, n))
         \/ n # NoNode /\ h < NHops /\ req' = [req EXCEPT ![c].route = Append(rt, n)]
  BY Zenon DEF Route
<1>6. n # NoNode
  BY Zenon, <1>1, <1>3, <1>4, HopOffersNode
<1>7. n \in Nodes
  BY SMTT(30), <1>1, <1>6, SelectFromPool, ChainAssumption DEF IInv, TypeOK, Pool
<1>8. n \in up \/ <<n, MaxFails>> \notin Spent(c)
  BY Zenon, <1>1, <1>3, <1>4, <1>7, SelectedIsAlive DEF Dead, Spent
<1> DEFINE nt == Append(rt, n)
<1>9. /\ nt # <<>> /\ Len(nt) = h /\ nt[h] = n
      /\ \A i \in 1 .. Len(rt) : nt[i] = rt[i]
      /\ \A i \in 1 .. h : i = h \/ i \in 1 .. Len(rt)
  BY SMTT(30), <1>2, <1>7
<1>10. req'[c].route = nt /\ req'[c].try = req[c].try /\ req'[c].quiet = req[c].quiet
       /\ req'[c].pc \in {"enter", "select"}
  <2>1. req'[c] \in {[req[c] EXCEPT !.pc = "enter", !.route = nt], [req[c] EXCEPT !.route = nt]}
    BY Zenon, <1>1, <1>5, <1>6, <1>9 DEF Routed
  <2> HIDE DEF nt
  <2> QED
    BY Zenon, <1>1, <1>2, <2>1 DEF Request
<1>11. Hopeful(c, req[c])
  BY Zenon, <1>10 DEF Hopeful
<1> HIDE DEF nt, rt, h
<1>12. /\ req[c].try <= Cardinality(Spent(c))
       /\ \A i \in 1 .. Len(rt) : \/ rt[i] \in up
                                  \/ req[c].try < Cardinality(Spent(c))
                                  \/ <<rt[i], MaxFails>> \notin Spent(c)
  BY Zenon, <1>1, <1>11 DEF TallyOK, rt
<1>13. \A i \in 1 .. Len(nt) : \/ nt[i] \in up
                               \/ req[c].try < Cardinality(Spent(c))
                               \/ <<nt[i], MaxFails>> \notin Spent(c)
  BY Zenon, <1>8, <1>9, <1>12
<1> QED
  BY Zenon, <1>10, <1>12, <1>13 DEF TallyOK

\* A hopeful call that cannot reach a node tries again: the failure it records
\* pays for the attempt, and there are fewer of those than retries.
LEMMA FailureTally ==
    ASSUME FInv, IInv', NEW c \in Clients, SettleFailed(c)
    PROVE  TallyOK(c, req[c])'
<1> SUFFICES ASSUME Hopeful(c, req[c])' PROVE TallyOK(c, req[c])'
  BY Zenon DEF TallyOK
<1> DEFINE r == req[c]
           n == r.route[r.at]
<1>1. /\ IInv /\ TallyOK(c, r) /\ r \in Request /\ RequestOK(c, r)
      /\ req \in [Clients -> Request]
  BY Zenon DEF FInv, IInv, TypeOK
<1>2. /\ r.pc = "settle" /\ ~ r.ok /\ GiveUp(c)
      /\ fails' = Mark(fails, Blamed(r.route, r.at))
      /\ UNCHANGED <<conf, up, flips>>
  BY Zenon DEF SettleFailed
<1>3. req'[c] = AfterFailure(c)
  BY Zenon, <1>1, <1>2 DEF GiveUp
<1>4. AfterFailure(c).quiet = r.quiet /\ AfterFailure(c).route = <<>>
  BY Zenon DEF AfterFailure, Attempt, Fresh
<1>5. Hopeful(c, r)
  <2>1. \A h : Pool(c, h)' = Pool(c, h)
    BY Zenon, <1>2 DEF Pool
  <2>2. Down(c)' = Down(c)
    BY Zenon, <1>2, <2>1 DEF Down
  <2>3. \A h \in 1..NHops : Served(c, h)' => Served(c, h)
    BY Zenon, <1>2, <2>1 DEF Served, Sound, Uniform
  <2>4. Entitled(c)
    BY Zenon, <1>2, <2>3 DEF Hopeful, Steady, Entitled, PlainChain
  <2>5. r.quiet
    BY Zenon, <1>3, <1>4 DEF Hopeful
  <2> HIDE DEF r
  <2> QED
    BY Zenon, <1>2, <2>2, <2>4, <2>5 DEF Hopeful, Steady, Praised
<1>6. PlainChain /\ flips = 0
  BY Zenon, <1>5 DEF Hopeful, Steady, Entitled
<1>7. fails' = Mark(fails, {n})
  BY Zenon, <1>2, <1>6, OnlyTheFailedNode
<1>8. r.at \in 1 .. Len(r.route) /\ n \in Pool(c, r.at) /\ n \notin up
  BY Zenon, <1>1, <1>2, <1>6 DEF RequestOK
<1>9. n \in Down(c)
  <2>1. r.at \in 1 .. NHops
    BY SMTT(30), <1>1, <1>8, ChainAssumption DEF RequestOK, Request
  <2> QED
    BY Zenon, <1>8, <2>1 DEF Down
<1>10. Spent(c) \subseteq Spent(c)'
  BY Zenon, <1>1, <1>2, <1>7, MarkKeepsSpent
<1> DEFINE s == Cardinality(Spent(c))
           t == Cardinality(Spent(c)')
<1>11. /\ s \in Nat /\ t \in Nat /\ s <= t /\ t <= MaxFails * Cardinality(Down(c)')
       /\ \A f \in Spent(c)' \ Spent(c) : s + 1 <= t
  BY Zenon, <1>1, <1>10, SpentGrows
<1>12. r.try \in Nat /\ r.try <= s /\ (r.try < s \/ <<n, MaxFails>> \notin Spent(c))
  BY <1>1, <1>5, <1>8 DEF TallyOK, Request
<1>13. r.try + 1 <= t
  <2>1. CASE r.try < s
    BY <1>11, <1>12, <2>1
  <2>2. CASE <<n, MaxFails>> \notin Spent(c)
    <3>1. \E f \in Spent(c)' : f \notin Spent(c)
      BY Zenon, <1>1, <1>2, <1>7, <1>9, <2>2, MarkAddsToSpent
    <3>2. s + 1 <= t
      BY Zenon, <1>11, <3>1
    <3> HIDE DEF s, t
    <3> QED
      BY SMTT(30), <1>11, <1>12, <3>2
  <2> QED
    BY Zenon, <1>12, <2>1, <2>2
<1>14. r.try + 1 < Attempts
  <2>1. conf.retries >= MaxFails * Cardinality(Down(c)')
    BY Zenon, <1>2 DEF Hopeful
  <2> DEFINE m == MaxFails * Cardinality(Down(c)')
  <2>2. m \in Int /\ conf.retries \in Int
    <3>1. IsFiniteSet(Down(c)')
      BY SMTT(30), ChainAssumption, FS_Subset DEF IInv, TypeOK, Down, Pool
    <3> QED
      BY SMTT(30), <1>1, <3>1, ChainAssumption, FS_CardinalityType DEF IInv, TypeOK
  <2> HIDE DEF m
  <2> QED
    BY <1>11, <1>12, <1>13, <2>1, <2>2 DEF Attempts, m
<1>15. req'[c] = Fresh(FirstStep(c), r.try + 1, r.quiet)
  BY Zenon, <1>3, <1>14 DEF AfterFailure, Attempt
<1>16. /\ req'[c].pc # "failed" /\ req'[c].try = r.try + 1 /\ req'[c].route = <<>>
  BY <1>15 DEF Fresh, FirstStep
<1> HIDE DEF r, n
<1> QED
  BY <1>13, <1>16 DEF TallyOK

\* Every other step of a call keeps its tally: while all it needs answers, no
\* attempt fails but at a node that is down.
LEMMA CallTally ==
    ASSUME FInv, NEW c \in Clients,
           Start(c) \/ Release(c) \/ Resolve(c) \/ Enter(c) \/ Reach(c)
             \/ SettleReached(c) \/ Connect(c) \/ Direct(c)
    PROVE  TallyOK(c, req'[c])
<1> SUFFICES ASSUME Hopeful(c, req'[c]) PROVE TallyOK(c, req'[c])
  BY Zenon DEF TallyOK
<1> DEFINE r == req[c]
<1>1. /\ IInv /\ TallyOK(c, r) /\ r \in Request /\ RequestOK(c, r)
      /\ req \in [Clients -> Request]
  BY Zenon DEF FInv, IInv, TypeOK
<1>2. /\ Entitled(c) /\ flips = 0 /\ Target \in up /\ Resolver \in up
  BY Zenon DEF Hopeful, Steady, Entitled
<1>3. ASSUME NEW p \in Steps, p # "failed", req'[c] = [r EXCEPT !.pc = p]
      PROVE  TallyOK(c, req'[c])
  <2>1. /\ req'[c].pc = p /\ req'[c].route = r.route /\ req'[c].try = r.try
        /\ req'[c].quiet = r.quiet
    BY Zenon, <1>1, <1>3 DEF Request
  <2> QED
    BY Zenon, <1>1, <1>3, <2>1, SameTally
<1>4. CASE Start(c)
  <2>1. req'[c] = Fresh(FirstStep(c), 0, TRUE)
    BY Zenon, <1>1, <1>4 DEF Start
  <2>2. req'[c].pc # "failed" /\ req'[c].try = 0 /\ req'[c].route = <<>>
    BY <2>1 DEF Fresh, FirstStep
  <2>3. Cardinality(Spent(c)) \in Nat
    BY Zenon, <1>1, DownAreNodes, FailuresAreBounded DEF Spent
  <2> QED
    BY <2>2, <2>3 DEF TallyOK
<1>5. CASE Release(c)
  <2>1. ~ req'[c].quiet
    BY Zenon, <1>1, <1>5 DEF Release, Idle, Fresh
  <2> QED
    BY Zenon, <2>1 DEF Hopeful
<1>6. CASE Resolve(c)
  BY Zenon, <1>1, <1>2, <1>3, <1>6 DEF Resolve, Steps
<1>7. CASE Connect(c)
  BY Zenon, <1>1, <1>2, <1>3, <1>7 DEF Connect, Steps, RequestOK
<1>8. CASE Direct(c)
  BY Zenon, <1>1, <1>2, <1>8 DEF Direct, RequestOK
<1>9. CASE Enter(c) \/ Reach(c) \/ SettleReached(c)
  <2>1. /\ req'[c].pc # "failed" /\ req'[c].route = r.route /\ req'[c].try = r.try
        /\ req'[c].quiet = r.quiet
    <3>1. CASE Enter(c)
      <4>1. PICK p : req' = [req EXCEPT ![c] = [@ EXCEPT !.pc = "reach", !.at = p]]
        BY Zenon, <3>1 DEF Enter
      <4>2. req'[c] = [r EXCEPT !.pc = "reach", !.at = p]
        BY Zenon, <1>1, <4>1
      <4> QED
        BY Zenon, <1>1, <4>2 DEF Request
    <3>2. CASE Reach(c)
      <4>1. \/ req'[c] = [r EXCEPT !.pc = "settle", !.ok = TRUE, !.path = PathTo(c)]
            \/ req'[c] = [r EXCEPT !.pc = "settle", !.ok = FALSE]
        BY Zenon, <1>1, <3>2 DEF Reach
      <4> QED
        BY Zenon, <1>1, <4>1 DEF Request
    <3>3. CASE SettleReached(c)
      BY Zenon, <1>1, <3>3 DEF SettleReached, Request
    <3> QED
      BY Zenon, <1>9, <3>1, <3>2, <3>3
  <2> QED
    BY Zenon, <1>1, <2>1, SameTally
<1> QED
  BY Zenon, <1>4, <1>5, <1>6, <1>7, <1>8, <1>9

\* A step of one call touches no other.
LEMMA OthersKept ==
    ASSUME IInv, NEW c \in Clients, Start(c) \/ Advance(c) \/ Release(c),
           NEW d \in Clients, d # c
    PROVE  req'[d] = req[d]
<1>1. req \in [Clients -> Request]
  BY Zenon DEF IInv, TypeOK
<1>2. CASE Start(c) \/ Release(c) \/ Enter(c) \/ Reach(c) \/ SettleReached(c)
  BY Zenon, <1>1, <1>2 DEF Start, Release, Enter, Reach, SettleReached
<1>3. CASE Resolve(c) \/ SettleFailed(c) \/ Connect(c) \/ Direct(c)
  BY Zenon, <1>1, <1>3 DEF Resolve, SettleFailed, Connect, Direct, GiveUp
<1>4. CASE Route(c)
  <2>1. \A rt : Routed(c, rt) => req'[d] = req[d]
    BY Zenon, <1>1 DEF Routed, GiveUp
  <2> QED
    BY Zenon, <1>1, <1>4, <2>1 DEF Route
<1> QED
  BY Zenon, <1>2, <1>3, <1>4 DEF Advance

\* Every step keeps the invariant of failover.
LEMMA NextFInv == FInv /\ [Next]_vars => FInv'
<1> SUFFICES ASSUME FInv, [Next]_vars PROVE FInv'
  BY Zenon
<1>1. IInv /\ IInv'
  BY Zenon, NextOK DEF FInv
<1> SUFFICES ASSUME NEW c \in Clients PROVE TallyOK(c, req[c])'
  BY Zenon, <1>1 DEF FInv
<1>2. TallyOK(c, req[c]) /\ req \in [Clients -> Request]
  BY Zenon DEF FInv, IInv, TypeOK
<1> DEFINE calls == \E d \in Clients : Start(d) \/ Advance(d) \/ Release(d)
           probes == \E n \in Nodes : Probe(n)
<1>3. ASSUME calls \/ probes
      PROVE  UNCHANGED <<conf, up, flips>> /\ (Steady(c) => Spent(c) \subseteq Spent(c)')
  <2>1. UNCHANGED <<conf, up, flips>>
    BY Zenon, <1>3, PlacesKept
  <2>2. ASSUME Steady(c) PROVE Spent(c) \subseteq Spent(c)'
    <3>2. \/ UNCHANGED fails
          \/ \E S : fails' = Mark(fails, S)
          \/ \E n \in Nodes \ Down(c) : fails' = Reset(fails, n)
      BY Zenon, <1>1, <1>3, <2>2, MarkersGrow
    <3> QED
      BY Zenon, <1>1, <2>1, <3>2, SpentKept
  <2> QED
    BY Zenon, <2>1, <2>2
<1>4. ASSUME NEW d \in Clients, Start(d) \/ Advance(d) \/ Release(d)
      PROVE  TallyOK(c, req[c])'
  <2>1. UNCHANGED <<conf, up, flips>> /\ (Steady(c) => Spent(c) \subseteq Spent(c)')
    BY Zenon, <1>3, <1>4
  <2>2. CASE d # c
    <3>1. req'[c] = req[c]
      BY Zenon, <1>1, <1>4, <2>2, OthersKept
    <3> QED
      BY Zenon, <1>1, <1>2, <2>1, <3>1, TallyKept
  <2>3. CASE d = c /\ SettleFailed(c)
    BY Zenon, <1>1, <2>3, FailureTally
  <2>4. CASE d = c /\ ~ SettleFailed(c)
    <3>1. TallyOK(c, req'[c])
      BY Zenon, <1>4, <2>4, RouteTally, CallTally DEF Advance
    <3> QED
      BY Zenon, <1>1, <2>1, <3>1, TallyKept
  <2> QED
    BY Zenon, <2>2, <2>3, <2>4
<1>5. CASE probes
  <2>1. UNCHANGED <<conf, up, flips>> /\ (Steady(c) => Spent(c) \subseteq Spent(c)')
    BY Zenon, <1>3, <1>5
  <2>2. req'[c] = req[c]
    BY Zenon, <1>5 DEF Probe, ProbeNode, ProbePage, ProbeCommand, RecordProbe
  <2> QED
    BY Zenon, <1>1, <1>2, <2>1, <2>2, TallyKept
<1>6. CASE Tick \/ \E p \in conf.unstable : Flip(p)
  <2>1. req'[c].quiet = FALSE
    BY Zenon, <1>2, <1>6 DEF Tick, Flip, Disturbed, Request
  <2> QED
    BY Zenon, <2>1 DEF TallyOK, Hopeful
<1>7. CASE UNCHANGED vars
  <2>1. UNCHANGED <<conf, up, flips>> /\ Spent(c) \subseteq Spent(c)'
    BY <1>7 DEF vars, Spent, Down, Pool
  <2>2. req'[c] = req[c]
    BY Zenon, <1>7 DEF vars
  <2> QED
    BY Zenon, <1>1, <1>2, <2>1, <2>2, TallyKept
<1> QED
  BY Zenon, <1>4, <1>5, <1>6, <1>7 DEF Next
-----------------------------------------------------------------------------
(* The theorems.                                                           *)

\* The router, the hops' fail markers, the session caches and the probes keep
\* their types, and a call never makes more attempts than Retries + 1.
THEOREM TypeCorrect == Spec => []TypeOK
<1>1. IInv => TypeOK
  BY Zenon DEF IInv
<1> QED
  BY <1>1, InitOK, NextOK, PTL DEF Spec

\* While no place changes, connect and the probes never mark a node that
\* answers, unless by an HTTP or command probe whose page or command fails, for
\* any number of concurrent calls.
THEOREM MarkersAccuseJustly == Spec => []AnsweringNodesUnmarked
<1>1. IInv => AnsweringNodesUnmarked
  BY Zenon DEF IInv
<1> QED
  BY <1>1, InitOK, NextOK, PTL DEF Spec

\* While no place changes, Chain.Route gives a client whose hops are served a
\* node of every hop: it never stops short and never goes direct.
THEOREM EveryHopIsUsed == Spec => []NoHopBypassed
<1>1. IInv => NoHopBypassed
  <2> SUFFICES ASSUME IInv, NEW c \in Clients, Entitled(c)
               PROVE  /\ req[c].pc # "direct"
                      /\ req[c].pc \in {"enter", "reach", "settle", "connect"} =>
                           /\ Len(req[c].route) = NHops
                           /\ \A i \in 1 .. NHops : HopOf[req[c].route[i]] = i
    BY Zenon DEF NoHopBypassed, Entitled
  <2>1. RequestOK(c, req[c])
    BY Zenon DEF IInv
  <2>2. \A i : \A n \in Pool(c, i) : HopOf[n] = i
    BY Zenon DEF Pool
  <2> QED
    BY <2>1, <2>2 DEF RequestOK
<1> QED
  BY <1>1, InitOK, NextOK, PTL DEF Spec

\* A call whose hops are served reaches its target, whatever the other calls and
\* the probes do: while no place changes and no failure expires, each node that
\* is down costs it at most MaxFails attempts, so that Router.dial and Router.Bind
\* do not run out of retries.  No command probe may praise a node that is down.
THEOREM FailoverWorks == Spec => []FailoverSucceeds
<1>1. Init => FInv
  <2> SUFFICES ASSUME Init PROVE FInv
    BY Zenon
  <2>1. \A c \in Clients : ~ req[c].quiet
    BY Zenon DEF Init, Idle, Fresh
  <2> QED
    BY Zenon, <2>1, InitOK DEF FInv, TallyOK, Hopeful
<1>2. FInv => FailoverSucceeds
  BY Zenon DEF FInv, TallyOK, Hopeful, Steady, Entitled, FailoverSucceeds
<1> QED
  BY <1>1, <1>2, NextFInv, PTL DEF Spec
=============================================================================
