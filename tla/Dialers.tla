------------------------------ MODULE Dialers -------------------------------
(***************************************************************************)
(* The dialers that share a session with a proxy among the calls of a      *)
(* route: how each finds, makes, checks and drops the session of a node,   *)
(* while calls overlap and sessions break.                                 *)
(*                                                                         *)
(* A call dials, shakes hands, connects, uses its stream and comes back.   *)
(* What a dialer does under its mutex is one step.                         *)
(***************************************************************************)
EXTENDS Naturals, FiniteSets

CONSTANTS Calls,     \* the calls that go through the node
          MaxIds,    \* bound: connections known at a time
          MaxFaults, \* bound: faults in a behaviour
          Confs      \* kind: the dialer; resolved: the node's address is mapped
                     \* to another; keepalive: mws pings; calls: the callers

ASSUME BoundsAssumption == MaxIds \in Nat \ {0} /\ MaxFaults \in Nat

VARIABLES conf,  \* chosen once
          cache, \* entry: the dialer's map; sess: the connections
          call,  \* where each call is, and the connection it has
          faults \* faults still to come

vars == <<conf, cache, call, faults>>

Ids == 1..MaxIds
None == [id |-> 0, mux |-> FALSE]

-----------------------------------------------------------------------------
(* The dialers.                                                            *)
(* two: Dial returns the connection of the session, Handshake a stream of  *)
(* it.  checks: Dial drops a session that IsClosed.  pings: and one that   *)
(* does not answer.  opens: where Dial opens its stream: under the mutex   *)
(* ("held"), after it ("free"), or nowhere.  races: the session is made    *)
(* without the mutex.  evict: what a failed open drops.  shared: the       *)
(* connection Dial returns is the session's.  forgets: closing it drops    *)
(* the entry.  heals: the session is a client of a library, which connects *)
(* again by itself.                                                        *)

Plain == [two |-> FALSE, checks |-> TRUE, pings |-> FALSE, opens |-> "held",
          races |-> FALSE, evict |-> "always", shared |-> FALSE,
          forgets |-> FALSE, heals |-> FALSE]
Mtls == [Plain EXCEPT !.two = TRUE, !.opens = "none", !.shared = TRUE]
Mtcp == [Plain EXCEPT !.two = TRUE, !.opens = "none", !.shared = TRUE]
Mws == [Plain EXCEPT !.two = TRUE, !.opens = "none", !.shared = TRUE]
Kcp == Plain
Ssh == Plain
Sshd == [Plain EXCEPT !.pings = TRUE, !.opens = "none", !.shared = TRUE]
Quic == [Plain EXCEPT !.opens = "free", !.evict = "same"]
Icmp == [Plain EXCEPT !.opens = "free", !.evict = "same"]

\* Mutant: a session that fails is never invalidated.
HysteriaKeepsDead == [Plain EXCEPT !.checks = FALSE, !.opens = "free", !.races = TRUE,
                                   !.evict = "never"]
Hysteria == [Plain EXCEPT !.checks = FALSE, !.opens = "free", !.races = TRUE,
                          !.evict = "current"]
HysteriaDirect == [Hysteria EXCEPT !.opens = "none"]

Client == [Plain EXCEPT !.checks = FALSE, !.evict = "never", !.heals = TRUE]
Http2 == [Client EXCEPT !.opens = "none", !.forgets = TRUE]
Grpc == Client
Pht == Client
Http3 == Client
H2 == [Client EXCEPT !.opens = "free"]
Wg == [Client EXCEPT !.opens = "none"]

\* wt makes its session again when it is done; masque forgets the connection
\* before it closes it, so that it stays open.
Wt == [Plain EXCEPT !.evict = "never"]
Masque == [Plain EXCEPT !.evict = "forget"]

Dialer ==
    [mtls |-> Mtls, mtcp |-> Mtcp, mws |-> Mws, kcp |-> Kcp, ssh |-> Ssh,
     sshd |-> Sshd, quic |-> Quic, icmp |-> Icmp, hysteria |-> Hysteria,
     direct |-> HysteriaDirect,
     http2 |-> Http2, grpc |-> Grpc, pht |-> Pht, http3 |-> Http3,
     h2 |-> H2, wg |-> Wg, wt |-> Wt, masque |-> Masque]

\* Only mws pings.
ASSUME ConfsAssumption ==
    /\ Confs \subseteq [kind : DOMAIN Dialer, resolved : BOOLEAN, keepalive : BOOLEAN,
                        calls : SUBSET Calls]
    /\ \A f \in Confs : f.keepalive => f.kind = "mws"

D == Dialer[conf.kind]

\* Dial is given the resolved address, Handshake the configured one.
DialKey == IF conf.resolved THEN "resolved" ELSE "configured"
HandshakeKey == "configured"

-----------------------------------------------------------------------------
(* The cache.                                                              *)

DialersInit(confs, n) ==
    /\ conf \in confs
    /\ cache = [entry |-> [k \in {"resolved", "configured"} |-> None],
                sess |-> [i \in Ids |-> [life |-> "none", mux |-> FALSE, alive |-> FALSE]]]
    /\ call = [c \in Calls |-> [at |-> "idle", id |-> 0]]
    /\ faults = n

Init == DialersInit(Confs, MaxFaults)

Life(d, i) == d.sess[i].life
Closed(d, i) == [d EXCEPT !.sess[i].life = "closed"]
Without(d, k) == [d EXCEPT !.entry[k] = None]

\* IsClosed: also of a session that has not been made yet.
IsClosed(d, e) == ~e.mux \/ Life(d, e.id) = "closed"

Known(i) == \/ \E k \in DOMAIN cache.entry : cache.entry[k].id = i
            \/ \E c \in Calls : call[c].id = i

\* A name for a new connection: one nobody uses any more.
Fresh ==
    LET free == {i \in Ids : /\ Life(cache, i) \in {"none", "closed"}
                             /\ ~cache.sess[i].alive /\ ~Known(i)}
    IN {i \in free : \A j \in free : i <= j}

New(d, i, mux) ==
    [d EXCEPT !.sess[i] = [life |-> "up", mux |-> mux, alive |-> FALSE]]

\* The steps of a call have outcomes: the cache, the session (0: the step
\* failed) and the faults it took.
Outcome(d, i, cost) == [d |-> d, id |-> i, cost |-> cost]

Take(c, outcomes, at) ==
    \E r \in outcomes :
        /\ r.cost <= faults
        /\ faults' = faults - r.cost
        /\ cache' = r.d
        /\ call' = [call EXCEPT ![c] = IF r.id = 0 THEN [at |-> "idle", id |-> 0]
                                      ELSE [at |-> at, id |-> r.id]]
        /\ UNCHANGED conf

\* What fails costs a fault, unless the session was broken anyway.
Cost(d, i) == IF Life(d, i) = "up" THEN 1 ELSE 0

-----------------------------------------------------------------------------
(* Dial.                                                                   *)

\* The session of the address, unless it is found to be dead.
Lookup(d) ==
    LET e == d.entry[DialKey] IN
    IF e = None THEN {Outcome(d, 0, 0)}
    ELSE IF D.checks /\ IsClosed(d, e) THEN {Outcome(Without(d, DialKey), 0, 0)}
    ELSE {o \in {Outcome(d, e.id, 0)} : D.pings => Life(d, e.id) = "up"}
         \cup {o \in {Outcome(Without(Closed(d, e.id), DialKey), 0, Cost(d, e.id))} : D.pings}

\* A new connection; a two-phase dialer makes its session in Handshake.
Make(o) ==
    IF o.id # 0 THEN {o}
    ELSE {Outcome([New(o.d, i, ~D.two) EXCEPT !.entry[DialKey] = [id |-> i, mux |-> ~D.two]],
                  i, o.cost) : i \in Fresh}
         \cup {Outcome(o.d, 0, o.cost + 1)}

\* Mutant: invalidate drops whatever session the entry holds.
EvictAny(d, k, i) ==
    CASE D.evict = "always" -> Without(Closed(d, i), k)
      [] D.evict = "same" -> IF d.entry[k].id = i THEN Without(Closed(d, i), k) ELSE Closed(d, i)
      [] D.evict = "current" -> IF d.entry[k] = None THEN d ELSE Without(Closed(d, d.entry[k].id), k)
      [] D.evict = "forget" -> Without(d, k)
      [] D.evict = "never" -> d
\* What a dialer does with a session that gave no stream.
Evict(d, k, i) ==
    CASE D.evict = "always" -> Without(Closed(d, i), k)
      [] D.evict = "same" -> IF d.entry[k].id = i THEN Without(Closed(d, i), k) ELSE Closed(d, i)
      [] D.evict = "current" -> IF d.entry[k].id = i THEN Without(Closed(d, i), k) ELSE d
      [] D.evict = "forget" -> Without(d, k)
      [] D.evict = "never" -> d

\* A stream of a session that is broken is given all the same, or is not.
GetConn(o, k) ==
    IF o.id = 0 THEN {o}
    ELSE {p \in {o} : Life(o.d, o.id) # "closed"}
         \cup {Outcome(Evict(o.d, k, o.id), 0, o.cost + Cost(o.d, o.id))}

DialSession(c) ==
    /\ call[c].at = "idle" /\ ~D.races
    /\ LET made == UNION {Make(o) : o \in Lookup(cache)} IN
       CASE D.two -> Take(c, made, "dialed")
         [] D.opens = "free" -> Take(c, made, "opening")
         [] D.opens = "held" -> Take(c, UNION {GetConn(o, DialKey) : o \in made}, "opened")
         [] OTHER -> Take(c, made, "opened")

\* Dial after the mutex is released.
OpenStream(c) ==
    /\ call[c].at = "opening"
    /\ Take(c, GetConn(Outcome(cache, call[c].id, 0), DialKey), "opened")

\* hysteria: the client is made without the mutex ...
DialClient(c) ==
    /\ call[c].at = "idle" /\ D.races
    /\ LET e == cache.entry[DialKey] IN
       IF e # None
       THEN Take(c, {Outcome(cache, e.id, 0)}, IF D.opens = "free" THEN "opening" ELSE "opened")
       ELSE Take(c, {Outcome(New(cache, i, TRUE), i, 0) : i \in Fresh}
                        \cup {Outcome(cache, 0, 1)}, "storing")

\* Mutant: the client that came second is left open.
StoreClientLeaks(c) ==
    /\ call[c].at = "storing"
    /\ LET e == cache.entry[DialKey]
           i == call[c].id
       IN Take(c, IF e # None THEN {Outcome(cache, e.id, 0)}
                  ELSE {Outcome([cache EXCEPT !.entry[DialKey] = [id |-> i, mux |-> TRUE]], i, 0)},
               IF D.opens = "free" THEN "opening" ELSE "opened")
\* ... and the one stored first is used by all.
StoreClient(c) ==
    /\ call[c].at = "storing"
    /\ LET e == cache.entry[DialKey]
           i == call[c].id
       IN Take(c, IF e # None THEN {Outcome(Closed(cache, i), e.id, 0)}
                  ELSE {Outcome([cache EXCEPT !.entry[DialKey] = [id |-> i, mux |-> TRUE]], i, 0)},
               IF D.opens = "free" THEN "opening" ELSE "opened")

-----------------------------------------------------------------------------
(* Handshake of the two-phase dialers; a route closes what it dialled when *)
(* it fails.                                                               *)

Unrecognized(e, i) == e # None /\ e.id # i

\* A session is made once of a connection that is sound.
InitSession(d, i) ==
    {Outcome([d EXCEPT !.sess[i].mux = TRUE, !.sess[i].alive = conf.keepalive,
                       !.entry[HandshakeKey] = [id |-> i, mux |-> TRUE]], i, 0) :
         x \in {y \in {i} : Life(d, i) = "up" /\ ~d.sess[i].mux}}
    \cup {Outcome(Without(Closed(d, i), HandshakeKey), 0,
                  IF d.sess[i].mux THEN 0 ELSE Cost(d, i))}

Handshake(c) ==
    /\ call[c].at = "dialed"
    /\ LET e == cache.entry[HandshakeKey]
           i == call[c].id
       IN Take(c, CASE Unrecognized(e, i) -> {Outcome(Closed(cache, i), 0, 0)}
                    [] ~Unrecognized(e, i) /\ ~e.mux -> InitSession(cache, i)
                    [] OTHER -> GetConn(Outcome(cache, i, 0), HandshakeKey),
               "opened")

-----------------------------------------------------------------------------
(* The rest of a call: connect.                                            *)

\* Close of the connection that Dial returned.
CloseDialed(d, i) ==
    CASE D.shared -> Closed(d, i)
      [] D.forgets -> Without(d, DialKey)
      [] OTHER -> d

\* hysteria: a stream that reports a dead session invalidates it.
Reported(d, i) == IF D.races /\ Life(d, i) = "closed" THEN Evict(d, DialKey, i) ELSE d

Connect(c) ==
    /\ call[c].at = "opened" /\ Life(cache, call[c].id) = "up"
    /\ Take(c, {Outcome(cache, call[c].id, 0)}, "streaming")

\* The connector's own handshake fails: connect closes what Dial returned.
ConnectorHandshakeFails(c) ==
    /\ call[c].at = "opened"
    /\ LET i == call[c].id
       IN Take(c, {Outcome(Reported(CloseDialed(cache, i), i), 0, Cost(cache, i))}, "idle")

\* Connect fails: the route closes what Handshake returned.
ConnectFails(c) ==
    /\ call[c].at = "opened"
    /\ LET i == call[c].id
           d == IF D.two THEN cache ELSE CloseDialed(cache, i)
       IN Take(c, {Outcome(Reported(d, i), 0, Cost(cache, i))}, "idle")

\* The user is done with the stream, or it fails with its session.
StreamEnds(c) ==
    /\ call[c].at = "streaming"
    /\ Take(c, {Outcome(Reported(cache, call[c].id), 0, 0)}, "idle")

-----------------------------------------------------------------------------
(* Sessions break, and somebody notices.                                   *)

\* The peer or the network is gone.
Break(i) ==
    /\ Life(cache, i) = "up" /\ ~D.heals /\ faults > 0
    /\ faults' = faults - 1
    /\ cache' = [cache EXCEPT !.sess[i].life = "broken"]
    /\ UNCHANGED <<conf, call>>

\* The session's own keepalive or idle timeout.
Notice(i) ==
    /\ Life(cache, i) = "broken"
    /\ cache' = Closed(cache, i)
    /\ UNCHANGED <<conf, call, faults>>

\* mws: a ping fails; the entry of the address goes, whoever is in it.
KeepAlive(i) ==
    /\ cache.sess[i].alive /\ Life(cache, i) # "up"
    /\ cache' = [Without(Closed(cache, i), HandshakeKey) EXCEPT !.sess[i].alive = FALSE]
    /\ UNCHANGED <<conf, call, faults>>

\* A client of a library that nobody uses times out.
IdleTimeout(i) ==
    /\ D.heals /\ Life(cache, i) = "up" /\ ~Known(i)
    /\ cache' = Closed(cache, i)
    /\ UNCHANGED <<conf, call, faults>>

Step(c) ==
    \/ DialSession(c) \/ DialClient(c) \/ StoreClient(c) \/ OpenStream(c)
    \/ Handshake(c) \/ Connect(c) \/ ConnectorHandshakeFails(c) \/ ConnectFails(c)
    \/ StreamEnds(c)

Next ==
    \/ \E c \in conf.calls : Step(c)
    \/ \E i \in Ids : Break(i) \/ Notice(i) \/ KeepAlive(i) \/ IdleTimeout(i)

\* Calls end by their timeouts or their sessions', and pings and idle timers
\* are goroutines of their own.
Fairness ==
    /\ \A c \in Calls : WF_vars(c \in conf.calls /\ Step(c))
    /\ \A i \in Ids : WF_vars(Notice(i)) /\ WF_vars(KeepAlive(i)) /\ WF_vars(IdleTimeout(i))

Spec == Init /\ [][Next]_vars /\ Fairness

-----------------------------------------------------------------------------
(* Properties.                                                             *)

InUse(i) == \E c \in Calls : call[c].at = "streaming" /\ call[c].id = i

\* The keepAlive of mws (dialer/mws/dialer.go:226) deletes the entry of its
\* address without looking whose it is.
DeletesBlindly == conf.kind = "mws" /\ conf.keepalive

\* No step in which nothing failed closes a sound session that carries
\* streams: an eviction, a lost race to store, a refused Handshake or the
\* late report of a stream of an older session hits only the session it is
\* about (dialer/hysteria/dialer.go:262, dialer/quic/dialer.go:104,
\* dialer/mtls/dialer.go:117).
SoundSessionsSurvive ==
    [][\A i \in Ids : Life(cache, i) = "up" /\ InUse(i) /\ Life(cache', i) = "closed"
           => faults' < faults \/ DeletesBlindly]_vars

\* The client of masque clears quicConn when no stream opens, so that the
\* Close that follows finds nothing to close (dialer/http3/masque/client.go:75).
Abandons == D.evict = "forget"

\* Every session that is open can be found in the dialer's map or is held by
\* a call, so that it is used again or closed: no sequence of overlapping
\* dials, failures and evictions leaks one.
NoOrphans ==
    \A i \in Ids : cache.sess[i].mux /\ Life(cache, i) = "up"
        => Known(i) \/ D.heals \/ DeletesBlindly \/ Abandons

\* The two-phase dialers whose calls can refuse one another for ever: Dial
\* and Handshake use two keys for the node (chain/transport.go:58), or two
\* calls replace each other's connection between Dial and Handshake
\* (dialer/mtls/dialer.go:94).
Refusing == D.two /\ (conf.resolved \/ Cardinality(conf.calls) > 1)

\* Once the faults are over, calls that keep trying get sound streams again
\* and again: a dead session is always dropped and replaced.
Recovers ==
    Refusing \/ []<>(\E c \in Calls : call[c].at = "streaming" /\ Life(cache, call[c].id) = "up")

=============================================================================
