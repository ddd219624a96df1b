--------------------------- MODULE ServiceProofs ----------------------------
(***************************************************************************)
(* What holds of a service and its listener for any connections, hosts,    *)
(* limits and bounds: the connection limits are kept, the service stops    *)
(* only for a reason, and no open connection of the UDP listener gets out  *)
(* of reach of the idle check and of Close, but in two named cases.        *)
(***************************************************************************)
EXTENDS Service, FiniteSetTheorems, TLAPS

-----------------------------------------------------------------------------
(* The inductive invariant.                                                *)

Places == {"away", "backlog", "session", "queued", "serving", "gone"}
Slots == Gens \cup {NoSlot}
Errors == {"closed", "limit", "packet", "temporary", "fatal", "nil"}
Stages == {"accept", "backoff", "binding", "bound", "waiting", "draining",
           "returned", "crashed", "exited"}

SvcType == [serve : Stages, up : {"ready", "failed", "closed"}, err : Errors \cup {None},
            closes : Nat, closing : {"no", "closing", "done"}]
Sent == {<<>>} \cup {<<e>> : e \in Errors}
LnType == [sock : {None, "open", "closed"}, loop : BOOLEAN, err : Sent,
           done : BOOLEAN, queue : Seq(Conns), closed : BOOLEAN]
ConnType == [Conns -> [at : Places, open : BOOLEAN, slot : Slots]]
LimiterType == [gen : Gens, count : [Gens -> [Keys -> Int]]]
UdpType == [pool : [Hosts -> Conns \cup {None}], closed : BOOLEAN, idle : SUBSET Conns,
            hand : Hosts \cup {None}, new : Conns \cup {None},
            check : Conns \cup {None}, step : {"look", "delete", "close"}]

TypeOK ==
    /\ conf \in Confs
    /\ svc \in SvcType
    /\ ln \in LnType
    /\ conn \in ConnType
    /\ limiter \in LimiterType
    /\ udp \in UdpType
    /\ faults \in 0..MaxFaults

\* A connection is queued where its record says, once.
QueueOK ==
    /\ \A i \in DOMAIN ln.queue : conn[ln.queue[i]].at = "queued"
    /\ \A i, j \in DOMAIN ln.queue : ln.queue[i] = ln.queue[j] => i = j

\* Slots are held by open connections, which have been asked for.
SlotOK(r) ==
    /\ L.limits = "never" => r.slot = NoSlot
    /\ r.slot # NoSlot => r.open
    /\ r.at \in {"away", "backlog"} => r.slot = NoSlot
    /\ r.at \in {"backlog", "session"} => r.open
    /\ L.limits = "accept" /\ r.at \in {"session", "queued"} => r.open /\ r.slot = NoSlot
    /\ L.feeds = "packets" => r.at \notin {"backlog", "session"}

SlotsOK == \A c \in Conns : SlotOK(conn[c])

\* The counters are what the connections hold, and within the limits.
Holders(g, k) == {c \in Conns : Holds(c, g, k)}
Counted ==
    \A g \in Gens, k \in Keys :
         /\ limiter.count[g][k] = Cardinality(Holders(g, k))
         /\ Limit(k) > 0 => limiter.count[g][k] <= Limit(k)

\* While nobody has closed the service: its socket is closed only by a server
\* that ended, and what Accept is about to return tells why.
ReasonsOK ==
    svc.closes = 0 =>
      /\ ~ln.closed /\ svc.closing = "no"
      /\ ln.sock = "closed" => L.feeds = "server" /\ ~ln.loop
      /\ ln.err # <<>> =>
           \/ Head(ln.err) \in {"limit", "packet", "fatal"}
           \/ Head(ln.err) = "temporary" /\ StopsOnTemporary
      /\ ln.done /\ ln.err = <<>> =>
           StopsOnTemporary \/ svc.serve \in Ended \cup {"crashed", "exited"}

\* The pool is that of the UDP listener, its connections have arrived, the one
\* about to be set replaces none that is open, and it is set before the next
\* packet is read.
PoolOK ==
    /\ L.feeds # "packets" =>
         /\ udp.check = None /\ udp.new = None /\ udp.hand = None
         /\ \A h \in Hosts : udp.pool[h] = None
    /\ udp.hand # None => udp.new = None
    /\ udp.step # "look" => udp.check # None
    /\ udp.check # None => conn[udp.check].at # "away"
    /\ \A h \in Hosts : Pooled(h) # None => conn[Pooled(h)].at # "away"
    /\ udp.new # None => conn[udp.new].at # "away" /\ ~IsOpen(Host[udp.new])

IInv == TypeOK /\ QueueOK /\ SlotsOK /\ Counted /\ ReasonsOK /\ Survives /\ PoolOK

-----------------------------------------------------------------------------
(* Listeners.                                                              *)

\* The UDP listener has no sessions and asks no limiter; one that asks it in
\* Accept has no sessions either and does not cut connections.
Sane(l) ==
    /\ l.feeds = "packets" => l.limits = "never" /\ ~l.mux
    /\ l.limits = "accept" => ~l.mux /\ ~l.cuts

\* So it is of every listener of the table.
LEMMA ListenersAreSane == \A k \in DOMAIN Listener : Sane(Listener[k])
<1>1. /\ Sane(Tcp) /\ Sane(Tls) /\ Sane(Dtls) /\ Sane(Unix) /\ Sane(ObfsHTTP)
      /\ Sane(ObfsTLS) /\ Sane(RedirectTCP) /\ Sane(RedirectUDP) /\ Sane(Stateless)
  BY Zenon DEF Sane, Tcp, Tls, Dtls, Unix, ObfsHTTP, ObfsTLS, RedirectTCP, RedirectUDP, Stateless
<1>2. /\ Sane(Mtls) /\ Sane(Mtcp) /\ Sane(Ssh) /\ Sane(Sshd)
      /\ Sane(Quic) /\ Sane(Kcp) /\ Sane(Icmp)
  BY Zenon DEF Sane, Tcp, Mtls, Mtcp, Ssh, Sshd, Quic, Kcp, Icmp
<1>3. /\ Sane(Ws) /\ Sane(Mws) /\ Sane(Grpc) /\ Sane(Http2) /\ Sane(H2)
      /\ Sane(Http3) /\ Sane(H3) /\ Sane(Wt)
  BY Zenon DEF Sane, Tcp, Ws, Mws, Grpc, Http2, H2, Http3, H3, Wt
<1>4. Sane(Pht) /\ Sane(Dns) /\ Sane(Doh)
  BY Zenon DEF Sane, Tcp, Ws, Pht, Dns, Doh
<1>5. Sane(Rtcp) /\ Sane(Runix) /\ Sane(Rudp)
  BY Zenon DEF Sane, Tcp, Rtcp, Runix, Rudp
<1>6. /\ Sane(Tun) /\ Sane(Tap) /\ Sane(Tungo) /\ Sane(Serial)
      /\ Sane(Udp) /\ Sane(Ftcp) /\ Sane(Stdio)
  BY Zenon DEF Sane, Tcp, Tun, Tap, Tungo, Serial, Udp, Ftcp, Stdio
<1> QED BY <1>1, <1>2, <1>3, <1>4, <1>5, <1>6 DEF Listener

\* The listener of this service is one of them.
LEMMA ListenerIsSane == TypeOK => Sane(L)
BY Zenon, ListenersAreSane, ConnsAssumption DEF TypeOK, L

-----------------------------------------------------------------------------
(* What the operators return.                                              *)

\* A host has a counter in every limiter, and a place in the pool.
LEMMA HostsAreKeys == \A c \in Conns : Host[c] \in Hosts /\ Host[c] \in Keys
BY Zenon DEF Hosts, Keys

\* Limits are numbers.
LEMMA LimitsAreNat == TypeOK => \A k \in Keys : Limit(k) \in Nat
BY Zenon, ConnsAssumption DEF TypeOK, Limit

\* The limiters are numbered, and "no slot" is none of them.
LEMMA GensAreNat ==
  Gens \subseteq Nat /\ NoSlot \in Nat /\ NoSlot \notin Gens /\ IsFiniteSet(Conns)
BY BoundsAssumption, ConnsAssumption DEF Gens, NoSlot

\* An error puts Serve off or ends it, and its reason is the error.
LEMMA GetsErrorIs ==
  ASSUME NEW s \in SvcType, NEW e \in Errors \cup Temporary
  PROVE  LET t == GetsError(s, e) IN
         /\ t \in SvcType /\ t.closes = s.closes /\ t.closing = s.closing
         /\ t.serve \in {"crashed", "backoff", "draining"}
         /\ e = "temporary" => t.serve = "backoff"
         /\ t.serve = "draining" => t.err = e /\ e \notin Temporary \cup {"nil"}
<1> QED BY Zenon DEF GetsError, SvcType, Errors, Temporary, Stages

\* What is left of a connection that is closed is a connection.
LEMMA GoneType == Gone \in [at : Places, open : BOOLEAN, slot : Slots]
BY Zenon DEF Gone, Places, Slots

\* Reset takes what is in the backlog.
LEMMA ResetIs ==
  ASSUME NEW cs \in ConnType
  PROVE  /\ Reset(cs) \in ConnType
         /\ \A c \in Conns : Reset(cs)[c] = IF cs[c].at = "backlog" THEN Gone ELSE cs[c]
BY Zenon, GoneType DEF Reset, ConnType

\* Slots given back.
LEMMA ReleaseIs ==
  ASSUME TypeOK, NEW cs \in SUBSET Conns
  PROVE  /\ Release(limiter, cs) \in LimiterType
         /\ Release(limiter, cs).gen = limiter.gen
         /\ \A g \in Gens, k \in Keys :
              Release(limiter, cs).count[g][k] =
                limiter.count[g][k] - Cardinality({c \in cs : Holds(c, g, k)})
<1>1. ASSUME NEW g \in Gens, NEW k \in Keys
      PROVE  Cardinality({c \in cs : Holds(c, g, k)}) \in Nat
  <2>1. {c \in cs : Holds(c, g, k)} \in SUBSET Conns
    BY Zenon
  <2> QED BY Zenon, <2>1, FS_Subset, FS_CardinalityType, GensAreNat
<1> DEFINE N(g, k) == Cardinality({c \in cs : Holds(c, g, k)})
           f == [g \in Gens |-> [k \in Keys |-> limiter.count[g][k] - N(g, k)]]
<1>2. Release(limiter, cs) = [limiter EXCEPT !.count = f]
  BY Zenon DEF Release
<1>3. \A g \in Gens, k \in Keys : N(g, k) \in Nat
  BY Zenon, <1>1
<1> HIDE DEF N
<1>4. /\ f \in [Gens -> [Keys -> Int]]
      /\ \A g \in Gens, k \in Keys : f[g][k] = limiter.count[g][k] - N(g, k)
  BY <1>3 DEF TypeOK, LimiterType
<1> HIDE DEF f
<1>5. /\ Release(limiter, cs) \in LimiterType
      /\ Release(limiter, cs).gen = limiter.gen /\ Release(limiter, cs).count = f
  BY Zenon, <1>2, <1>4 DEF TypeOK, LimiterType
<1> QED BY Zenon, <1>4, <1>5 DEF N

\* What asking the limiter for a connection comes to: nothing, when none is
\* asked there; a slot of every limit; or a refusal that changes nothing.
LEMMA AskIs ==
  ASSUME TypeOK, NEW c \in Conns, NEW where \in {"socket", "accept"}
  PROVE  LET l == Ask(c, where)
             asked == L.limits = where /\ Limited(Host[c])
             n == limiter.count[limiter.gen]
         IN
         /\ l.limiter \in LimiterType /\ l.limiter.gen = limiter.gen /\ l.slot \in Slots
         /\ ~asked => l.ok /\ l.slot = conn[c].slot /\ l.limiter = limiter
         /\ ~l.ok => l.limiter = limiter
         /\ asked => l.slot = limiter.gen
         /\ asked /\ l.ok =>
              /\ \A k \in Group(Host[c]) : n[k] + 1 <= Limit(k)
              /\ \A g \in Gens, k \in Keys :
                   l.limiter.count[g][k] =
                     IF g = limiter.gen /\ k \in Group(Host[c]) THEN n[k] + 1
                     ELSE limiter.count[g][k]
<1> DEFINE n == limiter.count[limiter.gen]
           r == Allow(n, Host[c])
           m == [limiter EXCEPT !.count[limiter.gen] = r.count]
           asked == L.limits = where /\ Limited(Host[c])
<1>1. n \in [Keys -> Int] /\ limiter.gen \in Gens
  BY Zenon DEF TypeOK, LimiterType
<1>2. Group(Host[c]) \subseteq Keys
  BY Zenon, HostsAreKeys DEF Group, Keys
<1>3. /\ r.count \in [Keys -> Int]
      /\ r.ok => /\ \A k \in Group(Host[c]) : n[k] + 1 <= Limit(k)
                 /\ \A k \in Keys : r.count[k] = IF k \in Group(Host[c]) THEN n[k] + 1 ELSE n[k]
      /\ ~r.ok => r.count = n
  <2> DEFINE bad == Refusing(n, Host[c])
  <2>1. /\ r.ok <=> bad = {}
        /\ r.count = [k \in Keys |-> IF k \in (IF bad = {} THEN Group(Host[c]) ELSE {})
                                     THEN n[k] + 1 ELSE n[k]]
    BY Zenon DEF Allow
  <2>2. bad = {} => \A k \in Group(Host[c]) : n[k] + 1 <= Limit(k)
    BY <1>1, <1>2, LimitsAreNat DEF Refusing
  <2> HIDE DEF bad, r, n
  <2>3. CASE bad = {}
    BY <2>1, <2>2, <2>3, <1>1
  <2>4. CASE bad # {}
    <3>1. r.count = [k \in Keys |-> n[k]]
      BY Zenon, <2>1, <2>4
    <3> QED BY Zenon, <3>1, <2>1, <2>4, <1>1
  <2> QED BY Zenon, <2>3, <2>4
<1>4. /\ m \in LimiterType /\ m.gen = limiter.gen
      /\ r.count = n => m = limiter
      /\ \A g \in Gens, k \in Keys :
           m.count[g][k] = IF g = limiter.gen THEN r.count[k] ELSE limiter.count[g][k]
  BY SMTT(30), <1>1, <1>3 DEF TypeOK, LimiterType
<1>5. /\ Ask(c, where).slot = IF asked THEN limiter.gen ELSE conn[c].slot
      /\ Ask(c, where).limiter = IF asked THEN m ELSE limiter
      /\ Ask(c, where).ok <=> (asked => r.ok)
  BY Zenon DEF Ask
<1>6. conn[c].slot \in Slots /\ limiter \in LimiterType
  BY Zenon DEF TypeOK, ConnType
<1> HIDE DEF n, r, m, asked
<1>7. /\ ~asked => Ask(c, where).ok /\ Ask(c, where).limiter = limiter
      /\ ~Ask(c, where).ok => asked /\ ~r.ok
      /\ asked /\ Ask(c, where).ok => r.ok
  BY Zenon, <1>5
<1>8. asked /\ r.ok => \A g \in Gens, k \in Keys :
        m.count[g][k] = IF g = limiter.gen /\ k \in Group(Host[c]) THEN n[k] + 1
                        ELSE limiter.count[g][k]
  BY Zenon, <1>3, <1>4 DEF n
<1> QED BY <1>1, <1>3, <1>4, <1>5, <1>6, <1>7, <1>8 DEF Slots, asked, n

-----------------------------------------------------------------------------
(* The counters follow the slots.                                          *)

\* The limits, their groups and the listener are those of the configuration.
LEMMA SameGroups ==
  ASSUME conf' = conf
  PROVE  /\ \A k : Limit(k)' = Limit(k)
         /\ \A h : Group(h)' = Group(h)
         /\ L' = L
BY Zenon DEF Limit, Group, L

\* Finitely many connections hold a slot.
LEMMA HoldersAreFinite ==
  ASSUME NEW g, NEW k
  PROVE  IsFiniteSet(Holders(g, k)) /\ Cardinality(Holders(g, k)) \in Nat
<1>1. Holders(g, k) \in SUBSET Conns
  BY Zenon DEF Holders
<1> QED BY Zenon, <1>1, GensAreNat, FS_Subset, FS_CardinalityType

\* No slot is taken or given back.
LEMMA CountKept ==
  ASSUME Counted, conf' = conf, limiter'.count = limiter.count,
         \A c \in Conns : conn'[c].slot = conn[c].slot
  PROVE  Counted'
<1>1. \A g \in Gens, k \in Keys : Holders(g, k)' = Holders(g, k)
  BY Zenon, SameGroups DEF Holders, Holds
<1> QED BY Zenon, <1>1, SameGroups DEF Counted

\* Some connections give theirs back.
LEMMA CountReleased ==
  ASSUME TypeOK, Counted, NEW cs \in SUBSET Conns, conf' = conf,
         limiter' = Release(limiter, cs),
         \A c \in Conns : conn'[c].slot = IF c \in cs THEN NoSlot ELSE conn[c].slot
  PROVE  Counted'
<1> SUFFICES ASSUME NEW g \in Gens, NEW k \in Keys
             PROVE  /\ limiter'.count[g][k] = Cardinality(Holders(g, k)')
                    /\ Limit(k) > 0 => limiter'.count[g][k] <= Limit(k)
  BY Zenon, SameGroups DEF Counted
<1> DEFINE T == {c \in cs : Holds(c, g, k)}
<1>1. Holders(g, k)' = Holders(g, k) \ T
  BY SameGroups, GensAreNat DEF Holders, Holds
<1>2. Holders(g, k) \cap T = T
  BY Zenon DEF Holders
<1>3. limiter'.count[g][k] = limiter.count[g][k] - Cardinality(T)
  BY Zenon, ReleaseIs
<1>4. /\ Cardinality(Holders(g, k) \ T) = Cardinality(Holders(g, k)) - Cardinality(T)
      /\ Cardinality(T) \in Nat
  BY Zenon, <1>2, HoldersAreFinite, FS_Difference, FS_Intersection, FS_CardinalityType
<1> HIDE DEF T
<1> QED BY <1>1, <1>3, <1>4, HoldersAreFinite, LimitsAreNat DEF Counted

\* A connection takes one of every limit that applies.
LEMMA CountTaken ==
  ASSUME TypeOK, Counted, NEW c \in Conns, NEW where \in {"socket", "accept"},
         conf' = conf, conn[c].slot = NoSlot,
         Ask(c, where).ok, limiter' = Ask(c, where).limiter,
         \A d \in Conns : conn'[d].slot = IF d = c THEN Ask(c, where).slot ELSE conn[d].slot
  PROVE  Counted'
<1> DEFINE asked == L.limits = where /\ Limited(Host[c])
<1>1. CASE ~asked
  BY <1>1, AskIs, CountKept
<1>2. CASE asked
  <2> SUFFICES ASSUME NEW g \in Gens, NEW k \in Keys
               PROVE  /\ limiter'.count[g][k] = Cardinality(Holders(g, k)')
                      /\ Limit(k) > 0 => limiter'.count[g][k] <= Limit(k)
    BY Zenon, SameGroups DEF Counted
  <2>1. limiter.gen \in Gens /\ limiter.count[g][k] \in Int
    BY Zenon DEF TypeOK, LimiterType
  <2>2. CASE g = limiter.gen /\ k \in Group(Host[c])
    <3>1. Holders(g, k)' = Holders(g, k) \cup {c} /\ c \notin Holders(g, k)
      BY SMTT(30), <1>2, <2>2, AskIs, SameGroups, GensAreNat DEF Holders, Holds
    <3>2. limiter'.count[g][k] = limiter.count[g][k] + 1 /\ limiter'.count[g][k] <= Limit(k)
      BY <1>2, <2>2, AskIs
    <3>3. Cardinality(Holders(g, k) \cup {c}) = Cardinality(Holders(g, k)) + 1
      BY Zenon, <3>1, HoldersAreFinite, FS_AddElement
    <3> QED BY Zenon, <3>1, <3>2, <3>3 DEF Counted
  <2>3. CASE ~(g = limiter.gen /\ k \in Group(Host[c]))
    <3>1. Holders(g, k)' = Holders(g, k)
      BY SMTT(30), <1>2, <2>1, <2>3, AskIs, SameGroups, GensAreNat DEF Holders, Holds
    <3>2. limiter'.count[g][k] = limiter.count[g][k]
      BY <1>2, <2>3, AskIs
    <3> QED BY Zenon, <3>1, <3>2 DEF Counted
  <2> QED BY Zenon, <2>2, <2>3
<1> QED BY Zenon, <1>1, <1>2

-----------------------------------------------------------------------------
(* What the shared parts of the actions do.                                *)

\* A connection that is gone holds nothing.
LEMMA GoneIsOK == SlotOK(Gone)
BY Zenon DEF SlotOK, Gone

\* A connection is closed: it is gone with its slot, or is a session again.
LEMMA ClosedIs ==
  ASSUME TypeOK, SlotsOK, Counted, NEW c \in Conns, conf' = conf, Closed(c)
  PROVE  /\ conn' \in ConnType /\ limiter' \in LimiterType /\ limiter'.gen = limiter.gen
         /\ \A d \in Conns \ {c} : conn'[d] = conn[d]
         /\ conn'[c].at \in {"gone", "session"}
         /\ conn'[c].open => conn[c].open
         /\ SlotOK(conn'[c]) /\ Counted'
<1> DEFINE r == conn[c]
<1>1. r \in [at : Places, open : BOOLEAN, slot : Slots] /\ SlotOK(r) /\ conn \in ConnType
  BY Zenon DEF TypeOK, ConnType, SlotsOK
<1>2. CASE L.mux /\ r.open
  <2>1. conn' = [conn EXCEPT ![c] = [r EXCEPT !.at = "session"]] /\ limiter' = limiter
    BY Zenon, <1>2 DEF Closed
  <2> DEFINE q == [r EXCEPT !.at = "session"]
  <2>2. /\ q \in [at : Places, open : BOOLEAN, slot : Slots]
        /\ q.at = "session" /\ q.open = r.open /\ q.slot = r.slot
    BY Zenon, <1>1 DEF Places
  <2>3. SlotOK(q)
    BY Zenon, <1>1, <1>2, <2>2, ListenerIsSane DEF SlotOK, Sane
  <2> HIDE DEF q
  <2>4. conn' \in ConnType /\ conn'[c] = q /\ \A d \in Conns \ {c} : conn'[d] = conn[d]
    BY Zenon, <1>1, <2>1, <2>2 DEF ConnType, q
  <2>5. Counted'
    BY Zenon, <2>1, <2>2, <2>4, CountKept
  <2> QED BY Zenon, <1>2, <2>1, <2>2, <2>3, <2>4, <2>5 DEF TypeOK
<1>3. CASE ~(L.mux /\ r.open)
  <2>1. conn' = [conn EXCEPT ![c] = Gone] /\ limiter' = Release(limiter, {c})
    BY Zenon, <1>3 DEF Closed
  <2>2. conn' \in ConnType /\ conn'[c] = Gone /\ \A d \in Conns \ {c} : conn'[d] = conn[d]
    BY Zenon, <1>1, <2>1, GoneType DEF ConnType
  <2>3. Counted'
    BY <2>1, <2>2, CountReleased DEF Gone
  <2>4. limiter' \in LimiterType /\ limiter'.gen = limiter.gen
    BY Zenon, <2>1, ReleaseIs
  <2> QED BY <2>2, <2>3, <2>4, GoneIsOK DEF Gone
<1> QED BY Zenon, <1>2, <1>3

\* Accept returns a connection that holds no slot yet of what it is asked for.
LEMMA ServesIs ==
  ASSUME TypeOK, SlotsOK, Counted, NEW c \in Conns, NEW where \in {"socket", "accept"},
         conf' = conf, Ask(c, where).ok, Serves(c, Ask(c, where)),
         L.limits = where => conn[c].slot = NoSlot /\ conn[c].open
  PROVE  /\ conn' \in ConnType /\ limiter' \in LimiterType
         /\ \A d \in Conns \ {c} : conn'[d] = conn[d]
         /\ conn'[c].at \in {"gone", "session", "serving"}
         /\ conn'[c].open => conn[c].open
         /\ SlotOK(conn'[c]) /\ Counted'
<1> DEFINE l == Ask(c, where)
           q == [conn[c] EXCEPT !.at = "serving", !.slot = l.slot]
<1>1. CASE conn' = [conn EXCEPT ![c] = q] /\ limiter' = l.limiter
  <2>1. conn[c] \in [at : Places, open : BOOLEAN, slot : Slots] /\ SlotOK(conn[c])
    BY Zenon DEF TypeOK, ConnType, SlotsOK
  <2>2. l.slot \in Slots /\ (L.limits # where => l.slot = conn[c].slot)
        /\ l.limiter \in LimiterType
    BY Zenon, AskIs
  <2> HIDE DEF l
  <2>3. /\ q \in [at : Places, open : BOOLEAN, slot : Slots]
        /\ q.at = "serving" /\ q.open = conn[c].open /\ q.slot = l.slot
    BY Zenon, <2>1, <2>2 DEF Places
  <2>4. SlotOK(q)
    BY Zenon, <2>1, <2>2, <2>3 DEF SlotOK
  <2> HIDE DEF q
  <2>5. conn' \in ConnType /\ conn'[c] = q /\ \A d \in Conns \ {c} : conn'[d] = conn[d]
    BY Zenon, <1>1, <2>3 DEF TypeOK, ConnType
  <2>6. Counted'
    <3>1. CASE L.limits = where
      BY <3>1, <1>1, <2>3, <2>5, CountTaken DEF l
    <3>2. CASE L.limits # where
      <4>1. limiter' = limiter /\ \A d \in Conns : conn'[d].slot = conn[d].slot
        BY SMTT(30), <3>2, <1>1, <2>2, <2>3, <2>5, AskIs DEF l
      <4> QED BY Zenon, <4>1, CountKept
    <3> QED BY Zenon, <3>1, <3>2
  <2> QED BY Zenon, <1>1, <2>2, <2>3, <2>4, <2>5, <2>6
<1>2. CASE Closed(c)
  BY Zenon, <1>2, ClosedIs
<1> QED BY Zenon, <1>1, <1>2 DEF Serves

\* The accept of the feeder fails: Accept or the loop gets the error, and what
\* waits at a socket that is closed by it is reset.
LEMMA FeederGetsIs ==
  ASSUME TypeOK, NEW e \in Errors \ {"nil"}, NEW cs \in ConnType, FeederGets(e, cs), Feeding
  PROVE  /\ conn' \in ConnType
         /\ \A c \in Conns : conn'[c] = cs[c] \/ (cs[c].at = "backlog" /\ conn'[c] = Gone)
         /\ \/ /\ L.feeds = "accept" /\ ln' = ln /\ svc' = GetsError(svc, e)
            \/ /\ L.feeds = "remote" /\ ln' = [ln EXCEPT !.sock = None]
               /\ svc' = GetsError(svc, "accept")
            \/ /\ L.feeds = "loop" /\ svc' = svc
               /\ ln' = [ln EXCEPT !.loop = FALSE, !.err = <<e>>, !.done = TRUE]
            \/ /\ L.feeds = "server" /\ e \in Temporary /\ svc' = svc /\ ln' = ln
            \/ /\ L.feeds = "server" /\ e \notin Temporary /\ svc' = svc
               /\ ln' = [ln EXCEPT !.loop = FALSE, !.sock = "closed",
                                   !.err = IF L.tells THEN <<e>> ELSE @, !.done = @ \/ L.tells]
<1>1. L.feeds \in {"accept", "remote", "loop", "server"}
  BY Zenon DEF Feeding
<1>2. CASE L.feeds = "accept"
  BY Zenon, <1>2 DEF FeederGets
<1>3. CASE L.feeds = "remote"
  BY Zenon, <1>3, ResetIs DEF FeederGets
<1>4. CASE L.feeds = "loop"
  BY Zenon, <1>4 DEF FeederGets
<1>5. CASE L.feeds = "server" /\ e \in Temporary
  BY Zenon, <1>5 DEF FeederGets
<1>6. CASE L.feeds = "server" /\ e \notin Temporary
  BY Zenon, <1>6, ResetIs DEF FeederGets
<1> QED BY Zenon, <1>1, <1>2, <1>3, <1>4, <1>5, <1>6

-----------------------------------------------------------------------------
(* What a step keeps, by what it leaves alone.                             *)

\* Slots, of each connection.
LEMMA SlotsNext ==
  ASSUME conf' = conf, \A c \in Conns : SlotOK(conn'[c])
  PROVE  SlotsOK'
BY Zenon, SameGroups DEF SlotsOK, SlotOK

\* The queue is as it was, and what is in it stays there.
LEMMA QueueKept ==
  ASSUME TypeOK, QueueOK, ln'.queue = ln.queue,
         \A c \in Conns : conn[c].at = "queued" => conn'[c].at = "queued"
  PROVE  QueueOK'
<1>1. \A i \in DOMAIN ln.queue : ln.queue[i] \in Conns
  BY DEF TypeOK, LnType
<1> QED BY Zenon, <1>1 DEF QueueOK

\* A connection that was elsewhere is put at the end of the queue.
LEMMA QueueGrows ==
  ASSUME TypeOK, QueueOK, NEW c \in Conns, conn[c].at # "queued",
         ln'.queue = Append(ln.queue, c), conn'[c].at = "queued",
         \A d \in Conns \ {c} : conn'[d].at = conn[d].at
  PROVE  QueueOK'
<1> DEFINE q == ln.queue
<1>1. q \in Seq(Conns) /\ \A i \in DOMAIN q : q[i] \in Conns /\ conn[q[i]].at = "queued"
  BY DEF TypeOK, LnType, QueueOK
<1>2. \A i, j \in DOMAIN q : q[i] = q[j] => i = j
  BY Zenon DEF QueueOK
<1> HIDE DEF q
<1>3. \A i \in DOMAIN Append(q, c) : \/ i \in DOMAIN q /\ Append(q, c)[i] = q[i]
                                     \/ i = Len(q) + 1 /\ Append(q, c)[i] = c
  <2>1. /\ Len(q) \in Nat /\ DOMAIN q = 1..Len(q) /\ DOMAIN Append(q, c) = 1..(Len(q) + 1)
        /\ \A i \in 1..Len(q) : Append(q, c)[i] = q[i]
        /\ Append(q, c)[Len(q) + 1] = c
    BY <1>1
  <2> DEFINE n == Len(q)
             p == Append(q, c)
  <2> HIDE DEF n, p
  <2>2. \A i \in 1..(n + 1) : i \in 1..n \/ i = n + 1
    BY <2>1 DEF n
  <2> QED BY Zenon, <2>1, <2>2 DEF n, p
<1>4. \A i \in DOMAIN q : q[i] # c
  BY Zenon, <1>1
<1> QED BY <1>1, <1>2, <1>3, <1>4 DEF QueueOK, q

\* The pool: connections that have arrived do not open again.
LEMMA PoolKept ==
  ASSUME TypeOK, PoolOK, conf' = conf, udp' = udp,
         \A c \in Conns : conn[c].at # "away" =>
              conn'[c].at # "away" /\ (conn'[c].open => conn[c].open)
  PROVE  PoolOK'
<1>1. /\ udp.check \in Conns \cup {None} /\ udp.new \in Conns \cup {None}
      /\ \A h \in Hosts : udp.pool[h] \in Conns \cup {None}
  BY Zenon DEF TypeOK, UdpType
<1> QED BY Zenon, <1>1, SameGroups, HostsAreKeys DEF PoolOK, IsOpen, Pooled

\* Serve stops for what it has got, or has stopped.
LEMMA ReasonsKept ==
  ASSUME TypeOK, ReasonsOK, Survives, conf' = conf,
         faults' \in 0..MaxFaults, faults' <= faults,
         svc'.closes = svc.closes, svc'.closing = svc.closing, ln'.closed = ln.closed, ln'.loop = ln.loop,
         ln'.err = ln.err, ln'.done = ln.done, ln'.sock = ln.sock \/ ln'.sock # "closed",
         svc.serve \in Ended \cup {"crashed", "exited"} =>
            svc'.serve \in Ended \cup {"crashed", "exited"},
         svc'.serve \in Ended =>
            \/ svc.serve \in Ended /\ svc'.err = svc.err
            \/ svc'.err \in {"limit", "packet", "fatal"}
            \/ svc.closes > 0 \/ StopsOnTemporary
  PROVE  ReasonsOK' /\ Survives'
<1>1. /\ StopsOnTemporary => StopsOnTemporary'
      /\ svc.closes \in Nat
  BY SameGroups, BoundsAssumption DEF StopsOnTemporary, TypeOK, SvcType
<1>2. ReasonsOK'
  BY Zenon, <1>1, SameGroups DEF ReasonsOK
<1>3. Survives'
  BY Zenon, <1>1 DEF Survives, StopsOnRefusal
<1> QED BY Zenon, <1>2, <1>3

\* The feeder of a service that nobody has closed meets no closed socket.
LEMMA FeederKeepsReasons ==
  ASSUME IInv, NEW e \in Errors \ {"nil"}, NEW cs \in ConnType, FeederGets(e, cs), Feeding,
         conf' = conf, faults' \in 0..MaxFaults, faults' <= faults,
         e = "temporary" => faults' < MaxFaults, e = "closed" => ln.sock = "closed"
  PROVE  /\ ReasonsOK' /\ Survives' /\ svc' \in SvcType /\ ln' \in LnType
         /\ ln'.queue = ln.queue
<1>1. /\ TypeOK /\ ReasonsOK /\ Survives /\ svc \in SvcType /\ ln \in LnType
      /\ svc.closes \in Nat
  BY Zenon DEF IInv, TypeOK, SvcType
<1>2. CASE L.feeds = "accept"
  <2>1. ln' = ln /\ svc' = GetsError(svc, e)
    BY Zenon, <1>1, <1>2, FeederGetsIs
  <2>2. svc.closes = 0 => e # "closed"
    BY Zenon, <1>1, <1>2 DEF ReasonsOK
  <2>3. svc.serve = "accept"
    BY Zenon, <1>2 DEF Feeding
  <2>4. /\ svc' \in SvcType /\ svc'.closes = svc.closes /\ svc'.closing = svc.closing
        /\ svc'.serve \in {"crashed", "backoff", "draining"}
        /\ svc'.serve = "draining" => svc'.err = e /\ e \notin Temporary \cup {"nil"}
    BY Zenon, <1>1, <2>1, GetsErrorIs
  <2>5. svc'.serve \in Ended => svc'.err \in {"limit", "packet", "fatal"} \/ svc.closes > 0
    BY <1>1, <2>2, <2>4 DEF Ended, Errors, Temporary
  <2>6. ReasonsOK' /\ Survives'
    BY Zenon, <1>1, <2>1, <2>3, <2>4, <2>5, ReasonsKept DEF Ended
  <2> QED BY Zenon, <1>1, <2>1, <2>4, <2>6
<1>3. CASE L.feeds = "remote"
  <2>1. ln' = [ln EXCEPT !.sock = None] /\ svc' = GetsError(svc, "accept")
    BY Zenon, <1>1, <1>3, FeederGetsIs
  <2>2. svc.serve = "waiting"
    BY Zenon, <1>3 DEF Feeding
  <2>3. /\ svc' \in SvcType /\ svc'.closes = svc.closes /\ svc'.closing = svc.closing
        /\ svc'.serve \in {"crashed", "backoff"}
    BY Zenon, <1>1, <2>1, GetsErrorIs DEF Temporary
  <2>4. /\ ln' \in LnType /\ ln'.queue = ln.queue /\ ln'.sock = None
        /\ ln'.closed = ln.closed /\ ln'.loop = ln.loop /\ ln'.err = ln.err /\ ln'.done = ln.done
    BY Zenon, <1>1, <2>1 DEF LnType
  <2>5. ReasonsOK' /\ Survives'
    BY Zenon, <1>1, <2>2, <2>3, <2>4, ReasonsKept DEF Ended, None
  <2> QED BY Zenon, <2>3, <2>4, <2>5
<1>4. CASE L.feeds = "loop"
  <2>1. svc' = svc /\ ln' = [ln EXCEPT !.loop = FALSE, !.err = <<e>>, !.done = TRUE]
    BY Zenon, <1>1, <1>4, FeederGetsIs
  <2>2. /\ ln' \in LnType /\ ln'.queue = ln.queue /\ ln'.sock = ln.sock
        /\ ln'.closed = ln.closed /\ ln'.loop = FALSE /\ ln'.err = <<e>>
    <3>1. <<e>> \in Sent
      BY Zenon DEF Sent
    <3> DEFINE x == <<e>>
    <3> HIDE DEF x
    <3> QED BY Zenon, <1>1, <2>1, <3>1 DEF LnType, x
  <2>3. /\ svc.closes = 0 => e # "closed"
        /\ svc.closes = 0 => ln.sock # "closed" /\ ~ln.closed /\ svc.closing = "no"
    BY Zenon, <1>1, <1>4 DEF ReasonsOK
  <2>4. faults' < MaxFaults => StopsOnTemporary'
    BY Zenon, <1>4, <2>2, SameGroups DEF StopsOnTemporary
  <2>5. StopsOnTemporary => StopsOnTemporary'
    BY <1>1, <2>4, BoundsAssumption DEF StopsOnTemporary, TypeOK
  <2>6. e \in {"limit", "packet", "fatal", "temporary", "closed"} /\ Head(<<e>>) = e
    BY DEF Errors
  <2>7. ReasonsOK'
    BY <2>1, <2>2, <2>3, <2>4, <2>6 DEF ReasonsOK
  <2>8. Survives'
    BY Zenon, <1>1, <2>1, <2>5 DEF Survives, StopsOnRefusal
  <2> QED BY Zenon, <1>1, <2>1, <2>2, <2>7, <2>8
<1>5. CASE L.feeds = "server" /\ e \in Temporary
  <2>1. svc' = svc /\ ln' = ln
    BY Zenon, <1>1, <1>5, FeederGetsIs DEF Temporary
  <2> QED BY Zenon, <1>1, <2>1, ReasonsKept
<1>6. CASE L.feeds = "server" /\ e \notin Temporary
  <2>1. /\ svc' = svc
        /\ ln' = [ln EXCEPT !.loop = FALSE, !.sock = "closed",
                            !.err = IF L.tells THEN <<e>> ELSE @, !.done = @ \/ L.tells]
    BY Zenon, <1>1, <1>6, FeederGetsIs
  <2>2. /\ ln' \in LnType /\ ln'.queue = ln.queue
        /\ ln'.closed = ln.closed /\ ln'.loop = FALSE
        /\ ln'.err = <<e>> \/ (ln'.err = ln.err /\ ln'.done = ln.done)
    <3> DEFINE x == IF L.tells THEN <<e>> ELSE ln.err
               y == ln.done \/ L.tells
    <3>1. ln' = [ln EXCEPT !.loop = FALSE, !.sock = "closed", !.err = x, !.done = y]
      BY Zenon, <2>1
    <3>2. /\ x \in Sent /\ y \in BOOLEAN
          /\ x = <<e>> \/ (x = ln.err /\ y = ln.done)
      BY Zenon, <1>1 DEF LnType, Sent
    <3> HIDE DEF x, y
    <3> QED BY Zenon, <1>1, <3>1, <3>2 DEF LnType
  <2>3. ln.loop /\ (svc.closes = 0 => e # "closed" /\ ~ln.closed /\ svc.closing = "no")
    BY Zenon, <1>1, <1>6 DEF ReasonsOK, Feeding
  <2>4. e \in {"limit", "packet", "fatal", "closed"} /\ Head(<<e>>) = e
    BY <1>6 DEF Errors, Temporary
  <2>5. ~StopsOnTemporary
    BY Zenon, <1>6 DEF StopsOnTemporary
  <2>6. ReasonsOK'
    <3>1. L' = L
      BY Zenon, SameGroups
    <3>2. CASE ln'.err = <<e>>
      BY <3>1, <3>2, <1>6, <2>1, <2>2, <2>3, <2>4 DEF ReasonsOK
    <3>3. CASE ln'.err = ln.err /\ ln'.done = ln.done
      BY Zenon, <3>1, <3>3, <1>1, <1>6, <2>1, <2>2, <2>3, <2>5 DEF ReasonsOK
    <3> QED BY Zenon, <2>2, <3>2, <3>3
  <2>7. Survives'
    BY Zenon, <1>1, <2>1, <2>5 DEF Survives, StopsOnRefusal
  <2> QED BY Zenon, <1>1, <2>1, <2>2, <2>6, <2>7
<1> QED BY Zenon, <1>2, <1>3, <1>4, <1>5, <1>6 DEF Feeding

\* The head of the queue leaves it.
LEMMA QueueShrinks ==
  ASSUME TypeOK, QueueOK, ln.queue # <<>>
  PROVE  /\ Head(ln.queue) \in Conns /\ conn[Head(ln.queue)].at = "queued"
         /\ Tail(ln.queue) \in Seq(Conns)
         /\ (/\ ln'.queue = Tail(ln.queue)
             /\ \A d \in Conns \ {Head(ln.queue)} : conn'[d].at = conn[d].at)
            => QueueOK'
<1> DEFINE q == ln.queue
           t == Tail(q)
<1>1. /\ q \in Seq(Conns) /\ q # <<>>
      /\ \A i \in DOMAIN q : q[i] \in Conns /\ conn[q[i]].at = "queued"
  BY DEF TypeOK, LnType, QueueOK
<1>2. \A i, j \in DOMAIN q : q[i] = q[j] => i = j
  BY Zenon DEF QueueOK
<1> HIDE DEF q
<1>3. /\ Len(q) \in Nat /\ Len(q) > 0 /\ DOMAIN q = 1..Len(q) /\ Head(q) = q[1]
      /\ t \in Seq(Conns) /\ DOMAIN t = 1..(Len(q) - 1)
      /\ \A i \in 1..(Len(q) - 1) : t[i] = q[i + 1]
  BY <1>1
<1> DEFINE n == Len(q)
<1> HIDE DEF n, t
<1>4. /\ 1 \in DOMAIN q
      /\ \A i \in DOMAIN t : i + 1 \in DOMAIN q /\ i + 1 # 1 /\ t[i] = q[i + 1] /\ i \in Int
  BY <1>3 DEF n
<1>5. \A i \in DOMAIN t : t[i] \in Conns \ {q[1]} /\ conn[t[i]].at = "queued"
  BY <1>1, <1>2, <1>4
<1>6. \A i, j \in DOMAIN t : t[i] = t[j] => i = j
  <2> SUFFICES ASSUME NEW i \in DOMAIN t, NEW j \in DOMAIN t, t[i] = t[j] PROVE i = j
    BY Zenon
  <2>1. i + 1 = j + 1
    BY Zenon, <1>2, <1>4
  <2> QED BY <2>1, <1>4
<1>7. ASSUME ln'.queue = t, \A d \in Conns \ {q[1]} : conn'[d].at = conn[d].at
      PROVE  QueueOK'
  BY Zenon, <1>5, <1>6, <1>7 DEF QueueOK
<1>8. /\ q[1] \in Conns /\ conn[q[1]].at = "queued" /\ t \in Seq(Conns)
      /\ q = ln.queue /\ t = Tail(ln.queue) /\ Head(ln.queue) = q[1]
  BY Zenon, <1>1, <1>3, <1>4 DEF q, t
<1> HIDE DEF t
<1> QED BY Zenon, <1>7, <1>8

-----------------------------------------------------------------------------
(* The first state.                                                        *)

\* Nothing has arrived, nothing is counted, nothing has failed.
LEMMA InitIInv == Init => IInv
<1> SUFFICES ASSUME Init PROVE IInv
  BY Zenon
<1> DEFINE r == [at |-> "away", open |-> FALSE, slot |-> NoSlot]
<1>1. r \in [at : Places, open : BOOLEAN, slot : Slots] /\ SlotOK(r)
  BY Zenon DEF Places, Slots, SlotOK
<1>2. conn = [c \in Conns |-> r]
  BY Zenon DEF Init
<1> HIDE DEF r
<1>3. conn \in ConnType /\ \A c \in Conns : conn[c] = r
  BY Zenon, <1>1, <1>2 DEF ConnType
<1>4. SlotsOK
  BY Zenon, <1>1, <1>3 DEF SlotsOK
<1>5. limiter \in LimiterType /\ \A g \in Gens, k \in Keys : limiter.count[g][k] = 0
  <2>1. limiter = [gen |-> 0, count |-> [g \in Gens |-> [k \in Keys |-> 0]]]
    BY Zenon DEF Init
  <2>2. 0 \in Gens
    BY BoundsAssumption DEF Gens
  <2>3. [g \in Gens |-> [k \in Keys |-> 0]] \in [Gens -> [Keys -> Int]]
    OBVIOUS
  <2> QED BY Zenon, <2>1, <2>2, <2>3 DEF LimiterType
<1>6. TypeOK
  <2>1. /\ L = Listener[conf.kind]
        /\ ln = [sock |-> IF L.feeds = "remote" THEN None ELSE "open",
                 loop |-> L.feeds \in {"loop", "server", "device", "packets"},
                 err |-> <<>>, done |-> FALSE, queue |-> <<>>, closed |-> FALSE]
    BY Zenon DEF Init, L
  <2>2. ln \in LnType
    BY SMTT(30), <2>1 DEF LnType, Sent
  <2>3. svc \in SvcType /\ udp \in UdpType /\ faults \in 0..MaxFaults /\ conf \in Confs
    BY BoundsAssumption DEF Init, NoClients, SvcType, UdpType, Stages
  <2> QED BY Zenon, <1>3, <1>5, <2>2, <2>3 DEF TypeOK
<1>7. Counted
  <2> SUFFICES ASSUME NEW g \in Gens, NEW k \in Keys
               PROVE  /\ limiter.count[g][k] = Cardinality(Holders(g, k))
                      /\ Limit(k) > 0 => limiter.count[g][k] <= Limit(k)
    BY Zenon DEF Counted
  <2>1. Holders(g, k) = {}
    BY <1>3, GensAreNat DEF Holders, Holds, r
  <2>2. Limit(k) \in Nat
    BY Zenon, <1>6, LimitsAreNat
  <2> QED BY <1>5, <2>1, <2>2, FS_EmptySet
<1>8. QueueOK
  <2>1. ln.queue = <<>> /\ conn = [c \in Conns |-> r]
    BY Zenon, <1>2 DEF Init
  <2> QED BY <1>3, <2>1 DEF QueueOK, r
<1>9. ReasonsOK /\ Survives
  BY Zenon DEF Init, ReasonsOK, Survives, Ended, None
<1>10. PoolOK
  BY Zenon, HostsAreKeys DEF Init, NoClients, PoolOK, Pooled
<1> QED BY Zenon, <1>4, <1>6, <1>7, <1>8, <1>9, <1>10 DEF IInv

-----------------------------------------------------------------------------
(* The steps of Serve.                                                     *)

\* At most the backlog is lost.
LEMMA ConnsAlone ==
  ASSUME IInv, conf' = conf, udp' = udp, limiter'.count = limiter.count,
         ln'.queue = ln.queue, conn' \in ConnType,
         \A c \in Conns : conn'[c] = conn[c] \/ (conn[c].at = "backlog" /\ conn'[c] = Gone)
  PROVE  QueueOK' /\ SlotsOK' /\ Counted' /\ PoolOK'
<1>1. TypeOK /\ QueueOK /\ SlotsOK /\ Counted /\ PoolOK
  BY Zenon DEF IInv
<1>2. \A c \in Conns : conn[c].at = "backlog" => conn[c].slot = NoSlot
  BY Zenon, <1>1 DEF SlotsOK, SlotOK
<1>3. \A c \in Conns : conn'[c].slot = conn[c].slot
  BY <1>2 DEF Gone
<1>4. SlotsOK'
  BY Zenon, <1>1, GoneIsOK, SlotsNext DEF SlotsOK
<1>5. QueueOK'
  BY Zenon, <1>1, QueueKept
<1>6. PoolOK'
  <2>1. \A c \in Conns : conn[c].at # "away" =>
          conn'[c].at # "away" /\ (conn'[c].open => conn[c].open)
    BY DEF Gone
  <2> QED BY Zenon, <1>1, <2>1, PoolKept
<1>7. Counted'
  BY Zenon, <1>1, <1>3, CountKept
<1> QED BY Zenon, <1>4, <1>5, <1>6, <1>7

\* Serve goes on, or returns once it has drained.
LEMMA RetryKeeps == IInv /\ (Retry \/ Return \/ Bind) => IInv'
<1> SUFFICES ASSUME IInv, Retry \/ Return \/ Bind PROVE IInv'
  BY Zenon
<1>1. /\ TypeOK /\ ReasonsOK /\ Survives /\ svc \in SvcType /\ conn \in ConnType
      /\ faults \in 0..MaxFaults
  BY Zenon DEF IInv, TypeOK
<1>2. UNCHANGED <<conf, ln, conn, limiter, udp, faults>>
  BY Zenon DEF Retry, Return, Bind
<1>3. /\ svc' \in SvcType /\ svc'.closes = svc.closes /\ svc'.closing = svc.closing
      /\ svc'.err = svc.err
      /\ svc.serve \in Ended => svc'.serve \in Ended
      /\ svc.serve \notin {"crashed", "exited"}
      /\ svc'.serve \in Ended => svc.serve \in Ended
  BY Zenon, <1>1 DEF Retry, Return, Bind, SvcType, Stages, Ended
<1>4. QueueOK' /\ SlotsOK' /\ Counted' /\ PoolOK'
  BY Zenon, <1>1, <1>2, ConnsAlone
<1>5. ReasonsOK' /\ Survives'
  BY <1>1, <1>2, <1>3, ReasonsKept, BoundsAssumption
<1>6. TypeOK'
  BY Zenon, <1>1, <1>2, <1>3 DEF TypeOK
<1> QED BY Zenon, <1>4, <1>5, <1>6 DEF IInv

\* The queued connection is served or closed, or is over the limit.
LEMMA AcceptQueuedKeeps == IInv /\ AcceptQueued => IInv'
<1> SUFFICES ASSUME IInv, AcceptQueued PROVE IInv'
  BY Zenon
<1> DEFINE c == Head(ln.queue)
           l == Ask(c, "accept")
<1>1. /\ TypeOK /\ QueueOK /\ SlotsOK /\ Counted /\ ReasonsOK /\ Survives /\ PoolOK
      /\ svc \in SvcType /\ conn \in ConnType /\ ln \in LnType /\ limiter \in LimiterType
      /\ faults \in 0..MaxFaults
  BY Zenon DEF IInv, TypeOK
<1>2. /\ UNCHANGED <<conf, udp, faults>> /\ ln' = [ln EXCEPT !.queue = Tail(@)]
      /\ svc.serve = "accept" /\ ln.queue # <<>>
  BY Zenon DEF AcceptQueued
<1>3. c \in Conns /\ conn[c].at = "queued" /\ Tail(ln.queue) \in Seq(Conns)
  BY Zenon, <1>1, <1>2, QueueShrinks
<1>4. L.limits = "accept" => conn[c].slot = NoSlot /\ conn[c].open
  BY Zenon, <1>1, <1>3 DEF SlotsOK, SlotOK
<1>5. \/ l.ok /\ Serves(c, l) /\ svc' = svc
      \/ /\ ~l.ok /\ conn' = [conn EXCEPT ![c] = Gone] /\ limiter' = l.limiter
         /\ svc' = GetsError(svc, "limit")
  BY Zenon DEF AcceptQueued
<1>6. /\ conn' \in ConnType /\ limiter' \in LimiterType
      /\ \A d \in Conns \ {c} : conn'[d] = conn[d]
      /\ conn'[c].at \in {"gone", "session", "serving"}
      /\ conn'[c].open => conn[c].open
      /\ SlotOK(conn'[c]) /\ Counted'
  <2> HIDE DEF c
  <2>1. CASE l.ok /\ Serves(c, l)
    BY Zenon, <1>1, <1>2, <1>3, <1>4, <2>1, ServesIs
  <2>2. CASE ~l.ok /\ conn' = [conn EXCEPT ![c] = Gone] /\ limiter' = l.limiter
    <3>1. limiter' = limiter /\ L.limits = "accept"
      BY Zenon, <1>1, <1>3, <2>2, AskIs
    <3>2. conn' \in ConnType /\ conn'[c] = Gone /\ \A d \in Conns \ {c} : conn'[d] = conn[d]
      BY Zenon, <1>1, <1>3, <2>2, GoneType DEF ConnType
    <3>3. \A d \in Conns : conn'[d].slot = conn[d].slot
      BY <1>3, <1>4, <3>1, <3>2 DEF Gone
    <3> QED BY SMTT(30), <1>1, <1>2, <3>1, <3>2, <3>3, CountKept, GoneIsOK DEF Gone
  <2> QED BY Zenon, <1>5, <2>1, <2>2
<1>7. SlotsOK'
  BY Zenon, <1>1, <1>2, <1>6, SlotsNext DEF SlotsOK
<1>8. /\ ln' \in LnType /\ ln'.queue = Tail(ln.queue)
      /\ ln'.closed = ln.closed /\ ln'.loop = ln.loop /\ ln'.err = ln.err
      /\ ln'.done = ln.done /\ ln'.sock = ln.sock
  BY Zenon, <1>1, <1>2, <1>3 DEF LnType
<1>9. QueueOK'
  BY Zenon, <1>1, <1>2, <1>6, <1>8, QueueShrinks
<1>10. PoolOK'
  BY Zenon, <1>1, <1>2, <1>6, PoolKept
<1>11. /\ svc' \in SvcType /\ svc'.closes = svc.closes /\ svc'.closing = svc.closing
       /\ svc'.serve \in Ended => svc'.err = "limit"
  BY <1>1, <1>2, <1>5, GetsErrorIs DEF Ended, Errors
<1>12. ReasonsOK' /\ Survives'
  BY <1>1, <1>2, <1>8, <1>11, ReasonsKept, BoundsAssumption DEF Ended
<1>13. TypeOK'
  BY Zenon, <1>1, <1>2, <1>6, <1>8, <1>11 DEF TypeOK
<1> QED BY Zenon, <1>6, <1>7, <1>9, <1>10, <1>12, <1>13 DEF IInv

\* What the feeder has sent says why it ended.
LEMMA AcceptErrorKeeps == IInv /\ AcceptError => IInv'
<1> SUFFICES ASSUME IInv, AcceptError PROVE IInv'
  BY Zenon
<1>1. /\ TypeOK /\ ReasonsOK /\ Survives /\ svc \in SvcType /\ conn \in ConnType
      /\ ln \in LnType /\ faults \in 0..MaxFaults /\ svc.closes \in Nat
  BY Zenon DEF IInv, TypeOK, SvcType
<1>2. UNCHANGED <<conf, conn, limiter, udp, faults>> /\ svc.serve = "accept"
  BY Zenon DEF AcceptError
<1>3. CASE /\ ln.err # <<>> /\ svc' = GetsError(svc, Head(ln.err))
           /\ ln' = [ln EXCEPT !.err = Tail(@)]
  <2>1. PICK e \in Errors : ln.err = <<e>>
    BY Zenon, <1>1, <1>3 DEF LnType, Sent
  <2>2. Head(ln.err) = e /\ Tail(ln.err) = <<>> /\ ln.err # <<>>
    BY <2>1
  <2>3. /\ ln' \in LnType /\ ln'.queue = ln.queue /\ ln'.err = <<>> /\ ln'.closed = ln.closed
        /\ ln'.loop = ln.loop /\ ln'.done = ln.done /\ ln'.sock = ln.sock
    BY Zenon, <1>1, <1>3, <2>2 DEF LnType, Sent
  <2>4. /\ svc' \in SvcType /\ svc'.closes = svc.closes /\ svc'.closing = svc.closing
        /\ svc'.serve \in {"crashed", "backoff", "draining"}
        /\ svc'.serve = "draining" => svc'.err = e /\ e \notin Temporary \cup {"nil"}
    BY <1>1, <1>3, <2>2, GetsErrorIs
  <2>5. e \in {"limit", "packet", "fatal"} => svc'.serve = "draining"
    BY Zenon, <1>3, <2>2, <1>1 DEF GetsError, Temporary, SvcType
  <2>6. StopsOnTemporary' <=> StopsOnTemporary
    BY Zenon, <1>2, <2>3, SameGroups DEF StopsOnTemporary
  <2>7. svc.closes = 0 => \/ e \in {"limit", "packet", "fatal"}
                          \/ e = "temporary" /\ StopsOnTemporary
    BY Zenon, <1>1, <2>2 DEF ReasonsOK
  <2>8. ReasonsOK'
    BY Zenon, <1>1, <1>2, <2>3, <2>4, <2>5, <2>6, <2>7, SameGroups DEF ReasonsOK, Ended
  <2>9. Survives'
    BY SMTT(30), <1>1, <2>4, <2>6, <2>7 DEF Survives, StopsOnRefusal, Ended, Temporary
  <2> QED BY Zenon, <1>1, <1>2, <2>3, <2>4, <2>8, <2>9, ConnsAlone DEF IInv, TypeOK
<1>4. CASE /\ ln.closed \/ (ln.done /\ ln.err = <<>>)
           /\ svc' = GetsError(svc, "closed") /\ ln' = ln
  <2>1. svc.closes > 0 \/ StopsOnTemporary
    BY <1>1, <1>2, <1>4 DEF ReasonsOK, Ended
  <2>2. svc' \in SvcType /\ svc'.closes = svc.closes /\ svc'.closing = svc.closing
    BY Zenon, <1>1, <1>4, GetsErrorIs DEF Errors
  <2>3. ReasonsOK' /\ Survives'
    BY <1>1, <1>2, <1>4, <2>1, <2>2, ReasonsKept, BoundsAssumption DEF Ended
  <2> QED BY Zenon, <1>1, <1>2, <1>4, <2>2, <2>3, ConnsAlone DEF IInv, TypeOK
<1> QED BY Zenon, <1>3, <1>4 DEF AcceptError

\* A binding that fails is tried again, one that succeeds is looked at.
LEMMA BindReturnsKeeps == IInv /\ BindReturns => IInv'
<1> SUFFICES ASSUME IInv, BindReturns PROVE IInv'
  BY Zenon
<1>1. /\ TypeOK /\ ReasonsOK /\ Survives /\ svc \in SvcType /\ conn \in ConnType
      /\ ln \in LnType /\ faults \in 0..MaxFaults
  BY Zenon DEF IInv, TypeOK
<1>2. UNCHANGED <<conf, conn, limiter, udp>> /\ svc.serve = "binding"
  BY Zenon DEF BindReturns
<1>3. CASE /\ ln' = [ln EXCEPT !.sock = "open"] /\ faults' = faults
           /\ svc' = [svc EXCEPT !.serve = "bound"]
  <2>1. /\ ln' \in LnType /\ ln'.queue = ln.queue /\ ln'.sock = "open"
        /\ ln'.closed = ln.closed /\ ln'.loop = ln.loop /\ ln'.err = ln.err /\ ln'.done = ln.done
    BY Zenon, <1>1, <1>3 DEF LnType
  <2>2. /\ svc' \in SvcType /\ svc'.closes = svc.closes /\ svc'.closing = svc.closing
        /\ svc'.serve = "bound"
    BY Zenon, <1>1, <1>3 DEF SvcType, Stages
  <2>3. ReasonsOK' /\ Survives'
    BY SMTT(30), <1>1, <1>2, <1>3, <2>1, <2>2, ReasonsKept, BoundsAssumption DEF Ended
  <2> QED BY Zenon, <1>1, <1>2, <1>3, <2>1, <2>2, <2>3, ConnsAlone DEF IInv, TypeOK
<1>4. CASE faults > 0 /\ faults' = faults - 1 /\ svc' = GetsError(svc, "bind") /\ ln' = ln
  <2>1. faults' \in 0..MaxFaults /\ faults' <= faults
    BY <1>1, <1>4, BoundsAssumption
  <2>2. /\ svc' \in SvcType /\ svc'.closes = svc.closes /\ svc'.closing = svc.closing
        /\ svc'.serve \in {"crashed", "backoff"}
    BY Zenon, <1>1, <1>4, GetsErrorIs DEF Temporary
  <2>3. ReasonsOK' /\ Survives'
    BY Zenon, <1>1, <1>2, <1>4, <2>1, <2>2, ReasonsKept DEF Ended
  <2> QED BY Zenon, <1>1, <1>2, <1>4, <2>1, <2>2, <2>3, ConnsAlone DEF IInv, TypeOK
<1> QED BY Zenon, <1>3, <1>4 DEF BindReturns

\* A listener that is closed by then was closed by Close.
LEMMA BoundKeeps == IInv /\ Bound => IInv'
<1> SUFFICES ASSUME IInv, Bound PROVE IInv'
  BY Zenon
<1>1. /\ TypeOK /\ ReasonsOK /\ Survives /\ svc \in SvcType /\ conn \in ConnType
      /\ ln \in LnType /\ faults \in 0..MaxFaults /\ svc.closes \in Nat
  BY Zenon DEF IInv, TypeOK, SvcType
<1>2. UNCHANGED <<conf, limiter, udp, faults>> /\ svc.serve = "bound"
  BY Zenon DEF Bound
<1>3. CASE /\ ln.closed /\ ln' = [ln EXCEPT !.sock = "closed"]
           /\ conn' = Reset(conn) /\ svc' = GetsError(svc, "closed")
  <2>1. ln' \in LnType /\ ln'.queue = ln.queue
    BY Zenon, <1>1, <1>3 DEF LnType
  <2>2. svc' \in SvcType /\ svc'.closes = svc.closes
    BY Zenon, <1>1, <1>3, GetsErrorIs DEF Errors
  <2>3. svc.closes > 0
    BY <1>1, <1>3 DEF ReasonsOK
  <2>4. ReasonsOK' /\ Survives'
    BY <2>2, <2>3 DEF ReasonsOK, Survives
  <2>5. /\ conn' \in ConnType
        /\ \A c \in Conns : conn'[c] = conn[c] \/ (conn[c].at = "backlog" /\ conn'[c] = Gone)
    BY Zenon, <1>1, <1>3, ResetIs
  <2> QED BY Zenon, <1>1, <1>2, <2>1, <2>2, <2>4, <2>5, ConnsAlone DEF IInv, TypeOK
<1>4. CASE svc' = [svc EXCEPT !.serve = "waiting"] /\ ln' = ln /\ conn' = conn
  <2>1. /\ svc' \in SvcType /\ svc'.closes = svc.closes /\ svc'.closing = svc.closing
        /\ svc'.serve = "waiting"
    BY Zenon, <1>1, <1>4 DEF SvcType, Stages
  <2>2. ReasonsOK' /\ Survives'
    BY SMTT(30), <1>1, <1>2, <1>4, <2>1, ReasonsKept, BoundsAssumption DEF Ended
  <2> QED BY Zenon, <1>1, <1>2, <1>4, <2>1, <2>2, ConnsAlone DEF IInv, TypeOK
<1> QED BY Zenon, <1>3, <1>4 DEF Bound

-----------------------------------------------------------------------------
(* The steps of the feeder.                                                *)

\* The accept of the feeder fails, with at most a connection of the backlog
\* gone.
LEMMA FeederKeeps ==
  ASSUME IInv, Feeding, NEW e \in Errors \ {"nil"}, NEW cs \in ConnType, FeederGets(e, cs),
         conf' = conf, udp' = udp, limiter' = limiter,
         faults' \in 0..MaxFaults, faults' <= faults,
         e = "temporary" => faults' < MaxFaults, e = "closed" => ln.sock = "closed",
         \A c \in Conns : cs[c] = conn[c] \/ (conn[c].at = "backlog" /\ cs[c] = Gone)
  PROVE  IInv'
<1>1. TypeOK /\ limiter \in LimiterType /\ udp \in UdpType /\ conf \in Confs
  BY Zenon DEF IInv, TypeOK
<1>2. /\ conn' \in ConnType
      /\ \A c \in Conns : conn'[c] = cs[c] \/ (cs[c].at = "backlog" /\ conn'[c] = Gone)
  BY Zenon, <1>1, FeederGetsIs
<1>3. \A c \in Conns : conn'[c] = conn[c] \/ (conn[c].at = "backlog" /\ conn'[c] = Gone)
  BY Zenon, <1>2 DEF Gone
<1>4. /\ ReasonsOK' /\ Survives' /\ svc' \in SvcType /\ ln' \in LnType
      /\ ln'.queue = ln.queue
  BY Zenon, FeederKeepsReasons
<1>5. QueueOK' /\ SlotsOK' /\ Counted' /\ PoolOK'
  BY Zenon, <1>2, <1>3, <1>4, ConnsAlone
<1>6. TypeOK'
  BY Zenon, <1>1, <1>2, <1>4 DEF TypeOK
<1> QED BY Zenon, <1>4, <1>5, <1>6 DEF IInv

\* One connection of the backlog is taken out of it.
LEMMA OneGone ==
  ASSUME TypeOK, NEW c \in Conns, conn[c].at = "backlog"
  PROVE  /\ [conn EXCEPT ![c] = Gone] \in ConnType
         /\ \A d \in Conns : LET r == [conn EXCEPT ![c] = Gone][d] IN
              r = conn[d] \/ (conn[d].at = "backlog" /\ r = Gone)
BY Zenon, GoneType DEF TypeOK, ConnType

\* Accept of the socket fails.
LEMMA FeedFailsKeeps == IInv /\ FeedFails => IInv'
<1> SUFFICES ASSUME IInv, FeedFails PROVE IInv'
  BY Zenon
<1>1. TypeOK /\ conn \in ConnType /\ faults \in 0..MaxFaults
  BY Zenon DEF IInv, TypeOK
<1>2. UNCHANGED <<conf, limiter, udp>> /\ Feeding
  BY Zenon DEF FeedFails
<1>3. CASE ln.sock = "closed" /\ FeederGets("closed", conn) /\ faults' = faults
  BY SMTT(30), <1>1, <1>2, <1>3, FeederKeeps, BoundsAssumption DEF Errors
<1>4. CASE /\ faults > 0 /\ faults' = faults - 1
           /\ \E e \in {"temporary", "fatal"} : FeederGets(e, conn)
  <2>1. PICK e \in {"temporary", "fatal"} : FeederGets(e, conn)
    BY Zenon, <1>4
  <2>2. faults' \in 0..MaxFaults /\ faults' <= faults /\ faults' < MaxFaults
    BY <1>1, <1>4, BoundsAssumption
  <2>3. e \in Errors \ {"nil"} /\ e # "closed"
    BY Zenon DEF Errors
  <2> QED BY Zenon, <1>1, <1>2, <2>1, <2>2, <2>3, FeederKeeps
<1> QED BY Zenon, <1>3, <1>4 DEF FeedFails

\* A packet is of no use to redirect.
LEMMA BadPacketKeeps == ASSUME IInv, NEW c \in Conns, BadPacket(c) PROVE IInv'
<1>1. TypeOK /\ faults \in 0..MaxFaults
  BY Zenon DEF IInv, TypeOK
<1>2. /\ UNCHANGED <<conf, limiter, udp, faults>> /\ Feeding /\ conn[c].at = "backlog"
      /\ FeederGets("packet", [conn EXCEPT ![c] = Gone])
  BY Zenon DEF BadPacket
<1> DEFINE cs == [conn EXCEPT ![c] = Gone]
<1>3. /\ cs \in ConnType
      /\ \A d \in Conns : cs[d] = conn[d] \/ (conn[d].at = "backlog" /\ cs[d] = Gone)
  BY Zenon, <1>1, <1>2, OneGone
<1>4. FeederGets("packet", cs)
  BY Zenon, <1>2
<1> HIDE DEF cs
<1> QED BY SMTT(30), <1>1, <1>2, <1>3, <1>4, FeederKeeps, BoundsAssumption DEF Errors

\* One connection moves, and does not open again once it has arrived.
LEMMA OneMoves ==
  ASSUME IInv, NEW c \in Conns, conf' = conf, udp' = udp, ln'.queue = ln.queue,
         \A d \in Conns \ {c} : conn'[d] = conn[d], SlotOK(conn'[c]),
         conn[c].at = "queued" => conn'[c].at = "queued",
         conn[c].at # "away" => conn'[c].at # "away" /\ (conn'[c].open => conn[c].open)
  PROVE  QueueOK' /\ SlotsOK' /\ PoolOK'
<1>1. TypeOK /\ QueueOK /\ SlotsOK /\ PoolOK
  BY Zenon DEF IInv
<1>2. SlotsOK'
  BY Zenon, <1>1, SlotsNext DEF SlotsOK
<1>3. QueueOK'
  BY Zenon, <1>1, QueueKept
<1>4. PoolOK'
  BY Zenon, <1>1, PoolKept
<1> QED BY Zenon, <1>2, <1>3, <1>4

\* A connection is accepted within the limits, or over them.
LEMMA FeedKeeps == ASSUME IInv, NEW c \in Conns, Feed(c) PROVE IInv'
<1> DEFINE l == Ask(c, "socket")
<1>1. /\ TypeOK /\ SlotsOK /\ Counted /\ ReasonsOK /\ Survives
      /\ svc \in SvcType /\ conn \in ConnType /\ limiter \in LimiterType
      /\ faults \in 0..MaxFaults
  BY Zenon DEF IInv, TypeOK
<1>2. UNCHANGED <<conf, udp, faults>> /\ Feeding /\ conn[c].at = "backlog"
  BY Zenon DEF Feed
<1>3. conn[c] \in [at : Places, open : BOOLEAN, slot : Slots] /\ SlotOK(conn[c])
  BY Zenon, <1>1 DEF ConnType, SlotsOK
<1>4. conn[c].slot = NoSlot /\ conn[c].open
  BY Zenon, <1>2, <1>3 DEF SlotOK
<1>5. CASE ~l.ok /\ FeederGets("limit", [conn EXCEPT ![c] = Gone]) /\ limiter' = l.limiter
  <2> DEFINE cs == [conn EXCEPT ![c] = Gone]
  <2>1. /\ cs \in ConnType
        /\ \A d \in Conns : cs[d] = conn[d] \/ (conn[d].at = "backlog" /\ cs[d] = Gone)
    BY Zenon, <1>1, <1>2, OneGone
  <2>2. FeederGets("limit", cs) /\ limiter' = limiter
    BY Zenon, <1>1, <1>5, AskIs
  <2> HIDE DEF cs
  <2> QED BY SMTT(30), <1>1, <1>2, <2>1, <2>2, FeederKeeps, BoundsAssumption DEF Errors
<1>6. CASE /\ l.ok /\ L.feeds \in {"accept", "remote"} /\ Serves(c, l)
           /\ svc' = [svc EXCEPT !.serve = "accept"] /\ ln' = ln
  <2>1. /\ conn' \in ConnType /\ limiter' \in LimiterType
        /\ \A d \in Conns \ {c} : conn'[d] = conn[d]
        /\ conn'[c].at \in {"gone", "session", "serving"}
        /\ conn'[c].open => conn[c].open
        /\ SlotOK(conn'[c]) /\ Counted'
    BY Zenon, <1>1, <1>2, <1>4, <1>6, ServesIs
  <2>2. QueueOK' /\ SlotsOK' /\ PoolOK'
    BY Zenon, <1>2, <1>6, <2>1, OneMoves
  <2>3. /\ svc' \in SvcType /\ svc'.closes = svc.closes /\ svc'.closing = svc.closing
        /\ svc'.serve = "accept" /\ svc.serve \in {"accept", "waiting"}
    BY Zenon, <1>1, <1>2, <1>6 DEF SvcType, Stages, Feeding
  <2>4. ReasonsOK' /\ Survives'
    BY <1>1, <1>2, <1>6, <2>3, ReasonsKept, BoundsAssumption DEF Ended
  <2> QED BY Zenon, <1>1, <1>2, <1>6, <2>1, <2>2, <2>3, <2>4 DEF IInv, TypeOK
<1>7. CASE /\ l.ok /\ L.feeds \notin {"accept", "remote"}
           /\ conn' = [conn EXCEPT ![c] = [@ EXCEPT !.at = "session", !.slot = l.slot]]
           /\ limiter' = l.limiter /\ svc' = svc /\ ln' = ln
  <2>1. /\ l.slot \in Slots /\ (L.limits # "socket" => l.slot = conn[c].slot)
        /\ l.limiter \in LimiterType
    BY Zenon, <1>1, AskIs
  <2>2. L.feeds \in {"loop", "server"}
    BY Zenon, <1>2, <1>7 DEF Feeding
  <2> DEFINE q == [conn[c] EXCEPT !.at = "session", !.slot = l.slot]
  <2> HIDE DEF l
  <2>3. /\ q \in [at : Places, open : BOOLEAN, slot : Slots]
        /\ q.at = "session" /\ q.open = conn[c].open /\ q.slot = l.slot
    BY Zenon, <1>3, <2>1 DEF Places
  <2>4. conn' = [conn EXCEPT ![c] = q]
    BY Zenon, <1>7
  <2> HIDE DEF q
  <2>5. conn' \in ConnType /\ conn'[c] = q /\ \A d \in Conns \ {c} : conn'[d] = conn[d]
    BY Zenon, <1>1, <2>3, <2>4 DEF ConnType
  <2>6. SlotOK(q)
    BY Zenon, <1>4, <2>1, <2>2, <2>3 DEF SlotOK
  <2>7. QueueOK' /\ SlotsOK' /\ PoolOK'
    BY Zenon, <1>2, <1>7, <2>3, <2>5, <2>6, OneMoves
  <2>8. Counted'
    BY <1>1, <1>2, <1>4, <1>7, <2>3, <2>5, CountTaken DEF l
  <2>9. ReasonsOK' /\ Survives'
    BY SMTT(30), <1>1, <1>2, <1>7, ReasonsKept, BoundsAssumption
  <2> QED BY Zenon, <1>1, <1>2, <1>7, <2>1, <2>5, <2>7, <2>8, <2>9 DEF IInv, TypeOK
<1> QED BY Zenon, <1>5, <1>6, <1>7 DEF Feed

\* The admission refuses a connection.
LEMMA RefuseKeeps == ASSUME IInv, NEW c \in Conns, Refuse(c) PROVE IInv'
<1>1. TypeOK /\ ReasonsOK /\ Survives /\ faults \in 0..MaxFaults
  BY Zenon DEF IInv, TypeOK
<1>2. /\ UNCHANGED <<conf, svc, ln, limiter, udp, faults>> /\ conn[c].at = "backlog"
      /\ conn' = [conn EXCEPT ![c] = Gone]
  BY Zenon DEF Refuse
<1>3. /\ conn' \in ConnType
      /\ \A d \in Conns : conn'[d] = conn[d] \/ (conn[d].at = "backlog" /\ conn'[d] = Gone)
  BY Zenon, <1>1, <1>2, OneGone
<1>4. ReasonsOK' /\ Survives'
  BY SMTT(30), <1>1, <1>2, ReasonsKept, BoundsAssumption
<1> QED BY Zenon, <1>1, <1>2, <1>3, <1>4, ConnsAlone DEF IInv, TypeOK

\* A connection that has not been there: no slot, and in no pool.
LEMMA ArrivesIs ==
  ASSUME IInv, NEW c \in Conns, conn[c].at = "away", conf' = conf,
         NEW p \in {"backlog", "queued", "serving"},
         conn' = [conn EXCEPT ![c] = [at |-> p, open |-> TRUE, slot |-> NoSlot]],
         L.feeds = "packets" => p # "backlog", limiter' = limiter
  PROVE  /\ conn' \in ConnType /\ conn'[c] = [at |-> p, open |-> TRUE, slot |-> NoSlot]
         /\ \A d \in Conns \ {c} : conn'[d] = conn[d]
         /\ SlotsOK' /\ Counted'
<1> DEFINE r == [at |-> p, open |-> TRUE, slot |-> NoSlot]
<1>1. TypeOK /\ SlotsOK /\ Counted /\ conn \in ConnType
  BY Zenon DEF IInv, TypeOK
<1>2. /\ r \in [at : Places, open : BOOLEAN, slot : Slots] /\ SlotOK(r)
      /\ r.slot = NoSlot
  BY Zenon DEF Places, Slots, SlotOK
<1>3. conn' = [conn EXCEPT ![c] = r]
  BY Zenon
<1> HIDE DEF r
<1>4. conn' \in ConnType /\ conn'[c] = r /\ \A d \in Conns \ {c} : conn'[d] = conn[d]
  BY SMTT(30), <1>1, <1>2, <1>3 DEF ConnType
<1>5. SlotsOK'
  BY Zenon, <1>1, <1>2, <1>4, SlotsNext DEF SlotsOK
<1>6. conn[c].slot = NoSlot
  BY Zenon, <1>1 DEF SlotsOK, SlotOK
<1>7. Counted'
  BY Zenon, <1>1, <1>2, <1>4, <1>6, CountKept
<1> QED BY Zenon, <1>4, <1>5, <1>7 DEF r

\* A connection comes to the socket, or is the one of stdio.
LEMMA ArriveKeeps == ASSUME IInv, NEW c \in Conns, Arrive(c) \/ AcceptOnce(c) PROVE IInv'
<1>1. TypeOK /\ QueueOK /\ PoolOK /\ ReasonsOK /\ Survives /\ faults \in 0..MaxFaults
  BY Zenon DEF IInv, TypeOK
<1>2. /\ UNCHANGED <<conf, svc, ln, limiter, udp, faults>> /\ conn[c].at = "away"
      /\ \E p \in {"backlog", "serving"} :
           /\ conn' = [conn EXCEPT ![c] = [at |-> p, open |-> TRUE, slot |-> NoSlot]]
           /\ L.feeds = "packets" => p # "backlog"
  BY Zenon DEF Arrive, AcceptOnce
<1>3. /\ conn' \in ConnType /\ \A d \in Conns \ {c} : conn'[d] = conn[d]
      /\ SlotsOK' /\ Counted'
  BY Zenon, <1>2, ArrivesIs
<1>4. QueueOK'
  BY Zenon, <1>1, <1>2, <1>3, QueueKept
<1>5. PoolOK'
  BY Zenon, <1>1, <1>2, <1>3, PoolKept
<1>6. ReasonsOK' /\ Survives'
  BY <1>1, <1>2, ReasonsKept, BoundsAssumption
<1> QED BY Zenon, <1>1, <1>2, <1>3, <1>4, <1>5, <1>6 DEF IInv, TypeOK

-----------------------------------------------------------------------------
(* Sessions, devices and the queue.                                        *)

\* A device is handed over, or a client of the UDP listener is new.
LEMMA QueuedKeeps == ASSUME IInv, NEW c \in Conns, Device(c) \/ NewClient(c) PROVE IInv'
<1>1. /\ TypeOK /\ QueueOK /\ PoolOK /\ ReasonsOK /\ Survives
      /\ faults \in 0..MaxFaults /\ ln \in LnType /\ udp \in UdpType
  BY Zenon DEF IInv, TypeOK
<1>2. /\ UNCHANGED <<conf, svc, limiter, faults>> /\ conn[c].at = "away"
      /\ ln' = [ln EXCEPT !.queue = Append(@, c)]
      /\ conn' = [conn EXCEPT ![c] = [at |-> "queued", open |-> TRUE, slot |-> NoSlot]]
  BY Zenon DEF Device, NewClient
<1>3. /\ conn' \in ConnType /\ conn'[c].at = "queued"
      /\ \A d \in Conns \ {c} : conn'[d] = conn[d]
      /\ SlotsOK' /\ Counted'
  <2> DEFINE p == "queued"
  <2>1. /\ p \in {"backlog", "queued", "serving"} /\ p # "backlog"
        /\ conn' = [conn EXCEPT ![c] = [at |-> p, open |-> TRUE, slot |-> NoSlot]]
    BY Zenon, <1>2
  <2> HIDE DEF p
  <2>2. /\ conn' \in ConnType /\ conn'[c] = [at |-> p, open |-> TRUE, slot |-> NoSlot]
        /\ \A d \in Conns \ {c} : conn'[d] = conn[d]
        /\ SlotsOK' /\ Counted'
    BY Zenon, <1>2, <2>1, ArrivesIs
  <2> QED BY <2>2 DEF p
<1>4. /\ ln' \in LnType /\ ln'.queue = Append(ln.queue, c)
      /\ ln'.closed = ln.closed /\ ln'.loop = ln.loop /\ ln'.err = ln.err
      /\ ln'.done = ln.done /\ ln'.sock = ln.sock
  <2>1. Append(ln.queue, c) \in Seq(Conns)
    BY <1>1 DEF LnType
  <2> DEFINE q == Append(ln.queue, c)
  <2>2. ln' = [ln EXCEPT !.queue = q]
    BY Zenon, <1>2
  <2> HIDE DEF q
  <2> QED BY Zenon, <1>1, <2>1, <2>2 DEF LnType, q
<1>5. QueueOK'
  BY Zenon, <1>1, <1>2, <1>3, <1>4, QueueGrows
<1>6. PoolOK' /\ udp' \in UdpType
  <2>1. CASE udp' = udp
    BY Zenon, <1>1, <1>2, <1>3, <2>1, PoolKept
  <2>2. CASE /\ udp.hand = Host[c] /\ ~IsOpen(Host[c])
             /\ udp' = [udp EXCEPT !.hand = None, !.new = c]
    <3>1. /\ udp' \in UdpType /\ udp'.pool = udp.pool /\ udp'.check = udp.check /\ udp'.new = c
          /\ udp'.hand = None /\ udp'.step = udp.step
      BY Zenon, <1>1, <2>2 DEF UdpType
    <3>2. /\ udp.check \in Conns \cup {None}
          /\ \A h \in Hosts : udp.pool[h] \in Conns \cup {None}
      BY Zenon, <1>1 DEF UdpType
    <3>3. L' = L /\ Host[c] \in Hosts /\ Host[c] # None
      BY Zenon, <1>2, SameGroups, HostsAreKeys, ConnsAssumption
    <3> QED BY <1>1, <1>2, <1>3, <2>2, <3>1, <3>2, <3>3 DEF PoolOK, IsOpen, Pooled
  <2> QED BY Zenon, <2>1, <2>2 DEF Device, NewClient
<1>7. ReasonsOK' /\ Survives'
  BY <1>1, <1>2, <1>4, ReasonsKept, BoundsAssumption
<1> QED BY Zenon, <1>1, <1>2, <1>3, <1>4, <1>5, <1>6, <1>7 DEF IInv, TypeOK

\* A stream is queued, or closed when the queue is full.
LEMMA StreamKeeps == ASSUME IInv, NEW c \in Conns, Stream(c) PROVE IInv'
<1>1. /\ TypeOK /\ QueueOK /\ SlotsOK /\ Counted /\ PoolOK /\ ReasonsOK /\ Survives
      /\ faults \in 0..MaxFaults /\ ln \in LnType /\ conn \in ConnType
      /\ limiter \in LimiterType
  BY Zenon DEF IInv, TypeOK
<1>2. UNCHANGED <<conf, svc, udp, faults>> /\ conn[c].at = "session" /\ conn[c].open
  BY Zenon DEF Stream
<1>3. CASE /\ ln' = [ln EXCEPT !.queue = Append(@, c)]
           /\ conn' = [conn EXCEPT ![c].at = "queued"] /\ limiter' = limiter
  <2>1. /\ ln' \in LnType /\ ln'.queue = Append(ln.queue, c)
        /\ ln'.closed = ln.closed /\ ln'.loop = ln.loop /\ ln'.err = ln.err
        /\ ln'.done = ln.done /\ ln'.sock = ln.sock
    <3>1. Append(ln.queue, c) \in Seq(Conns)
      BY <1>1 DEF LnType
    <3> DEFINE q == Append(ln.queue, c)
    <3>2. ln' = [ln EXCEPT !.queue = q]
      BY Zenon, <1>3
    <3> HIDE DEF q
    <3> QED BY Zenon, <1>1, <3>1, <3>2 DEF LnType, q
  <2>2. /\ conn' \in ConnType /\ \A d \in Conns \ {c} : conn'[d] = conn[d]
        /\ conn'[c].at = "queued" /\ conn'[c].open = conn[c].open
        /\ conn'[c].slot = conn[c].slot
    BY Zenon, <1>1, <1>3 DEF ConnType, Places
  <2>3. SlotOK(conn'[c])
    BY Zenon, <1>1, <1>2, <2>2 DEF SlotsOK, SlotOK
  <2>4. SlotsOK'
    BY Zenon, <1>1, <1>2, <2>2, <2>3, SlotsNext DEF SlotsOK
  <2>5. Counted'
    BY Zenon, <1>1, <1>2, <1>3, <2>2, CountKept
  <2>6. QueueOK'
    BY Zenon, <1>1, <1>2, <2>1, <2>2, QueueGrows
  <2>7. PoolOK'
    BY Zenon, <1>1, <1>2, <2>2, PoolKept
  <2>8. ReasonsOK' /\ Survives'
    BY SMTT(30), <1>1, <1>2, <2>1, ReasonsKept, BoundsAssumption
  <2> QED BY Zenon, <1>1, <1>2, <1>3, <2>1, <2>2, <2>4, <2>5, <2>6, <2>7, <2>8 DEF IInv, TypeOK
<1>4. CASE Closed(c) /\ ln' = ln
  <2>1. /\ conn' \in ConnType /\ limiter' \in LimiterType
        /\ \A d \in Conns \ {c} : conn'[d] = conn[d]
        /\ conn'[c].at \in {"gone", "session"}
        /\ conn'[c].open => conn[c].open
        /\ SlotOK(conn'[c]) /\ Counted'
    BY Zenon, <1>1, <1>2, <1>4, ClosedIs
  <2>2. QueueOK' /\ SlotsOK' /\ PoolOK'
    BY Zenon, <1>2, <1>4, <2>1, OneMoves
  <2>3. ReasonsOK' /\ Survives'
    BY SMTT(30), <1>1, <1>2, <1>4, ReasonsKept, BoundsAssumption
  <2> QED BY Zenon, <1>1, <1>2, <1>4, <2>1, <2>2, <2>3 DEF IInv, TypeOK
<1> QED BY Zenon, <1>3, <1>4 DEF Stream

\* A handler ends and closes its connection.
LEMMA HandlerEndsKeeps == ASSUME IInv, NEW c \in Conns, HandlerEnds(c) PROVE IInv'
<1>1. /\ TypeOK /\ SlotsOK /\ Counted /\ ReasonsOK /\ Survives
      /\ faults \in 0..MaxFaults /\ svc \in SvcType
  BY Zenon DEF IInv, TypeOK
<1>2. UNCHANGED <<conf, ln, udp, faults>> /\ conn[c].at = "serving" /\ Closed(c)
  BY Zenon DEF HandlerEnds
<1>3. /\ conn' \in ConnType /\ limiter' \in LimiterType
      /\ \A d \in Conns \ {c} : conn'[d] = conn[d]
      /\ conn'[c].at \in {"gone", "session"}
      /\ conn'[c].open => conn[c].open
      /\ SlotOK(conn'[c]) /\ Counted'
  BY Zenon, <1>1, <1>2, ClosedIs
<1>4. QueueOK' /\ SlotsOK' /\ PoolOK'
  BY Zenon, <1>2, <1>3, OneMoves
<1>5. svc' = [svc EXCEPT !.serve = "exited"] \/ svc' = svc
  BY Zenon DEF HandlerEnds
<1>6. /\ svc' \in SvcType /\ svc'.closes = svc.closes /\ svc'.closing = svc.closing
      /\ svc'.serve = "exited" \/ svc' = svc
  BY Zenon, <1>1, <1>5 DEF SvcType, Stages
<1>7. ReasonsOK' /\ Survives'
  BY SMTT(30), <1>1, <1>2, <1>6, ReasonsKept, BoundsAssumption DEF Ended
<1> QED BY Zenon, <1>1, <1>2, <1>3, <1>4, <1>6, <1>7 DEF IInv, TypeOK

\* A session ends, and gives its slot back while a stream of it is served.
LEMMA SessionEndsKeeps == ASSUME IInv, NEW c \in Conns, SessionEnds(c) PROVE IInv'
<1>1. /\ TypeOK /\ SlotsOK /\ Counted /\ ReasonsOK /\ Survives
      /\ faults \in 0..MaxFaults /\ conn \in ConnType
  BY Zenon DEF IInv, TypeOK
<1>2. /\ UNCHANGED <<conf, svc, ln, udp, faults>> /\ L.mux /\ limiter' = Release(limiter, {c})
      /\ conn[c].at \in {"session", "queued", "serving"}
  BY Zenon DEF SessionEnds
<1> DEFINE q == IF conn[c].at = "session" THEN Gone
                ELSE [conn[c] EXCEPT !.open = FALSE, !.slot = NoSlot]
<1>3. conn' = [conn EXCEPT ![c] = q]
  BY Zenon DEF SessionEnds
<1>4. conn[c] \in [at : Places, open : BOOLEAN, slot : Slots]
  BY Zenon, <1>1 DEF ConnType
<1>5. /\ q \in [at : Places, open : BOOLEAN, slot : Slots] /\ ~q.open /\ q.slot = NoSlot
      /\ q.at \in {"gone", "queued", "serving"}
      /\ conn[c].at = "queued" => q.at = "queued"
  BY Zenon, <1>2, <1>4, GoneType DEF Slots, Gone
<1> HIDE DEF q
<1>6. L.limits # "accept"
  BY Zenon, <1>1, <1>2, ListenerIsSane DEF Sane
<1>7. SlotOK(q)
  BY Zenon, <1>5, <1>6 DEF SlotOK
<1>8. conn' \in ConnType /\ conn'[c] = q /\ \A d \in Conns \ {c} : conn'[d] = conn[d]
  BY Zenon, <1>1, <1>3, <1>5 DEF ConnType
<1>9. Counted' /\ limiter' \in LimiterType
  BY SMTT(30), <1>1, <1>2, <1>5, <1>8, CountReleased, ReleaseIs
<1>10. QueueOK' /\ SlotsOK' /\ PoolOK'
  BY Zenon, <1>2, <1>5, <1>7, <1>8, OneMoves
<1>11. ReasonsOK' /\ Survives'
  BY <1>1, <1>2, ReasonsKept, BoundsAssumption
<1> QED BY Zenon, <1>1, <1>2, <1>8, <1>9, <1>10, <1>11 DEF IInv, TypeOK

\* A loop of devices ends only when the listener is closed.
LEMMA DeviceLoopEndsKeeps == IInv /\ DeviceLoopEnds => IInv'
<1> SUFFICES ASSUME IInv, DeviceLoopEnds PROVE IInv'
  BY Zenon
<1>1. /\ TypeOK /\ ReasonsOK /\ ln \in LnType /\ svc.closes \in Nat /\ conn \in ConnType
  BY Zenon DEF IInv, TypeOK, SvcType
<1>2. /\ UNCHANGED <<conf, svc, conn, limiter, udp, faults>> /\ ln.closed
      /\ ln' = [ln EXCEPT !.loop = FALSE]
  BY Zenon DEF DeviceLoopEnds
<1>3. ln' \in LnType /\ ln'.queue = ln.queue
  BY Zenon, <1>1, <1>2 DEF LnType
<1>4. svc.closes > 0
  BY <1>1, <1>2 DEF ReasonsOK
<1>5. ReasonsOK' /\ Survives'
  BY <1>2, <1>4 DEF ReasonsOK, Survives
<1> QED BY Zenon, <1>1, <1>2, <1>3, <1>5, ConnsAlone DEF IInv, TypeOK

\* New limiters count from nothing, which is what is held of them.
LEMMA ReloadKeeps == IInv /\ Reload => IInv'
<1> SUFFICES ASSUME IInv, Reload PROVE IInv'
  BY Zenon
<1>1. /\ TypeOK /\ ReasonsOK /\ Survives /\ limiter \in LimiterType /\ conn \in ConnType
      /\ faults \in 0..MaxFaults
  BY Zenon DEF IInv, TypeOK
<1>2. /\ UNCHANGED <<conf, svc, ln, conn, udp, faults>> /\ limiter.gen < MaxReloads
      /\ limiter' = [limiter EXCEPT !.gen = @ + 1]
  BY Zenon DEF Reload
<1>3. limiter' \in LimiterType /\ limiter'.count = limiter.count
  BY <1>1, <1>2, BoundsAssumption DEF LimiterType, Gens
<1>4. ReasonsOK' /\ Survives'
  BY SMTT(30), <1>1, <1>2, ReasonsKept, BoundsAssumption
<1> QED BY Zenon, <1>1, <1>2, <1>3, <1>4, ConnsAlone DEF IInv, TypeOK

-----------------------------------------------------------------------------
(* The UDP listener.                                                       *)

\* ReadFrom fails: with what is left of a socket that Close has closed, or
\* with an error that ends the loop.
LEMMA ReadFailsKeeps == IInv /\ ReadFails => IInv'
<1> SUFFICES ASSUME IInv, ReadFails PROVE IInv'
  BY Zenon
<1>1. /\ TypeOK /\ ReasonsOK /\ Survives /\ ln \in LnType /\ svc.closes \in Nat
      /\ conn \in ConnType /\ faults \in 0..MaxFaults
  BY Zenon DEF IInv, TypeOK, SvcType
<1>2. UNCHANGED <<conf, svc, conn, limiter, udp>> /\ L.feeds = "packets"
  BY Zenon DEF ReadFails, Reading
<1>0. CASE ln.closed /\ faults' = faults /\ ln' = [ln EXCEPT !.loop = FALSE]
  <2>1. ln' \in LnType /\ ln'.queue = ln.queue
    BY Zenon, <1>0, <1>1 DEF LnType
  <2>2. svc.closes > 0
    BY <1>0, <1>1 DEF ReasonsOK
  <2>3. ReasonsOK' /\ Survives'
    BY <1>2, <2>2 DEF ReasonsOK, Survives
  <2> QED BY Zenon, <1>0, <1>1, <1>2, <2>1, <2>3, ConnsAlone DEF IInv, TypeOK
<1> SUFFICES ASSUME ~(ln.closed /\ faults' = faults /\ ln' = [ln EXCEPT !.loop = FALSE])
             PROVE  IInv'
  BY Zenon, <1>0
<1>3. \E e \in {"closed", "temporary", "fatal"} :
        /\ ln' = [ln EXCEPT !.loop = FALSE, !.err = <<e>>, !.done = TRUE]
        /\ \/ e = "closed" /\ ln.sock = "closed" /\ faults' = faults
           \/ e # "closed" /\ faults > 0 /\ faults' = faults - 1
  BY Zenon DEF ReadFails
<1>4. PICK e \in {"closed", "temporary", "fatal"} :
        /\ ln' = [ln EXCEPT !.loop = FALSE, !.err = <<e>>, !.done = TRUE]
        /\ \/ e = "closed" /\ ln.sock = "closed" /\ faults' = faults
           \/ e # "closed" /\ faults > 0 /\ faults' = faults - 1
  BY Zenon, <1>3
<1>5. /\ ln' \in LnType /\ ln'.queue = ln.queue /\ ln'.sock = ln.sock
      /\ ln'.closed = ln.closed /\ ln'.loop = FALSE /\ ln'.err = <<e>>
  <2>1. <<e>> \in Sent
    BY Zenon DEF Sent, Errors
  <2> DEFINE x == <<e>>
  <2> HIDE DEF x
  <2> QED BY Zenon, <1>1, <1>4, <2>1 DEF LnType, x
<1>6. /\ faults' \in 0..MaxFaults /\ faults' <= faults
      /\ e # "closed" => faults' < MaxFaults
  BY <1>1, <1>4, BoundsAssumption
<1>7. svc.closes = 0 => e # "closed" /\ ln.sock # "closed" /\ ~ln.closed /\ svc.closing = "no"
  BY Zenon, <1>1, <1>2, <1>4 DEF ReasonsOK
<1>8. /\ faults' < MaxFaults => StopsOnTemporary'
      /\ StopsOnTemporary => StopsOnTemporary'
  BY SMTT(30), <1>1, <1>2, <1>5, <1>6, SameGroups, BoundsAssumption DEF StopsOnTemporary
<1>9. ReasonsOK'
  <2>1. Head(<<e>>) = e /\ <<e>> # <<>>
    OBVIOUS
  <2> QED BY Zenon, <2>1, <1>2, <1>5, <1>6, <1>7, <1>8 DEF ReasonsOK
<1>10. Survives'
  BY Zenon, <1>1, <1>2, <1>8 DEF Survives, StopsOnRefusal
<1> QED BY Zenon, <1>1, <1>2, <1>5, <1>6, <1>9, <1>10, ConnsAlone DEF IInv, TypeOK

\* A step that adds nothing to the pool, and closes a connection at most, which
\* has no slot to give back.
LEMMA UdpKeeps ==
  ASSUME IInv, UNCHANGED <<conf, svc, ln, limiter, faults>>, L.feeds = "packets",
         NEW c \in Conns, conn' = conn \/ Shuts(c),
         udp' \in UdpType, udp'.new = udp.new,
         udp'.hand # None => udp.hand # None \/ udp.new = None,
         udp'.check # None => \/ udp'.check = udp.check
                              \/ \E h \in Hosts : udp'.check = udp.pool[h],
         udp'.step # "look" => udp'.check # None,
         \A h \in Hosts : udp'.pool[h] = udp.pool[h] \/ udp'.pool[h] = None
  PROVE  IInv'
<1>1. /\ TypeOK /\ QueueOK /\ SlotsOK /\ Counted /\ ReasonsOK /\ Survives /\ PoolOK
      /\ udp \in UdpType /\ faults \in 0..MaxFaults /\ conn \in ConnType
  BY Zenon DEF IInv, TypeOK
<1>2. UNCHANGED <<conf, svc, ln, limiter, faults>>
  BY Zenon
<1>3. c \in Conns /\ L.feeds = "packets"
  BY Zenon
<1>4. L.limits # "accept"
  BY Zenon, <1>1, <1>3, ListenerIsSane DEF Sane
<1>5. conn' = conn \/ Shuts(c)
  BY Zenon
<1>6. /\ udp' \in UdpType /\ udp'.new = udp.new
      /\ udp'.hand # None => udp.hand # None \/ udp.new = None
      /\ udp'.check # None => \/ udp'.check = udp.check
                              \/ \E h \in Hosts : udp'.check = udp.pool[h]
      /\ udp'.step # "look" => udp'.check # None
      /\ \A h \in Hosts : udp'.pool[h] = udp.pool[h] \/ udp'.pool[h] = None
  BY Zenon
<1>7. /\ conn' \in ConnType
      /\ \A d \in Conns : /\ conn'[d].at = conn[d].at /\ conn'[d].slot = conn[d].slot
                          /\ conn'[d] = conn[d] \/ ~conn'[d].open
  <2>1. CASE conn' = conn
    BY Zenon, <1>1, <2>1
  <2>2. CASE Shuts(c)
    <3> DEFINE q == [conn[c] EXCEPT !.open = FALSE]
    <3>1. conn[c] \in [at : Places, open : BOOLEAN, slot : Slots]
      BY Zenon, <1>1, <1>3 DEF ConnType
    <3>2. /\ q \in [at : Places, open : BOOLEAN, slot : Slots]
          /\ q.at = conn[c].at /\ q.slot = conn[c].slot /\ ~q.open
      BY Zenon, <3>1
    <3>3. conn' = [conn EXCEPT ![c] = q]
      BY Zenon, <2>2 DEF Shuts
    <3> HIDE DEF q
    <3> QED BY Zenon, <1>1, <1>3, <3>2, <3>3 DEF ConnType
  <2> QED BY Zenon, <1>5, <2>1, <2>2
<1>8. PoolOK'
  <2>1. /\ udp.new \in Conns \cup {None} /\ udp.check \in Conns \cup {None}
        /\ \A h \in Hosts : udp.pool[h] \in Conns \cup {None}
    BY Zenon, <1>1 DEF UdpType
  <2>2. L' = L
    BY Zenon, <1>2, SameGroups
  <2>3. \A h \in Hosts : udp'.pool[h] # None => conn'[udp'.pool[h]].at # "away"
    <3> SUFFICES ASSUME NEW h \in Hosts, udp'.pool[h] # None
                 PROVE  conn'[udp'.pool[h]].at # "away"
      BY Zenon
    <3>1. udp'.pool[h] = udp.pool[h] /\ udp.pool[h] \in Conns
      BY <1>6, <2>1
    <3> QED BY Zenon, <1>1, <1>7, <3>1 DEF PoolOK, Pooled
  <2>4. ASSUME udp.new # None
        PROVE  conn'[udp.new].at # "away" /\ ~IsOpen(Host[udp.new])'
    <3>1. udp.new \in Conns /\ conn[udp.new].at # "away" /\ ~IsOpen(Host[udp.new])
      BY Zenon, <1>1, <2>1, <2>4 DEF PoolOK
    <3>2. Host[udp.new] \in Hosts
      BY Zenon, <3>1, HostsAreKeys
    <3> DEFINE h == Host[udp.new]
    <3>3. udp'.pool[h] = udp.pool[h] \/ udp'.pool[h] = None
      BY Zenon, <1>6, <3>2
    <3>4. udp.pool[h] # None => udp.pool[h] \in Conns /\ ~conn[udp.pool[h]].open
      BY Zenon, <2>1, <3>1, <3>2 DEF IsOpen, Pooled
    <3>5. udp.pool[h] # None => ~conn'[udp.pool[h]].open
      BY Zenon, <1>7, <3>4
    <3>6. ~(udp'.pool[h] # None /\ conn'[udp'.pool[h]].open) /\ Host[udp'.new] = h
      BY Zenon, <1>6, <3>3, <3>5
    <3>7. ~IsOpen(Host[udp.new])'
      BY Zenon, <3>6 DEF IsOpen, Pooled
    <3> QED BY Zenon, <1>7, <3>1, <3>7
  <2>5. udp'.check # None => conn'[udp'.check].at # "away"
    BY Zenon, <1>1, <1>6, <1>7, <2>1 DEF PoolOK, Pooled
  <2>6. (udp'.hand # None => udp'.new = None) /\ (udp'.step # "look" => udp'.check # None)
    BY Zenon, <1>1, <1>6 DEF PoolOK
  <2> QED BY Zenon, <1>3, <1>6, <2>2, <2>3, <2>4, <2>5, <2>6 DEF PoolOK, Pooled
<1>9. SlotsOK'
  <2>1. \A d \in Conns : SlotOK(conn'[d])
    <3> SUFFICES ASSUME NEW d \in Conns PROVE SlotOK(conn'[d])
      BY Zenon
    <3>1. SlotOK(conn[d]) /\ L.limits = "never"
      BY Zenon, <1>1, <1>3, ListenerIsSane DEF SlotsOK, Sane
    <3> QED BY Zenon, <3>1, <1>3, <1>4, <1>7 DEF SlotOK
  <2> QED BY Zenon, <1>2, <2>1, SlotsNext
<1>10. QueueOK'
  BY Zenon, <1>1, <1>2, <1>7, QueueKept
<1>11. Counted'
  BY Zenon, <1>1, <1>2, <1>7, CountKept
<1>12. ReasonsOK' /\ Survives'
  BY <1>1, <1>2, ReasonsKept, BoundsAssumption
<1> QED BY Zenon, <1>1, <1>2, <1>6, <1>7, <1>8, <1>9, <1>10, <1>11, <1>12 DEF IInv, TypeOK

\* What the loop of the listener does with a packet of a client it knows or
\* discards, and what a handler reads and writes.
LEMMA PacketsKeep ==
  ASSUME IInv, \/ \E h \in Hosts : ReadFrom(h) \/ Packet(h) \/ Discard(h)
               \/ \E c \in Conns : Traffic(c)
  PROVE  IInv'
<1>1. udp \in UdpType /\ PoolOK /\ conn \in ConnType
  BY Zenon DEF IInv, TypeOK
<1>2. ASSUME NEW h \in Hosts, ReadFrom(h) \/ Packet(h) \/ Discard(h) PROVE IInv'
  <2>1. UNCHANGED <<conf, svc, ln, limiter, faults>> /\ conn' = conn
    BY Zenon, <1>2 DEF ReadFrom, Packet, Discard
  <2>2. h # None /\ \E c \in Conns : h = Host[c]
    BY Zenon, ConnsAssumption DEF Hosts
  <2>3. L.feeds = "packets"
    BY Zenon, <1>1, <1>2, <2>2 DEF ReadFrom, Reading, Packet, Discard, PoolOK
  <2>4. /\ udp' \in UdpType /\ udp'.pool = udp.pool /\ udp'.new = udp.new
        /\ udp'.check = udp.check /\ udp'.step = udp.step
        /\ udp'.hand = None \/ udp.new = None
    BY Zenon, <1>1, <1>2 DEF ReadFrom, Reading, Packet, Discard, UdpType
  <2> QED BY Zenon, <1>1, <2>1, <2>2, <2>3, <2>4, UdpKeeps DEF PoolOK
<1>3. ASSUME NEW c \in Conns, Traffic(c) PROVE IInv'
  <2>1. /\ UNCHANGED <<conf, svc, ln, limiter, faults>> /\ L.feeds = "packets"
        /\ conn' = conn \/ Shuts(c)
    BY Zenon, <1>3 DEF Traffic
  <2>2. /\ udp' \in UdpType /\ udp'.pool = udp.pool /\ udp'.new = udp.new
        /\ udp'.check = udp.check /\ udp'.step = udp.step /\ udp'.hand = udp.hand
    BY Zenon, <1>1, <1>3 DEF Traffic, UdpType
  <2> QED BY Zenon, <1>1, <2>1, <2>2, UdpKeeps DEF PoolOK
<1> QED BY Zenon, <1>2, <1>3

\* What the idle check does.
LEMMA ChecksKeep ==
  ASSUME IInv, (\E h \in Hosts : Check(h)) \/ Checking
  PROVE  IInv'
<1>1. udp \in UdpType /\ PoolOK /\ conn \in ConnType
  BY Zenon DEF IInv, TypeOK
<1>2. ASSUME NEW h \in Hosts, Check(h) PROVE IInv'
  <2>1. UNCHANGED <<conf, svc, ln, limiter, faults>> /\ conn' = conn /\ udp.pool[h] # None
    BY Zenon, <1>2 DEF Check, Pooled
  <2>2. udp.pool[h] \in Conns /\ L.feeds = "packets"
    BY Zenon, <1>1, <2>1 DEF UdpType, PoolOK
  <2>3. /\ udp' \in UdpType /\ udp'.pool = udp.pool /\ udp'.new = udp.new
        /\ udp'.check = udp.pool[h] /\ udp'.step = udp.step /\ udp'.hand = udp.hand
    BY Zenon, <1>1, <1>2 DEF Check, Pooled, UdpType
  <2> QED BY Zenon, <1>1, <2>1, <2>2, <2>3, UdpKeeps DEF PoolOK
<1>3. CASE Checking
  <2> DEFINE c == udp.check
  <2>1. /\ UNCHANGED <<conf, svc, ln, limiter, faults>> /\ c # None
        /\ conn' = conn \/ Shuts(c)
    BY Zenon, <1>1, <1>3 DEF Checking, CheckLooks, CheckDeletes, CheckCloses, PoolOK
  <2>2. c \in Conns /\ Host[c] \in Hosts /\ L.feeds = "packets"
    BY Zenon, <1>1, <2>1, HostsAreKeys DEF UdpType, PoolOK
  <2>3. /\ udp' \in UdpType /\ udp'.new = udp.new /\ udp'.hand = udp.hand
        /\ udp'.check # None => udp'.check = udp.check
        /\ udp'.step # "look" => udp'.check # None
        /\ \A h \in Hosts : udp'.pool[h] = udp.pool[h] \/ udp'.pool[h] = None
    <3>1. CASE CheckLooks
      BY Zenon, <1>1, <2>1, <2>2, <3>1 DEF CheckLooks, UdpType
    <3>2. CASE CheckDeletes
      BY Zenon, <1>1, <2>1, <2>2, <3>2 DEF CheckDeletes, UdpType
    <3>3. CASE CheckCloses
      BY Zenon, <1>1, <2>1, <2>2, <3>3 DEF CheckCloses, UdpType
    <3> QED BY Zenon, <1>3, <3>1, <3>2, <3>3 DEF Checking
  <2> QED BY Zenon, <1>1, <2>1, <2>2, <2>3, UdpKeeps DEF PoolOK
<1> QED BY Zenon, <1>2, <1>3

\* getConn puts what it has queued into the pool.
LEMMA PoolSetKeeps == IInv /\ PoolSet => IInv'
<1> SUFFICES ASSUME IInv, PoolSet PROVE IInv'
  BY Zenon
<1>1. /\ TypeOK /\ QueueOK /\ SlotsOK /\ Counted /\ ReasonsOK /\ Survives /\ PoolOK
      /\ udp \in UdpType /\ faults \in 0..MaxFaults
  BY Zenon DEF IInv, TypeOK
<1>2. /\ UNCHANGED <<conf, svc, ln, conn, limiter, faults>> /\ udp.new # None
      /\ udp' = [udp EXCEPT !.pool[Host[udp.new]] = udp.new, !.new = None]
  BY Zenon DEF PoolSet
<1>3. udp.new \in Conns /\ Host[udp.new] \in Hosts
  BY Zenon, <1>1, <1>2, HostsAreKeys DEF UdpType
<1>4. /\ udp' \in UdpType /\ udp'.new = None /\ udp'.check = udp.check
      /\ udp'.hand = udp.hand /\ udp'.step = udp.step
      /\ \A h \in Hosts : udp'.pool[h] = udp.pool[h] \/ udp'.pool[h] = udp.new
  BY Zenon, <1>1, <1>2, <1>3 DEF UdpType
<1>5. PoolOK'
  BY Zenon, <1>1, <1>2, <1>4, SameGroups DEF PoolOK, Pooled
<1>6. QueueOK' /\ SlotsOK' /\ Counted'
  <2>1. QueueOK'
    BY Zenon, <1>1, <1>2 DEF QueueOK
  <2>2. SlotsOK'
    BY Zenon, <1>1, <1>2, SlotsNext DEF SlotsOK
  <2>3. Counted'
    BY Zenon, <1>1, <1>2, CountKept
  <2> QED BY Zenon, <2>1, <2>2, <2>3
<1>7. ReasonsOK' /\ Survives'
  BY SMTT(30), <1>1, <1>2, ReasonsKept, BoundsAssumption
<1> QED BY Zenon, <1>1, <1>2, <1>4, <1>5, <1>6, <1>7 DEF IInv, TypeOK

-----------------------------------------------------------------------------
(* Close.                                                                  *)

\* Close of a listener ends its socket, marks it or sends it an error.
LEMMA CloseListenerIs ==
  ASSUME TypeOK
  PROVE  CloseListener(ln) \in LnType /\ CloseListener(ln).queue = ln.queue
<1>1. ln \in LnType
  BY Zenon DEF TypeOK
<1>2. Shut(ln) \in LnType /\ Shut(ln).queue = ln.queue
  BY Zenon, <1>1 DEF Shut, LnType
<1>3. ASSUME NEW e \in {"closed", "nil"}
      PROVE  CloseSends(ln, e) \in LnType /\ CloseSends(ln, e).queue = ln.queue
  <2> DEFINE x == <<e>>
             l == Shut(ln)
  <2>1. x \in Sent /\ <<>> \in Sent
    BY Zenon DEF Sent, Errors
  <2>2. /\ CloseSends(ln, e) \in {[ln EXCEPT !.err = <<>>], ln,
                                  [l EXCEPT !.err = x, !.done = TRUE]}
    BY Zenon DEF CloseSends
  <2> HIDE DEF x, l
  <2>3. /\ [l EXCEPT !.err = x, !.done = TRUE] \in LnType
        /\ [l EXCEPT !.err = x, !.done = TRUE].queue = ln.queue
    BY Zenon, <1>2, <2>1 DEF LnType, l
  <2>4. [ln EXCEPT !.err = <<>>] \in LnType /\ [ln EXCEPT !.err = <<>>].queue = ln.queue
    BY Zenon, <1>1, <2>1 DEF LnType
  <2> QED BY Zenon, <1>1, <2>2, <2>3, <2>4
<1>4. /\ [ln EXCEPT !.closed = TRUE] \in LnType
      /\ [ln EXCEPT !.closed = TRUE].queue = ln.queue
  BY Zenon, <1>1 DEF LnType
<1>5. /\ [Shut(ln) EXCEPT !.closed = TRUE] \in LnType
      /\ [Shut(ln) EXCEPT !.closed = TRUE].queue = ln.queue
  BY Zenon, <1>2 DEF LnType
<1>6. CloseListener(ln) \in {Shut(ln), CloseSends(ln, "closed"), CloseSends(ln, "nil"),
                             [ln EXCEPT !.closed = TRUE], [Shut(ln) EXCEPT !.closed = TRUE]}
  BY Zenon DEF CloseListener
<1> QED BY Zenon, <1>2, <1>3, <1>4, <1>5, <1>6

\* The connections that a server cuts lose their slots.
LEMMA AfterCutIs ==
  ASSUME TypeOK, SlotsOK
  PROVE  /\ AfterCut \in ConnType /\ Cut \in SUBSET Conns
         /\ \A c \in Conns :
              /\ SlotOK(AfterCut[c])
              /\ AfterCut[c].slot = IF c \in Cut THEN NoSlot ELSE conn[c].slot
              /\ conn[c].at = "queued" => AfterCut[c].at = "queued"
              /\ conn[c].at = "backlog" => AfterCut[c] = conn[c]
              /\ conn[c].at # "away" => AfterCut[c].at # "away"
              /\ AfterCut[c].open => conn[c].open
              /\ AfterCut[c].at = "backlog" => conn[c].at = "backlog"
<1>1. conn \in ConnType
  BY Zenon DEF TypeOK
<1> DEFINE f(c) == IF c \notin Cut THEN conn[c]
                   ELSE IF conn[c].at = "session" THEN Gone
                   ELSE [conn[c] EXCEPT !.open = FALSE, !.slot = NoSlot]
<1>2. ASSUME NEW c \in Conns
      PROVE  /\ f(c) \in [at : Places, open : BOOLEAN, slot : Slots]
             /\ SlotOK(f(c))
             /\ f(c).slot = IF c \in Cut THEN NoSlot ELSE conn[c].slot
             /\ conn[c].at = "queued" => f(c).at = "queued"
             /\ conn[c].at = "backlog" => f(c) = conn[c]
             /\ conn[c].at # "away" => f(c).at # "away"
             /\ f(c).open => conn[c].open
             /\ f(c).at = "backlog" => conn[c].at = "backlog"
  <2>1. conn[c] \in [at : Places, open : BOOLEAN, slot : Slots] /\ SlotOK(conn[c])
    BY Zenon, <1>1 DEF ConnType, SlotsOK
  <2>2. CASE c \notin Cut
    BY Zenon, <2>1, <2>2
  <2>3. CASE c \in Cut
    <3>1. L.limits # "accept" /\ conn[c].at \in {"session", "queued", "serving"}
      BY Zenon, <2>3, ListenerIsSane DEF Cut, Sane
    <3>2. CASE conn[c].at = "session"
      <4>1. f(c) = Gone
        BY Zenon, <2>3, <3>2
      <4> QED BY Zenon, <4>1, <2>3, <3>2, GoneType, GoneIsOK DEF Gone
    <3>3. CASE conn[c].at # "session"
      <4> DEFINE q == [conn[c] EXCEPT !.open = FALSE, !.slot = NoSlot]
      <4>1. f(c) = q
        BY Zenon, <2>3, <3>3
      <4>2. /\ q \in [at : Places, open : BOOLEAN, slot : Slots]
            /\ q.at = conn[c].at /\ ~q.open /\ q.slot = NoSlot
        BY Zenon, <2>1 DEF Slots
      <4> HIDE DEF q
      <4>3. SlotOK(q)
        BY Zenon, <2>1, <3>1, <3>3, <4>2 DEF SlotOK
      <4> QED BY Zenon, <4>1, <4>2, <4>3, <2>3, <3>1, <3>3
    <3> QED BY Zenon, <3>2, <3>3
  <2> QED BY Zenon, <2>2, <2>3
<1>3. AfterCut = [c \in Conns |-> f(c)] /\ Cut \in SUBSET Conns
  BY Zenon DEF AfterCut, Cut
<1> HIDE DEF f
<1>4. AfterCut \in ConnType /\ \A c \in Conns : AfterCut[c] = f(c)
  BY Zenon, <1>2, <1>3 DEF ConnType
<1> QED BY Zenon, <1>2, <1>3, <1>4

\* Close, with what it cuts and resets.
LEMMA CloseKeeps == IInv /\ Close => IInv'
<1> SUFFICES ASSUME IInv, Close PROVE IInv'
  BY Zenon
<1>1. /\ TypeOK /\ QueueOK /\ SlotsOK /\ Counted /\ PoolOK
      /\ svc \in SvcType /\ conn \in ConnType /\ limiter \in LimiterType
  BY Zenon DEF IInv, TypeOK
<1>2. UNCHANGED <<conf, udp, faults>> /\ ln' = CloseListener(ln)
  BY Zenon DEF Close
<1>3. ln' \in LnType /\ ln'.queue = ln.queue
  BY Zenon, <1>1, <1>2, CloseListenerIs
<1>4. svc' \in SvcType /\ svc'.closes > 0
  <2> DEFINE
         k == IF L.waits \/ (L.feeds \in {"remote", "packets"} /\ ~ln.closed)
              THEN "closing" ELSE "done"
         n == svc.closes + 1
  <2>1. svc' = [svc EXCEPT !.closes = n, !.closing = k] /\ k \in {"closing", "done"}
    BY Zenon DEF Close
  <2>2. n \in Nat /\ n > 0
    BY <1>1 DEF SvcType
  <2> HIDE DEF k, n
  <2> QED BY Zenon, <1>1, <2>1, <2>2 DEF SvcType
<1>5. ReasonsOK' /\ Survives'
  BY <1>4 DEF ReasonsOK, Survives
<1>6. \/ conn' = Reset(AfterCut) /\ limiter' = Release(limiter, Cut)
      \/ conn' = conn /\ limiter' = limiter
  BY Zenon DEF Close
<1>7. CASE conn' = conn /\ limiter' = limiter
  BY Zenon, <1>1, <1>2, <1>3, <1>4, <1>5, <1>7, ConnsAlone DEF IInv, TypeOK
<1>8. CASE conn' = Reset(AfterCut) /\ limiter' = Release(limiter, Cut)
  <2>1. /\ conn' \in ConnType
        /\ \A c \in Conns : conn'[c] = IF AfterCut[c].at = "backlog" THEN Gone ELSE AfterCut[c]
    BY Zenon, <1>1, <1>8, AfterCutIs, ResetIs
  <2>2. limiter' \in LimiterType
    BY Zenon, <1>1, <1>8, AfterCutIs, ReleaseIs
  <2>3. \A c \in Conns : /\ SlotOK(conn'[c])
                         /\ conn[c].at = "queued" => conn'[c].at = "queued"
                         /\ conn[c].at # "away" => conn'[c].at # "away"
                         /\ conn'[c].open => conn[c].open
    BY SMTT(30), <1>1, <2>1, AfterCutIs, GoneIsOK DEF Gone
  <2>4. \A c \in Conns : conn'[c].slot = IF c \in Cut THEN NoSlot ELSE conn[c].slot
    <3> SUFFICES ASSUME NEW c \in Conns
                 PROVE  conn'[c].slot = IF c \in Cut THEN NoSlot ELSE conn[c].slot
      BY Zenon
    <3>1. CASE AfterCut[c].at = "backlog"
      <4>1. conn[c].at = "backlog" /\ c \notin Cut
        BY Zenon, <3>1, <1>1, AfterCutIs DEF Cut
      <4>2. conn[c].slot = NoSlot
        BY Zenon, <4>1, <1>1 DEF SlotsOK, SlotOK
      <4> QED BY SMTT(30), <3>1, <4>1, <4>2, <2>1 DEF Gone
    <3>2. CASE AfterCut[c].at # "backlog"
      BY Zenon, <3>2, <1>1, <2>1, AfterCutIs
    <3> QED BY Zenon, <3>1, <3>2
  <2>5. Counted'
    BY Zenon, <1>1, <1>2, <1>8, <2>4, AfterCutIs, CountReleased
  <2>6. SlotsOK'
    BY Zenon, <1>2, <2>3, SlotsNext
  <2>7. QueueOK'
    BY Zenon, <1>1, <1>3, <2>3, QueueKept
  <2>8. PoolOK'
    BY Zenon, <1>1, <1>2, <2>3, PoolKept
  <2> QED BY Zenon, <1>1, <1>2, <1>3, <1>4, <1>5, <2>1, <2>2, <2>5, <2>6, <2>7, <2>8 DEF IInv, TypeOK
<1> QED BY Zenon, <1>6, <1>7, <1>8

\* The rest of Close: it has been called.
LEMMA CloseReturnsKeeps == IInv /\ CloseReturns => IInv'
<1> SUFFICES ASSUME IInv, CloseReturns PROVE IInv'
  BY Zenon
<1>1. /\ TypeOK /\ QueueOK /\ SlotsOK /\ Counted /\ ReasonsOK /\ PoolOK
      /\ svc \in SvcType /\ conn \in ConnType /\ ln \in LnType /\ svc.closes \in Nat
  BY Zenon DEF IInv, TypeOK, SvcType
<1>2. /\ UNCHANGED <<conf, limiter, faults>> /\ svc.closing = "closing"
      /\ svc' = [svc EXCEPT !.closing = "done"]
      /\ udp' = [udp EXCEPT !.closed = @ \/ L.feeds = "packets"]
  BY Zenon DEF CloseReturns
<1>9. udp \in UdpType
  BY Zenon, <1>1 DEF TypeOK
<1>3. svc.closes > 0
  BY <1>1, <1>2 DEF ReasonsOK
<1>4. svc' \in SvcType /\ svc'.closes = svc.closes
  BY Zenon, <1>1, <1>2 DEF SvcType
<1>5. ReasonsOK' /\ Survives'
  BY <1>3, <1>4 DEF ReasonsOK, Survives
<1>6. ln' \in LnType /\ ln'.queue = ln.queue
  <2>1. Shut(ln) \in LnType /\ Shut(ln).queue = ln.queue
    BY Zenon, <1>1 DEF Shut, LnType
  <2> QED BY Zenon, <1>1, <2>1 DEF CloseReturns
<1>7. CASE L.feeds = "packets"
  <2> DEFINE f(c) == [conn[c] EXCEPT !.open = conn[c].open /\ Pooled(Host[c]) # c]
  <2>1. conn' = [c \in Conns |-> f(c)]
    BY Zenon, <1>7 DEF CloseReturns
  <2>2. ASSUME NEW c \in Conns
        PROVE  /\ f(c) \in [at : Places, open : BOOLEAN, slot : Slots]
               /\ f(c).at = conn[c].at /\ f(c).slot = conn[c].slot
               /\ f(c).open => conn[c].open
    <3> DEFINE o == conn[c].open /\ Pooled(Host[c]) # c
    <3>1. conn[c] \in [at : Places, open : BOOLEAN, slot : Slots]
      BY Zenon, <1>1 DEF ConnType
    <3>2. o \in BOOLEAN /\ (o => conn[c].open) /\ f(c) = [conn[c] EXCEPT !.open = o]
      BY Zenon, <3>1
    <3> HIDE DEF o
    <3> QED BY Zenon, <3>1, <3>2
  <2> HIDE DEF f
  <2>3. /\ conn' \in ConnType
        /\ \A c \in Conns : /\ conn'[c].at = conn[c].at /\ conn'[c].slot = conn[c].slot
                            /\ conn'[c].open => conn[c].open
    BY Zenon, <2>1, <2>2 DEF ConnType
  <2>4. \A c \in Conns : SlotOK(conn'[c])
    <3> SUFFICES ASSUME NEW c \in Conns PROVE SlotOK(conn'[c])
      BY Zenon
    <3>1. SlotOK(conn[c]) /\ L.limits = "never"
      BY Zenon, <1>1, <1>7, ListenerIsSane DEF SlotsOK, Sane
    <3> QED BY Zenon, <3>1, <1>7, <2>3 DEF SlotOK
  <2>5. SlotsOK'
    BY Zenon, <1>2, <2>4, SlotsNext
  <2>6. Counted'
    BY Zenon, <1>1, <1>2, <2>3, CountKept
  <2>7. QueueOK'
    BY Zenon, <1>1, <1>6, <2>3, QueueKept
  <2>8. PoolOK' /\ udp' \in UdpType
    <3>1. /\ udp' \in UdpType /\ udp'.pool = udp.pool /\ udp'.hand = udp.hand
          /\ udp'.new = udp.new /\ udp'.check = udp.check /\ udp'.step = udp.step
      BY Zenon, <1>2, <1>7, <1>9 DEF UdpType
    <3>2. /\ udp.check \in Conns \cup {None} /\ udp.new \in Conns \cup {None}
          /\ \A h \in Hosts : udp.pool[h] \in Conns \cup {None}
      BY Zenon, <1>9 DEF UdpType
    <3>3. L' = L
      BY Zenon, <1>2, SameGroups
    <3>4. \A c \in Conns : IsOpen(Host[c])' => IsOpen(Host[c])
      BY Zenon, <2>3, <3>1, <3>2, HostsAreKeys DEF IsOpen, Pooled
    <3>5. \A h \in Hosts : Pooled(h)' = Pooled(h)
      BY Zenon, <3>1 DEF Pooled
    <3>6. /\ udp.check # None => conn'[udp.check].at # "away"
          /\ udp.new # None => conn'[udp.new].at # "away"
          /\ \A c \in Conns : c = udp.new /\ c # None => ~IsOpen(Host[c])'
      BY Zenon, <1>1, <2>3, <3>2, <3>4 DEF PoolOK
    <3>7. ASSUME NEW h \in Hosts, Pooled(h) # None
          PROVE  conn'[Pooled(h)].at # "away"
      BY Zenon, <1>1, <2>3, <3>2, <3>7 DEF PoolOK, Pooled
    <3> QED BY Zenon, <1>1, <3>1, <3>2, <3>3, <3>5, <3>6, <3>7 DEF PoolOK, Pooled
  <2> QED BY Zenon, <1>1, <1>2, <1>4, <1>5, <1>6, <2>3, <2>5, <2>6, <2>7, <2>8 DEF IInv, TypeOK
<1>8. CASE L.feeds # "packets"
  <2>1. conn' = Reset(conn) \/ conn' = conn
    BY Zenon, <1>8 DEF CloseReturns
  <2>3. udp' = udp
    <3>1. (udp.closed \/ L.feeds = "packets") = udp.closed
      BY Zenon, <1>8, <1>9 DEF UdpType
    <3> QED BY <1>2, <1>9, <3>1 DEF UdpType
  <2>2. /\ conn' \in ConnType
        /\ \A c \in Conns : conn'[c] = conn[c] \/ (conn[c].at = "backlog" /\ conn'[c] = Gone)
    BY SMTT(30), <1>1, <2>1, ResetIs
  <2> QED BY Zenon, <1>1, <1>2, <1>4, <1>5, <1>6, <2>2, <2>3, ConnsAlone DEF IInv, TypeOK
<1> QED BY Zenon, <1>7, <1>8

-----------------------------------------------------------------------------
(* The invariant, and what it gives.                                       *)

\* A step that changes nothing keeps it too.
LEMMA StutterKeeps == IInv /\ UNCHANGED vars => IInv'
<1> SUFFICES ASSUME IInv, UNCHANGED vars PROVE IInv'
  BY Zenon
<1>1. TypeOK /\ ReasonsOK /\ Survives /\ faults \in 0..MaxFaults /\ conn \in ConnType
  BY Zenon DEF IInv, TypeOK
<1>2. UNCHANGED <<conf, svc, ln, conn, limiter, udp, faults>>
  BY Zenon DEF vars
<1>3. ReasonsOK' /\ Survives'
  BY SMTT(30), <1>1, <1>2, ReasonsKept, BoundsAssumption
<1> QED BY Zenon, <1>1, <1>2, <1>3, ConnsAlone DEF IInv, TypeOK

\* Every step of the service keeps the invariant.
LEMMA NextKeeps == IInv /\ [Next]_vars => IInv'
<1> SUFFICES ASSUME IInv, [Next]_vars PROVE IInv'
  BY Zenon
<1>1. conf.conns \subseteq Conns
  BY Zenon, ConnsAssumption DEF IInv, TypeOK
<1>2. CASE Serving
  BY Zenon, <1>2, AcceptQueuedKeeps, AcceptErrorKeeps, RetryKeeps, BindReturnsKeeps, BoundKeeps
     DEF Serving
<1>3. CASE Looping
  BY Zenon, <1>3, FeedFailsKeeps, DeviceLoopEndsKeeps, PoolSetKeeps, ReadFailsKeeps, ChecksKeep
     DEF Looping
<1>4. CASE Close \/ CloseReturns \/ Reload
  BY Zenon, <1>4, CloseKeeps, CloseReturnsKeeps, ReloadKeeps
<1>5. ASSUME NEW c \in conf.conns,
             \/ Arrive(c) \/ Refuse(c) \/ Feed(c) \/ BadPacket(c) \/ Stream(c) \/ SessionEnds(c)
             \/ HandlerEnds(c) \/ Device(c) \/ AcceptOnce(c) \/ Traffic(c)
      PROVE  IInv'
  <2>1. c \in Conns
    BY Zenon, <1>1
  <2> QED BY Zenon, <1>5, <2>1, ArriveKeeps, RefuseKeeps, FeedKeeps, BadPacketKeeps, StreamKeeps,
             SessionEndsKeeps, HandlerEndsKeeps, QueuedKeeps, PacketsKeep
<1>6. CASE GetConn \/ \E h \in Hosts : ReadFrom(h) \/ Check(h)
  BY Zenon, <1>1, <1>6, PacketsKeep, ChecksKeep, QueuedKeeps DEF GetConn
<1>7. CASE UNCHANGED vars
  BY Zenon, <1>7, StutterKeeps
<1> QED BY Zenon, <1>2, <1>3, <1>4, <1>5, <1>6, <1>7 DEF Next

\* The invariant holds of every behaviour of the service and its listener.
THEOREM ServiceInvariant == Spec => []IInv
BY InitIInv, NextKeeps, PTL DEF Spec

\* However its listener, its clients, its limits and Close interleave, Serve
\* stops only for a reason (service/service.go:218).
THEOREM ServeSurvives == Spec => []Survives
<1>1. IInv => Survives
  BY Zenon DEF IInv
<1> QED BY <1>1, ServiceInvariant, PTL

\* The connection limits are kept for any number of connections, hosts and
\* reloads: a limiter counts exactly the open connections that hold a slot of
\* it, and no more than it allows (limiter/conn/limiter.go:24).
THEOREM LimitsAreKept == Spec => []LimitHolds
<1>1. IInv => LimitHolds
  <2> SUFFICES ASSUME IInv, NEW g \in Gens, NEW k \in Keys
               PROVE  /\ Limit(k) > 0 => limiter.count[g][k] <= Limit(k)
                      /\ limiter.count[g][k] = Cardinality({c \in Conns :
                           /\ conn[c].open /\ conn[c].slot = g
                           /\ Limit(k) > 0 /\ k \in {Host[c], "global"}})
    BY DEF LimitHolds
  <2>1. \A c \in Conns : conn[c].slot = g => conn[c].open
    BY Zenon, GensAreNat DEF IInv, SlotsOK, SlotOK
  <2>2. Holders(g, k) = {c \in Conns : /\ conn[c].open /\ conn[c].slot = g
                                       /\ Limit(k) > 0 /\ k \in {Host[c], "global"}}
    BY Zenon, <2>1 DEF Holders, Holds, Group
  <2> QED BY Zenon, <2>2 DEF IInv, Counted
<1> QED BY <1>1, ServiceInvariant, PTL

\* What is neither getConn, nor the idle check, nor the end of Close leaves the
\* pool of the UDP listener alone, and opens none of its connections.
LEMMA OthersLeaveThePool ==
  ASSUME IInv, [Next]_vars, L.feeds = "packets", NEW c \in Conns,
         ~PoolSet, ~Checking, ~GetConn, ~CloseReturns, ~\E h \in Hosts : Check(h)
  PROVE  /\ udp'.pool = udp.pool /\ udp'.closed = udp.closed /\ udp'.new = udp.new
         /\ udp'.check = udp.check /\ udp'.step = udp.step
         /\ conn'[c].open => conn[c].open
<1> DEFINE Alone == /\ udp'.pool = udp.pool /\ udp'.closed = udp.closed /\ udp'.new = udp.new
                    /\ udp'.check = udp.check /\ udp'.step = udp.step
<1>1. udp \in UdpType /\ conn \in ConnType /\ c \in Conns /\ QueueOK /\ ln \in LnType
  BY Zenon DEF IInv, TypeOK
<1>2. ~Feeding
  BY Zenon DEF Feeding
<1>3. ASSUME NEW d \in Conns, Closed(d) PROVE conn'[c].open => conn[c].open
  BY Zenon, <1>1, <1>3 DEF Closed, Gone, ConnType
<1>4. ASSUME NEW d \in Conns, NEW l, Serves(d, l) PROVE conn'[c].open => conn[c].open
  <2>1. CASE conn' = [conn EXCEPT ![d] = [@ EXCEPT !.at = "serving", !.slot = l.slot]]
    BY Zenon, <1>1, <2>1 DEF ConnType
  <2> QED BY Zenon, <1>3, <1>4, <2>1 DEF Serves
<1>5. Reset(conn)[c].open => conn[c].open
  BY Zenon, <1>1 DEF Reset, Gone
<1>6. CASE Serving
  <2>1. udp' = udp
    BY Zenon, <1>6 DEF Serving, AcceptQueued, AcceptError, Retry, Return, Bind, BindReturns, Bound
  <2>2. CASE AcceptQueued
    <3>1. Head(ln.queue) \in Conns
      BY <1>1, <2>2 DEF AcceptQueued, LnType
    <3>2. CASE \E l : Serves(Head(ln.queue), l)
      BY Zenon, <1>4, <2>1, <3>1, <3>2
    <3>3. CASE conn' = [conn EXCEPT ![Head(ln.queue)] = Gone]
      BY Zenon, <1>1, <2>1, <3>1, <3>3 DEF Gone, ConnType
    <3> QED BY Zenon, <2>1, <2>2, <3>2, <3>3 DEF AcceptQueued
  <2>3. CASE ~AcceptQueued
    BY Zenon, <1>5, <1>6, <2>1, <2>3
       DEF Serving, AcceptError, Retry, Return, Bind, BindReturns, Bound
  <2> QED BY Zenon, <2>2, <2>3
<1>7. CASE Looping
  BY Zenon, <1>2, <1>7 DEF Looping, FeedFails, DeviceLoopEnds, ReadFails
<1>8. CASE Reload \/ UNCHANGED vars
  BY Zenon, <1>8 DEF Reload, vars
<1>9. CASE Close
  <2>1. AfterCut[c].open => conn[c].open
    BY Zenon, <1>1 DEF AfterCut, Gone, ConnType
  <2>2. Reset(AfterCut)[c].open => AfterCut[c].open
    BY Zenon DEF Reset, Gone
  <2> QED BY Zenon, <1>9, <2>1, <2>2 DEF Close
<1>10. ASSUME NEW d \in conf.conns,
             \/ Arrive(d) \/ Refuse(d) \/ Feed(d) \/ BadPacket(d) \/ Stream(d) \/ SessionEnds(d)
             \/ HandlerEnds(d) \/ Device(d) \/ AcceptOnce(d) \/ Traffic(d)
       PROVE  Alone /\ (conn'[c].open => conn[c].open)
  <2>1. d \in Conns
    BY Zenon, <1>10, ConnsAssumption DEF IInv, TypeOK
  <2>2. CASE Stream(d)
    <3>1. CASE conn' = [conn EXCEPT ![d].at = "queued"]
      BY Zenon, <1>1, <2>1, <2>2, <3>1 DEF Stream, ConnType
    <3> QED BY Zenon, <1>3, <2>1, <2>2, <3>1 DEF Stream
  <2>3. CASE SessionEnds(d)
    BY Zenon, <1>1, <2>1, <2>3 DEF SessionEnds, Gone, ConnType
  <2>4. CASE HandlerEnds(d)
    BY Zenon, <1>3, <2>1, <2>4 DEF HandlerEnds
  <2>5. CASE Traffic(d)
    BY Zenon, <1>1, <2>1, <2>5 DEF Traffic, Shuts, ConnType, UdpType
  <2> QED BY Zenon, <1>2, <1>10, <2>2, <2>3, <2>4, <2>5
             DEF Arrive, Refuse, Feed, BadPacket, Device, AcceptOnce
<1>11. ASSUME NEW h \in Hosts, ReadFrom(h)
       PROVE  Alone /\ conn' = conn
  BY Zenon, <1>1, <1>11 DEF ReadFrom, UdpType
<1> QED BY Zenon, <1>6, <1>7, <1>8, <1>9, <1>10, <1>11 DEF Next

\* No open connection of the UDP listener gets out of reach of the idle check
\* and of Close, but where the idle check deletes another than the one it
\* looked at, and where Close closes the pool while getConn makes one
\* (internal/net/udp/listener.go:155, pool.go:58, :79).
THEOREM PoolReachesAll == Spec => PooledUntilClosed
<1> DEFINE InReach(c) ==
      L.feeds = "packets" /\ conn'[c].open /\ (conn[c].open => Reached(c))
          => Reached(c)' \/ DeletesAnother(c) \/ MissedByClose(c)
<1>1. ASSUME IInv, [Next]_vars, NEW c \in Conns PROVE InReach(c)
  <2>1. /\ PoolOK /\ udp \in UdpType /\ conn \in ConnType /\ udp.pool \in [Hosts -> Conns \cup {None}]
        /\ Host[c] \in Hosts /\ c # None
    BY Zenon, <1>1, HostsAreKeys, ConnsAssumption DEF IInv, TypeOK, UdpType
  <2> SUFFICES ASSUME L.feeds = "packets", conn'[c].open, conn[c].open => Reached(c)
               PROVE  Reached(c)' \/ DeletesAnother(c) \/ MissedByClose(c)
    BY Zenon
  <2>2. CASE PoolSet
    <3>1. udp.new \in Conns /\ ~IsOpen(Host[udp.new]) /\ conn[c].open /\ Host[udp.new] \in Hosts
      BY Zenon, <2>1, <2>2, HostsAreKeys DEF PoolSet, PoolOK, UdpType
    <3>2. /\ udp'.pool = [udp.pool EXCEPT ![Host[udp.new]] = udp.new]
          /\ udp'.closed = udp.closed /\ udp'.check = udp.check /\ udp'.step = udp.step
      BY Zenon, <2>1, <2>2 DEF PoolSet, UdpType
    <3>3. CASE udp.new = c
      BY Zenon, <2>1, <3>1, <3>2, <3>3 DEF Reached, Pooled
    <3>4. CASE udp.new # c
      <4>1. CASE Pooled(Host[c]) = c
        <5>1. Host[c] # Host[udp.new]
          BY Zenon, <2>1, <3>1, <4>1 DEF IsOpen
        <5> QED BY Zenon, <2>1, <3>1, <3>2, <3>4, <5>1 DEF Reached, Pooled
      <4> QED BY Zenon, <3>1, <3>2, <3>4, <4>1 DEF Reached
    <3> QED BY Zenon, <3>3, <3>4
  <2>3. CASE \E h \in Hosts : Check(h)
    <3>1. udp.check = None /\ conn' = conn
      BY Zenon, <2>3 DEF Check
    <3>2. udp'.pool = udp.pool /\ udp'.new = udp.new /\ udp'.closed = udp.closed
      BY Zenon, <2>1, <2>3 DEF Check, UdpType
    <3> QED BY Zenon, <2>1, <3>1, <3>2 DEF Reached, Pooled
  <2>4. CASE CheckLooks
    <3>1. udp'.pool = udp.pool /\ udp'.new = udp.new /\ udp'.closed = udp.closed
      BY Zenon, <2>1, <2>4 DEF CheckLooks, UdpType
    <3> QED BY Zenon, <2>4, <3>1 DEF CheckLooks, Reached, Pooled
  <2>5. CASE CheckDeletes
    <3>1. /\ udp.step = "delete" /\ udp'.step = "close" /\ udp'.check = udp.check
      BY Zenon, <2>1, <2>5 DEF CheckDeletes, UdpType
    <3> QED BY Zenon, <3>1 DEF Reached, DeletesAnother
  <2>6. CASE CheckCloses
    <3>1. udp'.pool = udp.pool /\ udp'.new = udp.new /\ udp'.closed = udp.closed
      BY Zenon, <2>1, <2>6 DEF CheckCloses, UdpType
    <3>2. conn[c].open /\ udp.check # c
      BY Zenon, <2>1, <2>6 DEF CheckCloses, Shuts, ConnType
    <3> QED BY Zenon, <3>1, <3>2 DEF Reached, Pooled
  <2>7. CASE CloseReturns
    <3>1. conn[c].open /\ Pooled(Host[c]) # c
      BY Zenon, <2>1, <2>7 DEF CloseReturns, ConnType
    <3>2. /\ udp'.new = udp.new /\ udp'.closed /\ udp'.check = udp.check /\ udp'.step = udp.step
      BY Zenon, <2>1, <2>7 DEF CloseReturns, UdpType
    <3> QED BY Zenon, <3>1, <3>2 DEF Reached, MissedByClose
  <2>8. CASE GetConn
    <3>1. CASE \E h \in Hosts : Packet(h) \/ Discard(h)
      <4>1. /\ udp'.pool = udp.pool /\ udp'.new = udp.new /\ udp'.closed = udp.closed
            /\ udp'.check = udp.check /\ udp'.step = udp.step /\ conn' = conn
        BY Zenon, <2>1, <3>1 DEF Packet, Discard, UdpType
      <4> QED BY Zenon, <4>1 DEF Reached, Pooled
    <3>2. ASSUME NEW d \in conf.conns, NewClient(d)
          PROVE  Reached(c)' \/ MissedByClose(c)
      <4>1. d \in Conns
        BY Zenon, <1>1, <3>2, ConnsAssumption DEF IInv, TypeOK
      <4>2. /\ udp'.pool = udp.pool /\ udp'.new = d /\ udp'.closed = udp.closed
            /\ udp'.check = udp.check /\ udp'.step = udp.step
        BY Zenon, <2>1, <3>2 DEF NewClient, UdpType
      <4>3. CASE c = d
        BY Zenon, <4>2, <4>3 DEF Reached, MissedByClose
      <4>4. CASE c # d
        <5>1. conn'[c] = conn[c]
          BY Zenon, <2>1, <3>2, <4>1, <4>4 DEF NewClient, ConnType
        <5>2. udp.new = None
          BY Zenon, <2>1, <3>2, <4>1, ConnsAssumption DEF NewClient, PoolOK
        <5> QED BY Zenon, <2>1, <4>2, <5>1, <5>2 DEF Reached, Pooled
      <4> QED BY Zenon, <4>3, <4>4
    <3> QED BY Zenon, <2>8, <3>1, <3>2 DEF GetConn
  <2>9. CASE ~PoolSet /\ ~Checking /\ ~GetConn /\ ~CloseReturns /\ ~\E h \in Hosts : Check(h)
    <3>1. /\ udp'.pool = udp.pool /\ udp'.closed = udp.closed /\ udp'.new = udp.new
          /\ udp'.check = udp.check /\ udp'.step = udp.step /\ conn[c].open
      BY Zenon, <1>1, <2>9, OthersLeaveThePool
    <3> QED BY Zenon, <3>1 DEF Reached, Pooled
  <2> QED BY Zenon, <2>2, <2>3, <2>4, <2>5, <2>6, <2>7, <2>8, <2>9 DEF Checking
<1> DEFINE AllInReach == \A c \in Conns : InReach(c)
<1>2. ASSUME IInv, [Next]_vars PROVE AllInReach
  BY Zenon, <1>1, <1>2
<1>3. [][AllInReach]_vars => PooledUntilClosed
  BY PTL DEF PooledUntilClosed
<1> QED BY <1>2, <1>3, ServiceInvariant, PTL DEF Spec
=============================================================================
