---------------------------- MODULE TrafficLimit -----------------------------
(***************************************************************************)
(* The traffic limiter of a service: the limits its reload puts in force,  *)
(* the limiters it makes for connections and for the host they come from,  *)
(* the cache of the service in front of it, and the connections that read  *)
(* and write through it, all at once.                                      *)
(*                                                                         *)
(* A limiter is an object: reload changes the rate of the ones it still    *)
(* holds, wherever they are in use.  A rate is also the burst, in units of *)
(* the chunks that are read; 0 is no limit.                                *)
(***************************************************************************)
EXTENDS Naturals, Sequences, FiniteSets

CONSTANTS Flows,      \* the connections, all of one host
          Rates,      \* the rates a limit may have, and 0
          Chunk,      \* what a call reads or writes at most
          FlowConfs   \* kind: stream, packets or writes; scope: service or
                      \* conn; plugin; range: the host is limited by a network
                      \* it is in; period: the limits are reloaded; flows;
                      \* bytes: what the peer sends; and the bounds edits:
                      \* changes of the limits, lapses: limiters that lapse
                      \* unused, races: reloads that overtake a lookup

VARIABLES tconf,  \* chosen once
          rule,   \* the limits as the sources have them: svc, conn, host
          lim,    \* the rate of every limiter made so far
          tbl,    \* the limiters held: svc, conn, host; and what others are
                  \* made from: gen, range
          rl,     \* the reload: where it is, and what it has loaded
          flow,   \* the calls in progress and what the cache holds
          io,     \* the bytes of the one flow that carries some
          edits, lapses, races

\* A plugin answers for the connections, and is not reloaded; the bytes are
\* those of one flow.
ASSUME TrafficAssumption ==
    /\ Rates \subseteq Nat /\ Chunk \in Nat \ {0}
    /\ \A t \in FlowConfs :
         /\ t.flows \subseteq Flows /\ t.bytes \in Nat /\ t.plugin \in BOOLEAN
         /\ t.plugin => t.scope = "conn" /\ ~t.period
         /\ t.bytes > 0 => \A f, g \in t.flows : f = g

tvars == <<tconf, rule, lim, tbl, rl, flow, io, edits, lapses, races>>

Nil == 0

TrafficInit(confs) ==
    /\ tconf \in confs
    /\ rule \in [svc : IF tconf.scope = "service" THEN Rates ELSE {0},
                 conn : IF tconf.scope = "conn" THEN Rates ELSE {0},
                 host : IF tconf.scope = "conn" /\ ~tconf.plugin THEN Rates ELSE {0}]
    /\ lim = <<>>
    /\ tbl = [svc |-> Nil, conn |-> [f \in Flows |-> Nil], host |-> Nil, gen |-> 0, range |-> 0]
    /\ rl = [at |-> IF tconf.plugin THEN "wait" ELSE "load", new |-> [svc |-> 0, conn |-> 0, host |-> 0]]
    /\ flow = [f \in Flows |-> [at |-> "idle", conn |-> Nil, host |-> Nil,
                                cached |-> <<>>, fresh |-> FALSE, use |-> <<>>]]
    /\ io = [next |-> 1, rbuf |-> <<>>, got |-> <<>>, left |-> 0, short |-> FALSE, wait |-> 0]
    /\ edits = 0 /\ lapses = 0 /\ races = 0

-----------------------------------------------------------------------------
(* Reload.                                                                 *)

\* A limit with a key: the limiter held is changed or dropped, or one is made.
Put(l, rate) ==
    IF rate = 0 THEN [all |-> lim, held |-> Nil]
    ELSE IF l = Nil THEN [all |-> Append(lim, rate), held |-> Len(lim) + 1]
    ELSE [all |-> [lim EXCEPT ![l] = rate], held |-> l]

\* load: what the sources hold now.  (A source that fails has no limits, as
\* if somebody had taken them out.)
Load == rule

\* Again and again with a period; the limit of the service comes first.
ReloadService ==
    /\ rl.at = "load" \/ (rl.at = "wait" /\ tconf.period)
    /\ LET new == Put(tbl.svc, Load.svc)
       IN lim' = new.all /\ tbl' = [tbl EXCEPT !.svc = new.held]
    /\ rl' = [at |-> "conns", new |-> Load]
    /\ UNCHANGED <<tconf, rule, flow, io, edits, lapses, races>>

\* The step may come between two steps of a lookup.
Overtakes ==
    LET mid == \E f \in Flows : flow[f].at \in {"conn", "host"}
    IN (mid => races < tconf.races) /\ races' = IF mid THEN races + 1 ELSE races

\* Mutant: the limiters of the connections keep the rate they were made with.
ReloadConnsNew ==
    /\ rl.at = "conns" /\ Overtakes
    /\ tbl' = [tbl EXCEPT !.gen = rl.new.conn,
                          !.conn = [f \in Flows |-> IF rl.new.conn = 0 THEN Nil ELSE @[f]]]
    /\ rl' = [rl EXCEPT !.at = "hosts"]
    /\ UNCHANGED <<tconf, rule, lim, flow, io, edits, lapses>>
\* The limit of every connection: the limiters held are dropped, or changed
\* when the limit is another than before.
ReloadConns ==
    /\ rl.at = "conns" /\ Overtakes
    /\ tbl' = [tbl EXCEPT !.gen = rl.new.conn,
                          !.conn = [f \in Flows |-> IF rl.new.conn = 0 THEN Nil ELSE @[f]]]
    /\ lim' = IF rl.new.conn \in {0, tbl.gen} THEN lim
              ELSE [i \in DOMAIN lim |-> IF i \in {tbl.conn[f] : f \in Flows} THEN rl.new.conn
                                         ELSE lim[i]]
    /\ rl' = [rl EXCEPT !.at = "hosts"]
    /\ UNCHANGED <<tconf, rule, flow, io, edits, lapses>>

\* The limit of the host: by its address, or by a network it is in; then only
\* the limiter held is changed or dropped.
ReloadHosts ==
    /\ rl.at = "hosts" /\ Overtakes
    /\ LET new == IF tconf.range /\ tbl.host = Nil THEN Put(Nil, 0) ELSE Put(tbl.host, rl.new.host)
       IN lim' = new.all /\ tbl' = [tbl EXCEPT !.host = new.held]
    /\ rl' = [rl EXCEPT !.at = "ranges"]
    /\ UNCHANGED <<tconf, rule, flow, io, edits, lapses>>

ReloadRanges ==
    /\ rl.at = "ranges" /\ Overtakes
    /\ tbl' = [tbl EXCEPT !.range = IF tconf.range THEN rl.new.host ELSE 0]
    /\ rl' = [rl EXCEPT !.at = "wait"]
    /\ UNCHANGED <<tconf, rule, lim, flow, io, edits, lapses>>

\* Somebody changes a limit where it is written.
EditLimit ==
    /\ edits < tconf.edits /\ edits' = edits + 1
    /\ \E r \in Rates :
         \/ tconf.scope = "service" /\ r # rule.svc /\ rule' = [rule EXCEPT !.svc = r]
         \/ tconf.scope = "conn" /\ r # rule.conn /\ rule' = [rule EXCEPT !.conn = r]
         \/ tconf.scope = "conn" /\ ~tconf.plugin /\ r # rule.host /\ rule' = [rule EXCEPT !.host = r]
    /\ UNCHANGED <<tconf, lim, tbl, rl, flow, io, lapses, races>>

\* A limiter nobody has asked for in 15 seconds is forgotten; that of the
\* service stays.
Lapse ==
    /\ lapses < tconf.lapses /\ lapses' = lapses + 1
    /\ \/ tbl.host # Nil /\ tbl' = [tbl EXCEPT !.host = Nil]
       \/ \E f \in Flows : tbl.conn[f] # Nil /\ tbl' = [tbl EXCEPT !.conn[f] = Nil]
    /\ UNCHANGED <<tconf, rule, lim, rl, flow, io, edits, races>>

-----------------------------------------------------------------------------
(* In and Out: of the cache, and of the limiter behind it.                 *)

\* A call asks the cache; what is fresh is used ...
Fresh(f) ==
    /\ f \in tconf.flows /\ flow[f].at = "idle" /\ flow[f].fresh
    /\ flow' = [flow EXCEPT ![f] = [@ EXCEPT !.at = "ready", !.use = flow[f].cached]]
    /\ UNCHANGED <<tconf, rule, lim, tbl, rl, io, edits, lapses, races>>

\* ... and the limiter is asked when nothing is.
Asks(f) == f \in tconf.flows /\ flow[f].at = "idle" /\ ~flow[f].fresh

\* equal: by the rate of the first.
SameLimit(old, new) == old # <<>> /\ new # <<>> /\ lim'[old[1]] = lim'[new[1]]

\* Mutant: the cache forgets a limit that is gone.
CacheForgets(f, new) ==
    LET old == flow[f].cached
        kept == IF SameLimit(old, new) THEN old ELSE new
    IN flow' = [flow EXCEPT ![f] = [@ EXCEPT !.at = "ready", !.use = kept, !.cached = kept,
                                             !.fresh = TRUE, !.conn = Nil, !.host = Nil]]
\* The cache takes the answer, unless the limit is the same; no answer is no
\* news, and is not remembered when there was none before.
Cache(f, new) ==
    LET old == flow[f].cached
        kept == IF new = <<>> \/ SameLimit(old, new) THEN old ELSE new
    IN flow' = [flow EXCEPT ![f] = [@ EXCEPT !.at = "ready", !.use = kept, !.cached = kept,
                                             !.fresh = kept # <<>>, !.conn = Nil, !.host = Nil]]

InService(f) ==
    /\ Asks(f) /\ tconf.scope = "service" /\ UNCHANGED lim
    /\ Cache(f, IF tbl.svc = Nil THEN <<>> ELSE <<tbl.svc>>)
    /\ UNCHANGED <<tconf, rule, tbl, rl, io, edits, lapses, races>>

\* A plugin is asked anew; it may fail, and it may answer 0.
InPlugin(f) ==
    /\ Asks(f) /\ tconf.plugin
    /\ \/ UNCHANGED lim /\ Cache(f, <<>>)
       \/ LET old == flow[f].cached IN
          IF old # <<>> /\ lim[old[1]] = rule.conn THEN UNCHANGED lim /\ Cache(f, old)
          ELSE lim' = Append(lim, rule.conn) /\ Cache(f, <<Len(lim) + 1>>)
    /\ UNCHANGED <<tconf, rule, tbl, rl, io, edits, lapses, races>>

\* The limiter of the connection is found, or made (when no more races are left,
\* not in the middle of a reload) ...
InConn(f) ==
    /\ Asks(f) /\ tconf.scope = "conn" /\ ~tconf.plugin
    /\ races = tconf.races => rl.at \in {"load", "wait"}
    /\ LET new == tbl.conn[f] = Nil /\ tbl.gen > 0 IN
       /\ lim' = IF new THEN Append(lim, tbl.gen) ELSE lim
       /\ flow' = [flow EXCEPT ![f] = [@ EXCEPT !.at = "conn",
                                                !.conn = IF new THEN Len(lim) + 1 ELSE tbl.conn[f]]]
    /\ UNCHANGED <<tconf, rule, tbl, rl, io, edits, lapses, races>>

\* ... and set; then that of the host is found, or made ...
InHost(f) ==
    /\ flow[f].at = "conn"
    /\ LET new == tbl.host = Nil /\ tbl.range > 0 IN
       /\ lim' = IF new THEN Append(lim, tbl.range) ELSE lim
       /\ flow' = [flow EXCEPT ![f] = [@ EXCEPT !.at = "host",
                                                !.host = IF new THEN Len(lim) + 1 ELSE tbl.host]]
    /\ tbl' = IF flow[f].conn = Nil THEN tbl ELSE [tbl EXCEPT !.conn[f] = flow[f].conn]
    /\ UNCHANGED <<tconf, rule, rl, io, edits, lapses, races>>

\* ... and set; the lower rate is the first of the group.
InGroup(f) ==
    /\ flow[f].at = "host" /\ UNCHANGED lim
    /\ tbl' = IF flow[f].host = Nil THEN tbl ELSE [tbl EXCEPT !.host = flow[f].host]
    /\ LET c == flow[f].conn
           h == flow[f].host
       IN Cache(f, IF c = Nil /\ h = Nil THEN <<>>
                   ELSE IF h = Nil THEN <<c>> ELSE IF c = Nil THEN <<h>>
                   ELSE IF lim[h] < lim[c] THEN <<h, c>> ELSE <<c, h>>)
    /\ UNCHANGED <<tconf, rule, rl, io, edits, lapses, races>>

\* The refresh interval of the cache has passed.
Stale(f) ==
    /\ flow[f].fresh
    /\ flow' = [flow EXCEPT ![f].fresh = FALSE]
    /\ UNCHANGED <<tconf, rule, lim, tbl, rl, io, edits, lapses, races>>

-----------------------------------------------------------------------------
(* What the connection does with the limiter.                              *)

Least(S) == CHOOSE x \in S : \A y \in S : x <= y
Burst(f) == Least({lim[flow[f].use[i]] : i \in DOMAIN flow[f].use})
Open(f) == flow[f].use # <<>> => lim[flow[f].use[1]] = 0
Back(f) == [flow EXCEPT ![f] = [@ EXCEPT !.at = "idle", !.use = <<>>]]

\* Wait: no more than the burst of any limiter of the group.
Wait(f, n) == IF Burst(f) < n THEN Burst(f) ELSE n

Sent(n) == [i \in 1..n |-> io.next + i - 1]

\* Read without a limit; of what was kept back, nothing.
ReadOpen(f) ==
    /\ flow[f].at = "ready" /\ tconf.kind = "stream" /\ Open(f)
    /\ \E n \in 1..Chunk :
         /\ io.next + n <= tconf.bytes + 1
         /\ io' = [io EXCEPT !.next = @ + n, !.got = @ \o Sent(n)]
    /\ flow' = Back(f)
    /\ UNCHANGED <<tconf, rule, lim, tbl, rl, edits, lapses, races>>

\* Read of what was kept back, as much as the limit allows.
ReadKept(f) ==
    /\ flow[f].at = "ready" /\ tconf.kind = "stream" /\ ~Open(f) /\ io.rbuf # <<>>
    /\ LET n == Wait(f, IF Len(io.rbuf) < Chunk THEN Len(io.rbuf) ELSE Chunk) IN
       io' = [io EXCEPT !.got = @ \o SubSeq(io.rbuf, 1, n),
                        !.rbuf = SubSeq(@, n + 1, Len(@))]
    /\ flow' = Back(f)
    /\ UNCHANGED <<tconf, rule, lim, tbl, rl, edits, lapses, races>>

\* Read within the limit; the rest is kept back.
ReadLimited(f) ==
    /\ flow[f].at = "ready" /\ tconf.kind = "stream" /\ ~Open(f) /\ io.rbuf = <<>>
    /\ \E nn \in 1..Chunk :
         /\ io.next + nn <= tconf.bytes + 1
         /\ io' = [io EXCEPT !.next = @ + nn, !.got = @ \o SubSeq(Sent(nn), 1, Wait(f, nn)),
                             !.rbuf = SubSeq(Sent(nn), Wait(f, nn) + 1, nn)]
    /\ flow' = Back(f)
    /\ UNCHANGED <<tconf, rule, lim, tbl, rl, edits, lapses, races>>

\* Nothing comes, or the call fails.
NoBytes(f) ==
    /\ flow[f].at = "ready" /\ io.left = 0
    /\ flow' = Back(f)
    /\ UNCHANGED <<tconf, rule, lim, tbl, rl, io, edits, lapses, races>>

\* A packet is read: over the burst it is dropped.  (The limiter is asked for
\* when the packet is there.)
ReadPacket(f) ==
    /\ flow[f].at = "ready" /\ tconf.kind = "packets" /\ io.next <= tconf.bytes
    /\ io' = [io EXCEPT !.next = @ + 1,
                        !.got = IF Open(f) \/ Wait(f, Chunk) = Chunk THEN @ \o Sent(1) ELSE @]
    /\ flow' = Back(f)
    /\ UNCHANGED <<tconf, rule, lim, tbl, rl, edits, lapses, races>>

\* Write: as much as the limit allows at a time.  Wait looks at the burst, and
\* then waits for as much ...
WriteWait(f) ==
    /\ flow[f].at = "ready" /\ tconf.kind = "writes" /\ io.wait = 0
    /\ io.next <= tconf.bytes /\ ~io.short
    /\ LET left == IF io.left = 0 THEN Chunk ELSE io.left IN
       io' = [io EXCEPT !.left = left, !.wait = IF Open(f) THEN left ELSE Wait(f, left)]
    /\ UNCHANGED <<tconf, rule, lim, tbl, rl, flow, edits, lapses, races>>

\* ... unless the burst is less by then: the call returns what is written.
WriteGo(f) ==
    /\ flow[f].at = "ready" /\ io.wait > 0
    /\ LET fails == ~Open(f) /\ Burst(f) < io.wait
           left == io.left - io.wait
       IN IF fails THEN io' = [io EXCEPT !.left = 0, !.wait = 0, !.short = TRUE, !.next = @ + 1]
          ELSE io' = [io EXCEPT !.left = left, !.wait = 0,
                                !.next = IF left = 0 THEN @ + 1 ELSE @,
                                !.got = IF left = 0 THEN @ \o Sent(1) ELSE @]
    /\ flow' = IF io'.left = 0 THEN Back(f) ELSE flow
    /\ UNCHANGED <<tconf, rule, lim, tbl, rl, edits, lapses, races>>

-----------------------------------------------------------------------------
\* What TrafficLimit is when another part of the service is looked at.
TrafficIdle ==
    /\ tconf = [kind |-> "stream", scope |-> "service", plugin |-> FALSE, range |-> FALSE,
                period |-> FALSE, flows |-> {}, bytes |-> 0, edits |-> 0,
                lapses |-> 0, races |-> 0]
    /\ rule = [svc |-> 0, conn |-> 0, host |-> 0]
    /\ lim = <<>>
    /\ tbl = [svc |-> Nil, conn |-> [f \in Flows |-> Nil], host |-> Nil, gen |-> 0, range |-> 0]
    /\ rl = [at |-> "wait", new |-> rule]
    /\ flow = [f \in Flows |-> [at |-> "idle", conn |-> Nil, host |-> Nil,
                                cached |-> <<>>, fresh |-> FALSE, use |-> <<>>]]
    /\ io = [next |-> 1, rbuf |-> <<>>, got |-> <<>>, left |-> 0, short |-> FALSE, wait |-> 0]
    /\ edits = 0 /\ lapses = 0 /\ races = 0

ReloadStep ==
    ReloadService \/ ReloadConns \/ ReloadHosts \/ ReloadRanges

FlowStep(f) ==
    \/ Fresh(f) \/ InService(f) \/ InPlugin(f) \/ InConn(f) \/ InHost(f) \/ InGroup(f)
    \/ ReadOpen(f) \/ ReadKept(f) \/ ReadLimited(f) \/ NoBytes(f) \/ ReadPacket(f)
    \/ WriteWait(f) \/ WriteGo(f)

TrafficNext ==
    \/ ReloadStep \/ EditLimit \/ Lapse
    \/ \E f \in Flows : FlowStep(f) \/ Stale(f)

TrafficSpec == TrafficInit(FlowConfs) /\ [][TrafficNext]_tvars

\* The goroutine of the reload runs, connections go on, and time passes.
\* (Strongly for a connection, as the bound on races must not hold it up.)
TrafficFairness ==
    /\ WF_tvars(ReloadStep)
    /\ \A f \in Flows : SF_tvars(FlowStep(f)) /\ WF_tvars(Stale(f))

-----------------------------------------------------------------------------
\* StreamIntact: what a connection delivers is what came, in order and with
\* nothing left out, whatever limits come and go while bytes are kept back
\* (limitConn.Read goes past them when there is no limit any more); packets may
\* be dropped and keep their order; and a write is whole.  Unless a plugin
\* lifts its limit by answering 0, and unless a limit is lowered between the
\* two looks Wait takes at the burst.
StreamIntact ==
    /\ tconf.kind = "stream" /\ (\A i \in DOMAIN lim : lim[i] # 0) =>
          \A i \in DOMAIN io.got : io.got[i] = i
    /\ tconf.kind = "packets" => \A i, j \in DOMAIN io.got : i < j => io.got[i] < io.got[j]
    /\ tconf.kind = "writes" /\ ~io.short => Len(io.got) = io.next - 1
    /\ io.short => edits > 0

\* The rates the connection should be held to, and those it is.
WantedRates == LET r == IF tconf.period THEN rule ELSE rl.new
               IN {r.svc, r.conn, r.host} \ {0}
HeldRates(f) == {lim[flow[f].cached[i]] : i \in DOMAIN flow[f].cached} \ {0}

\* A limiter that is in no table any more goes on in the cache: it is only
\* replaced when the first of the group, of when it was made, has another rate
\* than the limiters in force.
Lingers(f) == \E i \in DOMAIN flow[f].cached :
                 LET l == flow[f].cached[i] IN
                 /\ l \notin {tbl.svc, tbl.conn[f], tbl.host}
                 /\ lim[l] = Least(HeldRates(f)) /\ lim[l] < Least(WantedRates)

\* The limit of an address is only in the table of limiters: unused for 15
\* seconds it is gone, until a reload brings it back.
Forgotten == ~tconf.period /\ ~tconf.range /\ tbl.host = Nil /\ rl.new.host # 0

\* A lookup has set the limiter it made from the generator before the reload
\* replaced it; a reload that does not change the limit leaves it as it is.
Overtaken(f) == races > 0 /\ tbl.conn[f] # Nil /\ lim[tbl.conn[f]] # tbl.gen

\* LimitsConverge: when the limits stay as they are, every connection that goes
\* on is held to the lowest of them in the end, whatever reload, lookups and
\* lapses did in between: through the table, the generators and the cache, each
\* with times of its own.  A limit that is lifted may go on: the cache keeps it.
\* (A plugin is not waited for: it may fail for ever.)
LimitsConverge ==
    <>[](\A f \in tconf.flows :
           \/ WantedRates = {} \/ tconf.plugin \/ Forgotten \/ Overtaken(f)
           \/ /\ HeldRates(f) # {}
              /\ Least(HeldRates(f)) = Least(WantedRates) \/ Lingers(f))
=============================================================================
