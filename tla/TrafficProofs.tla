---------------------------- MODULE TrafficProofs ----------------------------
(***************************************************************************)
(* What holds of the traffic limiter for any rates, connections, edits,    *)
(* reloads and lapses: what a connection carries arrives whole.            *)
(***************************************************************************)
EXTENDS TrafficLimit, SequenceTheorems, TLAPS

-----------------------------------------------------------------------------
(* The inductive invariant.                                                *)

Limits == [svc : Nat, conn : Nat, host : Nat]
Ref == {Nil} \cup DOMAIN lim
Group(s) == s \in Seq(DOMAIN lim) /\ Len(s) <= 2
FlowType ==
    [at : {"idle", "conn", "host", "ready"}, conn : Ref, host : Ref, cached : Seq(DOMAIN lim),
     fresh : BOOLEAN, use : Seq(DOMAIN lim)]

IoType ==
    [next : Nat \ {0}, rbuf : Seq(Nat), got : Seq(Nat), left : Nat, short : BOOLEAN, wait : Nat]

TrafficTyped ==
    /\ tconf \in FlowConfs /\ rule \in Limits /\ lim \in Seq(Nat) /\ edits \in Nat
    /\ tbl \in [svc : Ref, conn : [Flows -> Ref], host : Ref, gen : Nat, range : Nat]
    /\ rl \in [at : {"load", "conns", "hosts", "ranges", "wait"}, new : Limits]
    /\ flow \in [Flows -> FlowType]
    /\ io \in IoType

\* A call uses what the cache holds, which is one limiter or two; only the
\* connections there are make calls.
Flowing ==
    \A f \in Flows :
        /\ Group(flow[f].cached)
        /\ flow[f].at = "ready" => flow[f].use = flow[f].cached
        /\ flow[f].at # "idle" => f \in tconf.flows

\* Only a plugin makes limiters of rate 0; then nothing reloads the others.
NonZero ==
    /\ ~tconf.plugin => \A i \in DOMAIN lim : lim[i] # 0
    /\ tconf.plugin => rl.at = "wait"

\* While nobody edits the limits, every limiter has the rate that is written.
Steady ==
    edits = 0 =>
        /\ rl.at \in {"conns", "hosts", "ranges"} => rl.new = rule
        /\ tbl.svc # Nil => lim[tbl.svc] = rule.svc
        /\ tbl.host # Nil => lim[tbl.host] = rule.host
        /\ tbl.gen \in {0, rule.conn} /\ tbl.range \in {0, rule.host}
        /\ \A f \in Flows :
             /\ tbl.conn[f] # Nil => lim[tbl.conn[f]] = rule.conn
             /\ flow[f].conn # Nil => lim[flow[f].conn] = rule.conn
             /\ flow[f].host # Nil => lim[flow[f].host] = rule.host

\* Bytes are kept back, or waited with, for the one connection that has some.
Single == \A f, g \in tconf.flows : f = g

\* s holds what comes after the first k.
Numbered(s, k) == \A i \in 1..Len(s) : s[i] = k + i

\* What was read is what was delivered and what is kept back.
Whole ==
    tconf.kind = "stream" /\ (\A i \in DOMAIN lim : lim[i] # 0) =>
        /\ Len(io.got) + Len(io.rbuf) = io.next - 1
        /\ Numbered(io.got, 0) /\ Numbered(io.rbuf, Len(io.got))
        /\ io.rbuf # <<>> => Single /\ \A f \in tconf.flows : flow[f].cached # <<>>

Rising ==
    tconf.kind = "packets" =>
        /\ \A i \in 1..Len(io.got) : io.got[i] < io.next
        /\ \A i, j \in 1..Len(io.got) : i < j => io.got[i] < io.got[j]

Written ==
    /\ tconf.kind = "writes" /\ ~io.short => Len(io.got) = io.next - 1
    /\ io.short => edits > 0
    /\ io.wait <= io.left
    /\ io.wait > 0 =>
         /\ tconf.kind = "writes" /\ Single
         /\ \A f \in tconf.flows :
              flow[f].at = "ready" /\ (edits = 0 => Open(f) \/ io.wait <= Burst(f))

TrafficInv == TrafficTyped /\ Flowing /\ NonZero /\ Steady /\ Whole /\ Rising /\ Written

-----------------------------------------------------------------------------
(* The first state.                                                        *)

\* There are no limiters yet, and nothing has been sent.
LEMMA TrafficInitOK ==
    ASSUME TrafficInit(FlowConfs)
    PROVE  TrafficInv
<1>1. /\ tconf \in FlowConfs /\ lim = <<>> /\ edits = 0
      /\ rule \in [svc : IF tconf.scope = "service" THEN Rates ELSE {0},
                   conn : IF tconf.scope = "conn" THEN Rates ELSE {0},
                   host : IF tconf.scope = "conn" /\ ~tconf.plugin THEN Rates ELSE {0}]
      /\ tbl = [svc |-> Nil, conn |-> [f \in Flows |-> Nil], host |-> Nil, gen |-> 0, range |-> 0]
      /\ rl = [at |-> IF tconf.plugin THEN "wait" ELSE "load",
               new |-> [svc |-> 0, conn |-> 0, host |-> 0]]
      /\ flow = [f \in Flows |-> [at |-> "idle", conn |-> Nil, host |-> Nil,
                                  cached |-> <<>>, fresh |-> FALSE, use |-> <<>>]]
      /\ io = [next |-> 1, rbuf |-> <<>>, got |-> <<>>, left |-> 0, short |-> FALSE, wait |-> 0]
  BY Zenon DEF TrafficInit
<1>2. rule \in Limits
  <2>1. rule.svc \in Rates \cup {0} /\ rule.conn \in Rates \cup {0} /\ rule.host \in Rates \cup {0}
    BY Zenon, <1>1
  <2>2. rule = [svc |-> rule.svc, conn |-> rule.conn, host |-> rule.host]
    BY Zenon, <1>1
  <2>3. rule.svc \in Nat /\ rule.conn \in Nat /\ rule.host \in Nat
    <3>1. \A r \in Rates \cup {0} : r \in Nat
      BY SMTT(30), TrafficAssumption
    <3> QED
      BY Zenon, <2>1, <3>1
  <2> QED
    BY Zenon, <2>2, <2>3 DEF Limits
<1>3. lim \in Seq(Nat) /\ DOMAIN lim = {} /\ <<>> \in Seq(DOMAIN lim) /\ Len(<<>>) = 0
      /\ <<>> \in Seq(Nat)
  BY <1>1, EmptySeq
<1>4. Nil \in Ref
  BY Zenon DEF Ref
<1>5. TrafficTyped
  <2>1. tbl \in [svc : Ref, conn : [Flows -> Ref], host : Ref, gen : Nat, range : Nat]
    BY Zenon, <1>1, <1>4
  <2>2. rl \in [at : {"load", "conns", "hosts", "ranges", "wait"}, new : Limits]
    BY Zenon, <1>1 DEF Limits
  <2>3. flow \in [Flows -> FlowType]
    BY Zenon, <1>1, <1>3, <1>4 DEF FlowType
  <2>4. io \in IoType
    BY <1>1, <1>3 DEF IoType
  <2> QED
    BY Zenon, <1>1, <1>2, <1>3, <2>1, <2>2, <2>3, <2>4 DEF TrafficTyped
<1>6. Flowing
  <2>1. \A f \in Flows : flow[f].cached = <<>> /\ flow[f].at = "idle"
    BY Zenon, <1>1
  <2> QED
    <3>0. Group(<<>>)
      BY <1>3 DEF Group
    <3>1. \A f \in Flows : Group(flow[f].cached)
      BY Zenon, <2>1, <3>0
    <3> QED
      BY Zenon, <2>1, <3>1 DEF Flowing
<1>7. NonZero
  BY Zenon, <1>1, <1>3 DEF NonZero
<1>8. Steady
  BY Zenon, <1>1 DEF Steady
<1>9. io.got = <<>> /\ io.rbuf = <<>> /\ io.next = 1 /\ ~io.short /\ io.wait = 0 /\ io.left = 0
  BY Zenon, <1>1
<1>10. Whole
  BY <1>3, <1>9 DEF Whole, Numbered
<1>11. Rising
  BY <1>3, <1>9 DEF Rising
<1>12. Written
  BY <1>3, <1>9 DEF Written
<1> QED
  BY Zenon, <1>5, <1>6, <1>7, <1>8, <1>10, <1>11, <1>12 DEF TrafficInv

-----------------------------------------------------------------------------
(* The rates of a group.                                                   *)

LEMMA LeastIs ==
    ASSUME NEW x \in Nat, NEW y \in Nat
    PROVE  Least({x, y}) \in Nat
<1>1. \E z \in {x, y} : \A w \in {x, y} : z <= w
  <2>1. CASE x <= y
    BY <2>1
  <2>2. CASE y <= x
    BY <2>2
  <2> QED
    BY <2>1, <2>2
<1> QED
  BY Zenon, <1>1 DEF Least

\* Of one limiter or two, the burst is a number.
LEMMA BurstIs ==
    ASSUME TrafficTyped, NEW f \in Flows, Group(flow[f].use), flow[f].use # <<>>
    PROVE  Burst(f) \in Nat
<1> DEFINE u == flow[f].use
<1>0. u \in Seq(DOMAIN lim) /\ lim \in Seq(Nat) /\ Len(u) <= 2
  BY Zenon DEF Group, TrafficTyped
<1> HIDE DEF u
<1>1. Len(u) \in {1, 2} /\ DOMAIN u = 1..Len(u)
  <2>1. Len(u) \in Nat /\ DOMAIN u = 1..Len(u) /\ Len(u) # 0
    BY <1>0, EmptySeq DEF u
  <2> QED
    BY SMTT(30), <1>0, <2>1
<1>2. u[1] \in DOMAIN lim /\ u[Len(u)] \in DOMAIN lim
  BY <1>0, <1>1
<1>3. lim[u[1]] \in Nat /\ lim[u[Len(u)]] \in Nat
  <2>1. \A i \in DOMAIN lim : lim[i] \in Nat
    BY <1>0
  <2> QED
    BY Zenon, <1>2, <2>1
<1>4. DOMAIN u = {1, Len(u)}
  <2>1. 1..1 = {1} /\ 1..2 = {1, 2}
    OBVIOUS
  <2> QED
    BY Zenon, <1>1, <2>1
<1>5. {lim[u[i]] : i \in DOMAIN u} = {lim[u[1]], lim[u[Len(u)]]}
  BY Zenon, <1>4
<1> QED
  BY Zenon, <1>3, <1>5, LeastIs DEF Burst, u

\* Wait gives no more than was asked for, nor than the burst.
LEMMA WaitIs ==
    ASSUME TrafficTyped, NEW f \in Flows, Group(flow[f].use), flow[f].use # <<>>, NEW n \in Nat
    PROVE  Wait(f, n) \in 0..n /\ Wait(f, n) <= Burst(f)
  BY BurstIs DEF Wait

-----------------------------------------------------------------------------
(* Steps that leave the bytes alone.                                       *)

\* Limiters are not forgotten, and while nobody edits none is changed.
Grows ==
    /\ lim' \in Seq(Nat) /\ DOMAIN lim \subseteq DOMAIN lim'
    /\ edits' = 0 => edits = 0 /\ \A i \in DOMAIN lim : lim'[i] = lim[i]
    /\ (\E i \in DOMAIN lim : lim[i] = 0) => \E i \in DOMAIN lim' : lim'[i] = 0

LEMMA BytesKept ==
    ASSUME TrafficInv, UNCHANGED <<tconf, io>>, Grows, edits' \in Nat,
           \A f \in Flows :
             /\ flow[f].at = "ready" => flow'[f].at = "ready" /\ flow'[f].use = flow[f].use
             /\ flow[f].cached # <<>> => flow'[f].cached # <<>>
    PROVE  Whole' /\ Rising' /\ Written'
<1>1. tconf.flows \subseteq Flows
  BY Zenon, TrafficAssumption DEF TrafficInv, TrafficTyped
<1>2. Whole'
  <2>1. SUFFICES ASSUME tconf.kind = "stream", \A i \in DOMAIN lim' : lim'[i] # 0
                 PROVE  /\ Len(io.got) + Len(io.rbuf) = io.next - 1
                        /\ Numbered(io.got, 0) /\ Numbered(io.rbuf, Len(io.got))
                        /\ io.rbuf # <<>> => Single /\ \A f \in tconf.flows : flow'[f].cached # <<>>
    BY Zenon DEF Whole, Single
  <2>2. \A i \in DOMAIN lim : lim[i] # 0
    BY Zenon, <2>1 DEF Grows
  <2> QED
    BY Zenon, <1>1, <2>1, <2>2 DEF TrafficInv, Whole
<1>3. Rising'
  BY Zenon DEF TrafficInv, Rising
<1>4. Written'
  <2>1. edits \in Nat /\ (edits' = 0 => edits = 0)
    BY Zenon DEF TrafficInv, TrafficTyped, Grows
  <2>2. ASSUME NEW f \in tconf.flows, io.wait > 0
        PROVE  flow'[f].at = "ready" /\ (edits' = 0 => Open(f)' \/ io.wait <= Burst(f)')
    <3>1. flow[f].at = "ready" /\ (edits = 0 => Open(f) \/ io.wait <= Burst(f)) /\ f \in Flows
      BY Zenon, <1>1, <2>2 DEF TrafficInv, Written
    <3>2. flow'[f].at = "ready" /\ flow'[f].use = flow[f].use
      BY Zenon, <3>1
    <3>3. ASSUME edits' = 0 PROVE Open(f)' \/ io.wait <= Burst(f)'
      <4>1. edits = 0 /\ \A i \in DOMAIN lim : lim'[i] = lim[i]
        BY Zenon, <3>3 DEF Grows
      <4>2. flow[f].use \in Seq(DOMAIN lim)
        BY Zenon, <3>1 DEF TrafficInv, TrafficTyped, FlowType
      <4>3. \A i \in DOMAIN flow[f].use : lim'[flow[f].use[i]] = lim[flow[f].use[i]]
        BY <4>1, <4>2
      <4>4. {lim'[flow'[f].use[i]] : i \in DOMAIN flow'[f].use}
              = {lim[flow[f].use[i]] : i \in DOMAIN flow[f].use}
        BY <3>2, <4>3
      <4>5. Burst(f)' = Burst(f)
        BY Zenon, <4>4 DEF Burst, Least
      <4>6. Open(f)' = Open(f)
        <5>1. flow[f].use # <<>> => 1 \in DOMAIN flow[f].use
          BY <4>2
        <5> QED
          BY Zenon, <3>2, <4>3, <5>1 DEF Open
      <4> QED
        BY Zenon, <3>1, <4>1, <4>5, <4>6
    <3> QED
      BY Zenon, <3>2, <3>3
  <2>3. /\ tconf.kind = "writes" /\ ~io.short => Len(io.got) = io.next - 1
        /\ io.short => edits > 0
        /\ io.wait <= io.left
        /\ io.wait > 0 => tconf.kind = "writes" /\ Single
    BY Zenon DEF TrafficInv, Written
  <2>4. io.short => edits' > 0
    BY <2>1, <2>3
  <2>5. Single' = Single
    BY Zenon DEF Single
  <2> QED
    BY Zenon, <2>2, <2>3, <2>4, <2>5 DEF Written
<1> QED
  BY Zenon, <1>2, <1>3, <1>4

\* References stay good.
LEMMA RefsKept ==
    ASSUME TrafficTyped, lim' \in Seq(Nat), DOMAIN lim \subseteq DOMAIN lim'
    PROVE  /\ Ref \subseteq Ref' /\ Seq(DOMAIN lim) \subseteq Seq(DOMAIN lim')
           /\ FlowType \subseteq FlowType'
<1>1. Ref \subseteq Ref'
  BY Zenon DEF Ref
<1>2. Seq(DOMAIN lim) \subseteq Seq(DOMAIN lim')
  BY DEF TrafficTyped
<1> QED
  BY Zenon, <1>1, <1>2 DEF FlowType

-----------------------------------------------------------------------------
(* Reload, edits and lapses.                                               *)

TableType(t, refs) == t \in [svc : refs, conn : [Flows -> refs], host : refs, gen : Nat, range : Nat]
ReloadType == [at : {"load", "conns", "hosts", "ranges", "wait"}, new : Limits]

\* What is to be shown of a step of the table.
LEMMA TableOK ==
    ASSUME TrafficInv, UNCHANGED <<tconf, flow, io>>, Grows, edits' \in Nat, rule' \in Limits,
           TableType(tbl', Ref'), rl' \in ReloadType, NonZero', Steady'
    PROVE  TrafficInv'
<1>1. TrafficTyped /\ Flowing /\ lim' \in Seq(Nat) /\ DOMAIN lim \subseteq DOMAIN lim'
  BY Zenon DEF TrafficInv, Grows
<1>2. FlowType \subseteq FlowType' /\ Seq(DOMAIN lim) \subseteq Seq(DOMAIN lim')
  BY Zenon, <1>1, RefsKept
<1>3. TrafficTyped'
  BY Zenon, <1>1, <1>2 DEF TrafficTyped, TableType, ReloadType
<1>4. Flowing'
  BY Zenon, <1>1, <1>2 DEF Flowing, Group
<1>5. Whole' /\ Rising' /\ Written'
  BY Zenon, BytesKept
<1> QED
  BY Zenon, <1>3, <1>4, <1>5 DEF TrafficInv

LEMMA AppendIs ==
    ASSUME lim \in Seq(Nat), NEW r \in Nat
    PROVE  /\ Append(lim, r) \in Seq(Nat) /\ DOMAIN Append(lim, r) = DOMAIN lim \cup {Len(lim) + 1}
           /\ \A i \in DOMAIN lim : Append(lim, r)[i] = lim[i]
           /\ Append(lim, r)[Len(lim) + 1] = r /\ Len(lim) + 1 # Nil
           /\ Len(lim) + 1 \notin DOMAIN lim
<1>1. Len(lim) \in Nat /\ DOMAIN lim = 1..Len(lim)
  OBVIOUS
<1>2. Append(lim, r) \in Seq(Nat) /\ Len(Append(lim, r)) = Len(lim) + 1
  OBVIOUS
<1>3. DOMAIN Append(lim, r) = 1..(Len(lim) + 1)
  BY <1>2
<1>4. 1..(Len(lim) + 1) = 1..Len(lim) \cup {Len(lim) + 1}
  BY <1>1
<1> QED
  BY <1>1, <1>2, <1>3, <1>4 DEF Nil

\* A limit is put in force: the limiter has its rate, the others keep theirs.
LEMMA PutIs ==
    ASSUME TrafficTyped, NEW l \in Ref, NEW r \in Nat, NEW new, new = Put(l, r)
    PROVE  /\ new.all \in Seq(Nat) /\ DOMAIN lim \subseteq DOMAIN new.all
           /\ new.held \in {Nil} \cup DOMAIN new.all
           /\ new.held # Nil => new.all[new.held] = r
           /\ \A i \in DOMAIN new.all : (new.all[i] = r /\ r # 0) \/ (i \in DOMAIN lim /\ new.all[i] = lim[i])
           /\ \A i \in DOMAIN lim : new.all[i] = lim[i] \/ (i = l /\ l # Nil /\ new.all[i] = r)
<1>1. lim \in Seq(Nat)
  BY Zenon DEF TrafficTyped
<1>2. CASE r = 0
  BY Zenon, <1>1, <1>2 DEF Put
<1>3. CASE r # 0 /\ l = Nil
  <2>1. new = [all |-> Append(lim, r), held |-> Len(lim) + 1]
    BY Zenon, <1>3 DEF Put
  <2> DEFINE a == new.all
             n == Len(lim) + 1
  <2>2. a = Append(lim, r) /\ new.held = n
    BY <2>1
  <2>3. a \in Seq(Nat) /\ DOMAIN a = DOMAIN lim \cup {n} /\ a[n] = r /\ n # Nil
        /\ n \notin DOMAIN lim /\ \A i \in DOMAIN lim : a[i] = lim[i]
    BY <1>1, <2>2, AppendIs
  <2>4. new.held = n
    BY Zenon, <2>2
  <2> HIDE DEF a, n
  <2>5. \A i \in DOMAIN a : (a[i] = r /\ r # 0) \/ (i \in DOMAIN lim /\ a[i] = lim[i])
    BY Zenon, <1>3, <2>3
  <2>6. a[new.held] = r /\ new.held \in DOMAIN a /\ DOMAIN lim \subseteq DOMAIN a
    BY Zenon, <2>3, <2>4
  <2> QED
    BY Zenon, <2>3, <2>5, <2>6 DEF a
<1>4. CASE r # 0 /\ l # Nil
  <2>1. new = [all |-> [lim EXCEPT ![l] = r], held |-> l]
    BY Zenon, <1>4 DEF Put
  <2>2. new.all = [lim EXCEPT ![l] = r] /\ new.held = l /\ l \in DOMAIN lim
    BY <1>4, <2>1 DEF Ref
  <2>3. new.all \in Seq(Nat) /\ DOMAIN new.all = DOMAIN lim
    BY <1>1, <2>2
  <2>4. \A i \in DOMAIN lim : new.all[i] = IF i = l THEN r ELSE lim[i]
    BY Zenon, <1>1, <2>2
  <2> DEFINE a == new.all
  <2>5. new.held = l /\ l \in DOMAIN lim /\ a \in Seq(Nat) /\ DOMAIN a = DOMAIN lim
        /\ \A i \in DOMAIN lim : a[i] = IF i = l THEN r ELSE lim[i]
    BY Zenon, <2>2, <2>3, <2>4
  <2> HIDE DEF a
  <2>6. \A i \in DOMAIN a : (a[i] = r /\ r # 0) \/ (i \in DOMAIN lim /\ a[i] = lim[i])
    BY Zenon, <1>4, <2>5
  <2>7. \A i \in DOMAIN lim : a[i] = lim[i] \/ (i = l /\ l # Nil /\ a[i] = r)
    BY Zenon, <1>4, <2>5
  <2>8. a[new.held] = r /\ new.held \in DOMAIN a
    BY Zenon, <2>5
  <2> QED
    BY Zenon, <2>5, <2>6, <2>7, <2>8 DEF a
<1> QED
  BY Zenon, <1>2, <1>3, <1>4

\* A reload is never that of a plugin.
LEMMA NoPlugin ==
    ASSUME TrafficInv, ReloadStep
    PROVE  ~tconf.plugin /\ \A i \in DOMAIN lim : lim[i] # 0
<1>1. ~tconf.plugin
  BY Zenon, TrafficAssumption DEF TrafficInv, TrafficTyped, NonZero, ReloadStep, ReloadService,
                           ReloadConns, ReloadHosts, ReloadRanges
<1> QED
  BY Zenon, <1>1 DEF TrafficInv, NonZero

\* While nobody edits, the limiters that are referred to keep their rates.
LEMMA SteadyKept ==
    ASSUME TrafficInv, Grows, edits' = 0, rule' = rule
    PROVE  /\ edits = 0
           /\ \A l \in Ref : l # Nil => lim'[l] = lim[l]
           /\ \A f \in Flows :
                /\ flow[f].conn \in Ref /\ flow[f].host \in Ref /\ tbl.conn[f] \in Ref
                /\ tbl.conn[f] # Nil => lim'[tbl.conn[f]] = rule'.conn
                /\ flow[f].conn # Nil => lim'[flow[f].conn] = rule'.conn
                /\ flow[f].host # Nil => lim'[flow[f].host] = rule'.host
           /\ tbl.svc # Nil => lim'[tbl.svc] = rule'.svc
           /\ tbl.host # Nil => lim'[tbl.host] = rule'.host
<1>1. edits = 0 /\ \A i \in DOMAIN lim : lim'[i] = lim[i]
  BY Zenon DEF Grows
<1>2. \A l \in Ref : l # Nil => lim'[l] = lim[l]
  BY Zenon, <1>1 DEF Ref
<1>3. /\ \A f \in Flows : flow[f].conn \in Ref /\ flow[f].host \in Ref /\ tbl.conn[f] \in Ref
      /\ tbl.svc \in Ref /\ tbl.host \in Ref
  BY Zenon DEF TrafficInv, TrafficTyped, FlowType
<1> QED
  BY Zenon, <1>1, <1>2, <1>3 DEF TrafficInv, Steady

LEMMA ReloadServiceOK ==
    ASSUME TrafficInv, ReloadService
    PROVE  TrafficInv'
<1> DEFINE new == Put(tbl.svc, rule.svc)
<1>1. /\ lim' = new.all /\ tbl' = [tbl EXCEPT !.svc = new.held]
      /\ rl' = [at |-> "conns", new |-> rule] /\ UNCHANGED <<tconf, rule, flow, io, edits>>
  BY Zenon DEF ReloadService, Load
<1>2. /\ TrafficTyped /\ Steady /\ ~tconf.plugin /\ (\A i \in DOMAIN lim : lim[i] # 0)
      /\ tbl.svc \in Ref /\ rule.svc \in Nat /\ rule \in Limits /\ edits \in Nat
      /\ TableType(tbl, Ref)
  BY Zenon, NoPlugin DEF TrafficInv, TrafficTyped, ReloadStep, Limits, TableType
<1>3. /\ new.all \in Seq(Nat) /\ DOMAIN lim \subseteq DOMAIN new.all
      /\ new.held \in {Nil} \cup DOMAIN new.all
      /\ new.held # Nil => new.all[new.held] = rule.svc
      /\ \A i \in DOMAIN new.all :
           (new.all[i] = rule.svc /\ rule.svc # 0) \/ (i \in DOMAIN lim /\ new.all[i] = lim[i])
      /\ \A i \in DOMAIN lim :
           new.all[i] = lim[i] \/ (i = tbl.svc /\ tbl.svc # Nil /\ new.all[i] = rule.svc)
  BY <1>2, PutIs
<1> HIDE DEF new
<1>4. Grows
  BY Zenon, <1>1, <1>2, <1>3 DEF Grows, Steady
<1>5. Ref \subseteq Ref' /\ new.held \in Ref'
  BY Zenon, <1>1, <1>2, <1>3, RefsKept DEF Ref
<1>6. TableType(tbl', Ref') /\ tbl'.svc = new.held /\ tbl'.conn = tbl.conn /\ tbl'.host = tbl.host
      /\ tbl'.gen = tbl.gen /\ tbl'.range = tbl.range
  BY Zenon, <1>1, <1>2, <1>5 DEF TableType
<1>7. rl' \in ReloadType /\ rl'.at = "conns" /\ rl'.new = rule
  BY Zenon, <1>1, <1>2 DEF ReloadType
<1>8. NonZero'
  BY Zenon, <1>1, <1>2, <1>3 DEF NonZero
<1>9. Steady'
  <2> SUFFICES ASSUME edits' = 0 PROVE Steady'
    BY Zenon DEF Steady
  <2> QED
    BY <1>1, <1>2, <1>3, <1>4, <1>6, <1>7, SteadyKept DEF Steady
<1> QED
  BY Zenon, <1>1, <1>2, <1>4, <1>6, <1>7, <1>8, <1>9, TableOK

LEMMA ReloadConnsOK ==
    ASSUME TrafficInv, ReloadConns
    PROVE  TrafficInv'
<1> DEFINE r == rl.new.conn
           c == [f \in Flows |-> IF r = 0 THEN Nil ELSE tbl.conn[f]]
           held == {tbl.conn[f] : f \in Flows}
<1>1. /\ tbl' = [tbl EXCEPT !.gen = r, !.conn = c]
      /\ lim' = IF r \in {0, tbl.gen} THEN lim
                ELSE [i \in DOMAIN lim |-> IF i \in held THEN r ELSE lim[i]]
      /\ rl.at = "conns" /\ rl' = [rl EXCEPT !.at = "hosts"] /\ UNCHANGED <<tconf, rule, flow, io, edits>>
  BY Zenon DEF ReloadConns
<1>2. /\ TrafficTyped /\ Steady /\ ~tconf.plugin /\ (\A i \in DOMAIN lim : lim[i] # 0)
      /\ r \in Nat /\ rule \in Limits /\ edits \in Nat /\ TableType(tbl, Ref) /\ rl \in ReloadType
      /\ lim \in Seq(Nat)
  BY Zenon, NoPlugin DEF TrafficInv, TrafficTyped, ReloadStep, Limits, TableType, ReloadType
<1>3. /\ c \in [Flows -> Ref] /\ \A f \in Flows : c[f] \in {Nil, tbl.conn[f]}
  BY Zenon, <1>2 DEF TableType, Ref
<1>4. \A i \in held : \E f \in Flows : i = tbl.conn[f]
  BY Zenon
<1> HIDE DEF c, held, r
<1>5. lim' \in Seq(Nat) /\ DOMAIN lim' = DOMAIN lim
      /\ \A i \in DOMAIN lim : lim'[i] = lim[i] \/ (i \in held /\ lim'[i] = r /\ r # 0)
  <2>1. CASE r \in {0, tbl.gen}
    BY Zenon, <1>1, <1>2, <2>1
  <2>2. CASE r \notin {0, tbl.gen}
    <3>1. lim' = [i \in DOMAIN lim |-> IF i \in held THEN r ELSE lim[i]]
      BY Zenon, <1>1, <2>2
    <3>2. DOMAIN lim = 1..Len(lim) /\ Len(lim) \in Nat /\ \A i \in DOMAIN lim : lim[i] \in Nat
      BY <1>2
    <3>3. lim' \in [1..Len(lim) -> Nat]
      BY Zenon, <1>2, <3>1, <3>2
    <3>4. lim' \in Seq(Nat)
      BY <3>2, <3>3, SeqDef
    <3> QED
      BY Zenon, <2>2, <3>1, <3>4
  <2> QED
    BY Zenon, <2>1, <2>2
<1>6. rl' \in ReloadType /\ rl'.at = "hosts" /\ rl'.new = rl.new
  BY Zenon, <1>1, <1>2 DEF ReloadType
<1>7. ASSUME edits = 0 PROVE r = rule.conn /\ rl.new = rule /\ \A i \in held : i # Nil => lim[i] = r
  BY Zenon, <1>1, <1>2, <1>4, <1>7 DEF Steady, r
<1>8. Grows
  <2>1. \A i \in DOMAIN lim : i # Nil
    BY <1>2 DEF Nil
  <2> QED
    BY Zenon, <1>1, <1>2, <1>5, <1>7, <2>1 DEF Grows
<1>9. Ref \subseteq Ref'
  BY Zenon, <1>5 DEF Ref
<1>10. TableType(tbl', Ref') /\ tbl'.svc = tbl.svc /\ tbl'.conn = c /\ tbl'.host = tbl.host
       /\ tbl'.gen = r /\ tbl'.range = tbl.range
  <2>1. c \in [Flows -> Ref']
    BY Zenon, <1>3, <1>9
  <2> QED
    BY Zenon, <1>1, <1>2, <1>9, <2>1 DEF TableType
<1>11. NonZero'
  BY Zenon, <1>1, <1>2, <1>5 DEF NonZero
<1>12. Steady'
  <2> SUFFICES ASSUME edits' = 0 PROVE Steady'
    BY Zenon DEF Steady
  <2>1. Steady /\ edits = 0 /\ rule' = rule /\ flow' = flow
    BY Zenon, <1>1, <1>2
  <2>2. /\ \A h \in Flows :
             /\ tbl.conn[h] # Nil => lim'[tbl.conn[h]] = rule'.conn
             /\ flow[h].conn # Nil => lim'[flow[h].conn] = rule'.conn
             /\ flow[h].host # Nil => lim'[flow[h].host] = rule'.host
        /\ tbl.svc # Nil => lim'[tbl.svc] = rule'.svc
        /\ tbl.host # Nil => lim'[tbl.host] = rule'.host
    BY Zenon, <1>1, <1>8, SteadyKept
  <2>3. \A h \in Flows : tbl'.conn[h] # Nil => lim'[tbl'.conn[h]] = rule'.conn
    BY Zenon, <1>3, <1>10, <2>2
  <2> QED
    BY Zenon, <1>6, <1>7, <1>10, <2>1, <2>2, <2>3 DEF Steady
<1> QED
  BY Zenon, <1>1, <1>2, <1>6, <1>8, <1>10, <1>11, <1>12, TableOK

LEMMA ReloadHostsOK ==
    ASSUME TrafficInv, ReloadHosts
    PROVE  TrafficInv'
<1> DEFINE r == IF tconf.range /\ tbl.host = Nil THEN 0 ELSE rl.new.host
           new == Put(tbl.host, r)
<1>1. /\ lim' = new.all /\ tbl' = [tbl EXCEPT !.host = new.held]
      /\ rl.at = "hosts" /\ rl' = [rl EXCEPT !.at = "ranges"] /\ UNCHANGED <<tconf, rule, flow, io, edits>>
  BY Zenon DEF ReloadHosts
<1>2. /\ TrafficTyped /\ Steady /\ ~tconf.plugin /\ (\A i \in DOMAIN lim : lim[i] # 0)
      /\ tbl.host \in Ref /\ rl.new.host \in Nat /\ rule \in Limits /\ edits \in Nat
      /\ TableType(tbl, Ref) /\ rl \in ReloadType
  BY Zenon, NoPlugin DEF TrafficInv, TrafficTyped, ReloadStep, Limits, TableType, ReloadType
<1>3. r \in Nat /\ (edits = 0 /\ r # 0 => r = rule.host)
  BY Zenon, <1>1, <1>2 DEF Steady
<1> HIDE DEF r
<1>4. /\ new.all \in Seq(Nat) /\ DOMAIN lim \subseteq DOMAIN new.all
      /\ new.held \in {Nil} \cup DOMAIN new.all
      /\ new.held # Nil => new.all[new.held] = r
      /\ \A i \in DOMAIN new.all :
           (new.all[i] = r /\ r # 0) \/ (i \in DOMAIN lim /\ new.all[i] = lim[i])
      /\ \A i \in DOMAIN lim :
           new.all[i] = lim[i] \/ (i = tbl.host /\ tbl.host # Nil /\ new.all[i] = r)
  BY <1>2, <1>3, PutIs
<1>5. r = 0 => new.all = lim /\ new.held = Nil
  BY Zenon DEF Put
<1> HIDE DEF new
<1>6. Grows
  BY Zenon, <1>1, <1>2, <1>3, <1>4, <1>5 DEF Grows, Steady
<1>7. Ref \subseteq Ref' /\ new.held \in Ref'
  BY Zenon, <1>1, <1>2, <1>4, RefsKept DEF Ref
<1>8. TableType(tbl', Ref') /\ tbl'.host = new.held /\ tbl'.conn = tbl.conn /\ tbl'.svc = tbl.svc
      /\ tbl'.gen = tbl.gen /\ tbl'.range = tbl.range
  BY Zenon, <1>1, <1>2, <1>7 DEF TableType
<1>9. rl' \in ReloadType /\ rl'.at = "ranges" /\ rl'.new = rl.new
  BY Zenon, <1>1, <1>2 DEF ReloadType
<1>10. NonZero'
  BY Zenon, <1>1, <1>2, <1>4 DEF NonZero
<1>11. Steady'
  <2> SUFFICES ASSUME edits' = 0 PROVE Steady'
    BY Zenon DEF Steady
  <2>1. edits = 0 /\ rl.new = rule
    BY Zenon, <1>1, <1>2 DEF Steady
  <2>2. tbl'.host # Nil => lim'[tbl'.host] = rule'.host
    BY Zenon, <1>1, <1>3, <1>4, <1>5, <1>8, <2>1
  <2> QED
    BY <1>1, <1>2, <1>6, <1>8, <1>9, <2>1, <2>2, SteadyKept DEF Steady
<1> QED
  BY Zenon, <1>1, <1>2, <1>6, <1>8, <1>9, <1>10, <1>11, TableOK

\* Steps that make no limiter.
LEMMA SameLimiters ==
    ASSUME TrafficInv, lim' = lim, edits' \in Nat, edits' = 0 => edits = 0
    PROVE  Grows /\ Ref' = Ref /\ FlowType' = FlowType
  BY Zenon DEF Grows, TrafficInv, TrafficTyped, Ref, FlowType

LEMMA ReloadRangesOK ==
    ASSUME TrafficInv, ReloadRanges
    PROVE  TrafficInv'
<1> DEFINE r == IF tconf.range THEN rl.new.host ELSE 0
<1>1. /\ rl.at = "ranges" /\ rl' = [rl EXCEPT !.at = "wait"] /\ tbl' = [tbl EXCEPT !.range = r]
      /\ UNCHANGED <<tconf, rule, lim, flow, io, edits>>
  BY Zenon DEF ReloadRanges
<1>2. /\ TrafficTyped /\ Steady /\ NonZero /\ ~tconf.plugin /\ rule \in Limits /\ edits \in Nat
      /\ TableType(tbl, Ref) /\ rl \in ReloadType
  BY Zenon, NoPlugin DEF TrafficInv, TrafficTyped, ReloadStep, TableType, ReloadType
<1>3. r \in Nat /\ (edits = 0 => r \in {0, rule.host})
  BY Zenon, <1>1, <1>2 DEF Steady, ReloadType, Limits
<1> HIDE DEF r
<1>4. Grows /\ Ref' = Ref
  BY Zenon, <1>1, <1>2, SameLimiters
<1>5. TableType(tbl', Ref') /\ tbl'.host = tbl.host /\ tbl'.conn = tbl.conn /\ tbl'.svc = tbl.svc
      /\ tbl'.gen = tbl.gen /\ tbl'.range = r
  BY Zenon, <1>1, <1>2, <1>3, <1>4 DEF TableType
<1>6. rl' \in ReloadType /\ rl'.at = "wait"
  BY Zenon, <1>1, <1>2 DEF ReloadType
<1>7. NonZero' /\ Steady'
  BY Zenon, <1>1, <1>2, <1>3, <1>5, <1>6 DEF NonZero, Steady
<1> QED
  BY Zenon, <1>1, <1>2, <1>4, <1>5, <1>6, <1>7, TableOK

LEMMA EditOK ==
    ASSUME TrafficInv, EditLimit
    PROVE  TrafficInv'
<1>1. edits' = edits + 1 /\ UNCHANGED <<tconf, lim, tbl, rl, flow, io>>
  BY Zenon DEF EditLimit
<1>2. /\ TrafficTyped /\ NonZero /\ rule \in Limits /\ edits \in Nat /\ TableType(tbl, Ref)
      /\ rl \in ReloadType
  BY Zenon DEF TrafficInv, TrafficTyped, TableType, ReloadType
<1>3. rule' \in Limits
  <2>1. PICK r \in Rates : \/ rule' = [rule EXCEPT !.svc = r]
                           \/ rule' = [rule EXCEPT !.conn = r]
                           \/ rule' = [rule EXCEPT !.host = r]
    BY Zenon DEF EditLimit
  <2>2. r \in Nat
    BY Zenon, TrafficAssumption
  <2> QED
    BY Zenon, <1>2, <2>1, <2>2 DEF Limits
<1>4. edits' \in Nat /\ edits' # 0
  BY <1>1, <1>2
<1>5. Grows /\ Ref' = Ref
  BY Zenon, <1>1, <1>4, SameLimiters
<1>6. NonZero' /\ Steady'
  BY Zenon, <1>1, <1>2, <1>4 DEF NonZero, Steady
<1> QED
  BY Zenon, <1>1, <1>2, <1>3, <1>4, <1>5, <1>6, TableOK

LEMMA LapseOK ==
    ASSUME TrafficInv, Lapse
    PROVE  TrafficInv'
<1>1. UNCHANGED <<tconf, rule, lim, rl, flow, io, edits>>
  BY Zenon DEF Lapse
<1>2. /\ TrafficTyped /\ NonZero /\ Steady /\ rule \in Limits /\ edits \in Nat /\ TableType(tbl, Ref)
      /\ rl \in ReloadType
  BY Zenon DEF TrafficInv, TrafficTyped, TableType, ReloadType
<1>3. Grows /\ Ref' = Ref
  BY Zenon, <1>1, <1>2, SameLimiters
<1>4. /\ TableType(tbl', Ref) /\ tbl'.svc = tbl.svc /\ tbl'.host \in {Nil, tbl.host}
      /\ tbl'.gen = tbl.gen /\ tbl'.range = tbl.range
      /\ \A f \in Flows : tbl'.conn[f] \in {Nil, tbl.conn[f]}
  <2>1. Nil \in Ref
    BY Zenon DEF Ref
  <2>2. CASE tbl' = [tbl EXCEPT !.host = Nil]
    BY Zenon, <1>2, <2>1, <2>2 DEF TableType
  <2>3. ASSUME NEW f \in Flows, tbl' = [tbl EXCEPT !.conn[f] = Nil] PROVE <1>4
    <3> DEFINE c == [tbl.conn EXCEPT ![f] = Nil]
    <3>1. c \in [Flows -> Ref] /\ \A g \in Flows : c[g] \in {Nil, tbl.conn[g]}
      BY Zenon, <1>2, <2>1 DEF TableType
    <3>2. tbl' = [tbl EXCEPT !.conn = c]
      BY Zenon, <2>3
    <3> HIDE DEF c
    <3> QED
      BY Zenon, <1>2, <3>1, <3>2 DEF TableType
  <2> QED
    BY Zenon, <2>2, <2>3 DEF Lapse
<1>5. NonZero' /\ Steady'
  BY Zenon, <1>1, <1>2, <1>4 DEF NonZero, Steady
<1> QED
  BY Zenon, <1>1, <1>2, <1>3, <1>4, <1>5, TableOK

-----------------------------------------------------------------------------
(* Lookups.                                                                *)

\* What is to be shown of a step of a lookup.
LEMMA LookupOK ==
    ASSUME TrafficInv, UNCHANGED <<tconf, rule, rl, io, edits>>, Grows, TableType(tbl', Ref'),
           NEW f \in Flows, NEW g \in FlowType', flow' = [flow EXCEPT ![f] = g],
           Len(g.cached) <= 2, g.at = "ready" => g.use = g.cached, f \in tconf.flows,
           flow[f].at = "ready" => g.at = "ready" /\ g.use = flow[f].use,
           flow[f].cached # <<>> => g.cached # <<>>, NonZero', Steady'
    PROVE  TrafficInv'
<1>1. /\ TrafficTyped /\ Flowing /\ lim' \in Seq(Nat) /\ DOMAIN lim \subseteq DOMAIN lim'
      /\ flow \in [Flows -> FlowType] /\ edits \in Nat
  BY Zenon DEF TrafficInv, Grows, TrafficTyped
<1>2. FlowType \subseteq FlowType' /\ Seq(DOMAIN lim) \subseteq Seq(DOMAIN lim')
  BY Zenon, <1>1, RefsKept
<1>3. flow' \in [Flows -> FlowType']
  BY Zenon, <1>1, <1>2
<1>4. \A h \in Flows : flow'[h] = IF h = f THEN g ELSE flow[h]
  BY Zenon, <1>1
<1>5. g.cached \in Seq(DOMAIN lim')
  BY Zenon DEF FlowType
<1>6. TrafficTyped'
  BY Zenon, <1>1, <1>3 DEF TrafficTyped, TableType
<1>7. Flowing'
  BY Zenon, <1>1, <1>2, <1>4, <1>5 DEF Flowing, Group
<1>8. Whole' /\ Rising' /\ Written'
  BY Zenon, <1>1, <1>4, BytesKept
<1> QED
  BY Zenon, <1>6, <1>7, <1>8 DEF TrafficInv

LEMMA FreshOK ==
    ASSUME TrafficInv, NEW f \in Flows, Fresh(f)
    PROVE  TrafficInv'
<1> DEFINE g == [flow[f] EXCEPT !.at = "ready", !.use = flow[f].cached]
<1>1. /\ flow' = [flow EXCEPT ![f] = g] /\ f \in tconf.flows /\ flow[f].at = "idle"
      /\ UNCHANGED <<tconf, rule, lim, tbl, rl, io, edits>>
  BY Zenon DEF Fresh
<1>2. /\ TrafficTyped /\ NonZero /\ Steady /\ edits \in Nat /\ TableType(tbl, Ref)
      /\ flow[f] \in FlowType /\ flow \in [Flows -> FlowType] /\ Group(flow[f].cached)
  BY Zenon DEF TrafficInv, TrafficTyped, TableType, Flowing
<1>3. Grows /\ Ref' = Ref /\ FlowType' = FlowType
  BY Zenon, <1>1, <1>2, SameLimiters
<1>4. g \in FlowType /\ g.cached = flow[f].cached /\ g.use = flow[f].cached
      /\ g.conn = flow[f].conn /\ g.host = flow[f].host
  BY Zenon, <1>2 DEF FlowType
<1> HIDE DEF g
<1>5. \A h \in Flows : flow'[h].conn = flow[h].conn /\ flow'[h].host = flow[h].host
  BY Zenon, <1>1, <1>2, <1>4
<1>6. NonZero' /\ Steady'
  BY <1>1, <1>2, <1>5 DEF NonZero, Steady
<1> QED
  BY Zenon, <1>1, <1>2, <1>3, <1>4, <1>6, LookupOK DEF Group

LEMMA StaleOK ==
    ASSUME TrafficInv, NEW f \in Flows, Stale(f)
    PROVE  TrafficInv'
<1> DEFINE g == [flow[f] EXCEPT !.fresh = FALSE]
<1>1. flow' = [flow EXCEPT ![f] = g] /\ UNCHANGED <<tconf, rule, lim, tbl, rl, io, edits>>
  BY Zenon DEF Stale
<1>2. /\ TrafficTyped /\ Flowing /\ NonZero /\ Steady /\ edits \in Nat /\ TableType(tbl, Ref)
      /\ flow[f] \in FlowType /\ flow \in [Flows -> FlowType]
  BY Zenon DEF TrafficInv, TrafficTyped, TableType
<1>3. Grows /\ Ref' = Ref /\ FlowType' = FlowType
  BY Zenon, <1>1, <1>2, SameLimiters
<1>4. g \in FlowType /\ g.cached = flow[f].cached /\ g.use = flow[f].use /\ g.at = flow[f].at
      /\ g.conn = flow[f].conn /\ g.host = flow[f].host
  BY Zenon, <1>2 DEF FlowType
<1> HIDE DEF g
<1>5. /\ flow' \in [Flows -> FlowType]
      /\ \A h \in Flows : /\ flow'[h].conn = flow[h].conn /\ flow'[h].host = flow[h].host
                          /\ flow'[h].cached = flow[h].cached /\ flow'[h].use = flow[h].use
                          /\ flow'[h].at = flow[h].at
  BY Zenon, <1>1, <1>2, <1>4
<1>6. NonZero' /\ Steady'
  BY <1>1, <1>2, <1>5 DEF NonZero, Steady
<1>7. TrafficTyped'
  BY Zenon, <1>1, <1>2, <1>3, <1>5 DEF TrafficTyped, TableType
<1>8. Flowing'
  BY Zenon, <1>1, <1>2, <1>5 DEF Flowing, Group
<1>9. Whole' /\ Rising' /\ Written'
  BY Zenon, <1>1, <1>2, <1>3, <1>5, BytesKept
<1> QED
  BY Zenon, <1>6, <1>7, <1>8, <1>9 DEF TrafficInv

\* The cache takes an answer, and never gives up a limit for none.
LEMMA CacheOK ==
    ASSUME TrafficInv, NEW f \in Flows, NEW new, Cache(f, new), new \in Seq(DOMAIN lim'),
           Len(new) <= 2, lim' \in Seq(Nat), DOMAIN lim \subseteq DOMAIN lim'
    PROVE  \E g \in FlowType' :
             /\ flow' = [flow EXCEPT ![f] = g] /\ g.at = "ready" /\ g.use = g.cached
             /\ Len(g.cached) <= 2 /\ (flow[f].cached # <<>> => g.cached # <<>>)
             /\ g.conn = Nil /\ g.host = Nil
<1> DEFINE old == flow[f].cached
           kept == IF new = <<>> \/ SameLimit(old, new) THEN old ELSE new
           b == kept # <<>>
           g == [flow[f] EXCEPT !.at = "ready", !.use = kept, !.cached = kept, !.fresh = b,
                                !.conn = Nil, !.host = Nil]
<1>1. /\ TrafficTyped /\ flow[f] \in FlowType /\ old \in Seq(DOMAIN lim) /\ Len(old) <= 2
  BY Zenon DEF TrafficInv, TrafficTyped, Flowing, Group
<1>2. FlowType \subseteq FlowType' /\ Seq(DOMAIN lim) \subseteq Seq(DOMAIN lim')
  BY Zenon, <1>1, RefsKept
<1>3. kept \in Seq(DOMAIN lim') /\ Len(kept) <= 2 /\ (old # <<>> => kept # <<>>)
  BY Zenon, <1>1, <1>2
<1>4. b \in BOOLEAN /\ flow[f] \in FlowType' /\ Nil \in Ref'
  BY Zenon, <1>1, <1>2 DEF Ref
<1>5. flow' = [flow EXCEPT ![f] = g]
  BY Zenon DEF Cache
<1> HIDE DEF kept, b
<1>6. g \in FlowType' /\ g.at = "ready" /\ g.use = kept /\ g.cached = kept /\ g.conn = Nil
      /\ g.host = Nil
  BY Zenon, <1>3, <1>4 DEF FlowType
<1> QED
  BY Zenon, <1>3, <1>5, <1>6

\* A lookup ends in the cache.
LEMMA CachedOK ==
    ASSUME TrafficInv, UNCHANGED <<tconf, rule, rl, io, edits>>, Grows, TableType(tbl', Ref'),
           NEW f \in Flows, NEW new, Cache(f, new), new \in Seq(DOMAIN lim'), Len(new) <= 2,
           f \in tconf.flows, flow[f].at # "ready", NonZero', tbl'.svc = tbl.svc,
           tbl'.gen = tbl.gen, tbl'.range = tbl.range, tbl'.conn = tbl.conn,
           tbl'.host \in {tbl.host, flow[f].host}
    PROVE  TrafficInv'
<1>1. lim' \in Seq(Nat) /\ DOMAIN lim \subseteq DOMAIN lim' /\ flow \in [Flows -> FlowType]
  BY Zenon DEF Grows, TrafficInv, TrafficTyped
<1>2. PICK g \in FlowType' :
             /\ flow' = [flow EXCEPT ![f] = g] /\ g.at = "ready" /\ g.use = g.cached
             /\ Len(g.cached) <= 2 /\ (flow[f].cached # <<>> => g.cached # <<>>)
             /\ g.conn = Nil /\ g.host = Nil
  BY Zenon, <1>1, CacheOK
<1>3. \A h \in Flows : flow'[h] = IF h = f THEN g ELSE flow[h]
  BY Zenon, <1>1, <1>2
<1>4. Steady'
  <2> SUFFICES ASSUME edits' = 0 PROVE Steady'
    BY Zenon DEF Steady
  <2>1. Steady /\ edits = 0
    BY Zenon DEF TrafficInv
  <2>2. /\ \A h \in Flows :
             /\ tbl.conn[h] # Nil => lim'[tbl.conn[h]] = rule'.conn
             /\ flow[h].conn # Nil => lim'[flow[h].conn] = rule'.conn
             /\ flow[h].host # Nil => lim'[flow[h].host] = rule'.host
        /\ tbl.svc # Nil => lim'[tbl.svc] = rule'.svc
        /\ tbl.host # Nil => lim'[tbl.host] = rule'.host
    BY Zenon, SteadyKept
  <2>3. \A h \in Flows :
          /\ flow'[h].conn # Nil => lim'[flow'[h].conn] = rule'.conn
          /\ flow'[h].host # Nil => lim'[flow'[h].host] = rule'.host
    BY <1>2, <1>3, <2>2
  <2>4. tbl'.host # Nil => lim'[tbl'.host] = rule'.host
    BY Zenon, <2>2
  <2> QED
    BY Zenon, <2>1, <2>2, <2>3, <2>4 DEF Steady
<1> QED
  BY Zenon, <1>2, <1>4, LookupOK

\* The limiters of a call: none, one or two.
LEMMA GroupsAre ==
    ASSUME NEW S
    PROVE  /\ <<>> \in Seq(S) /\ Len(<<>>) <= 2
           /\ \A c \in S : <<c>> \in Seq(S) /\ Len(<<c>>) <= 2
           /\ \A c, d \in S : <<c, d>> \in Seq(S) /\ Len(<<c, d>>) <= 2
<1>1. <<>> \in Seq(S) /\ Len(<<>>) = 0
  BY Zenon, EmptySeq
<1>2. \A c \in S : <<c>> \in Seq(S) /\ Len(<<c>>) <= 2
  OBVIOUS
<1>3. \A c, d \in S : <<c, d>> \in Seq(S) /\ Len(<<c, d>>) <= 2
  OBVIOUS
<1> QED
  BY <1>1, <1>2, <1>3

LEMMA InServiceOK ==
    ASSUME TrafficInv, NEW f \in Flows, InService(f)
    PROVE  TrafficInv'
<1> DEFINE new == IF tbl.svc = Nil THEN <<>> ELSE <<tbl.svc>>
<1>1. /\ Cache(f, new) /\ f \in tconf.flows /\ flow[f].at = "idle"
      /\ UNCHANGED <<tconf, rule, lim, tbl, rl, io, edits>>
  BY Zenon DEF InService, Asks
<1>2. /\ TrafficTyped /\ NonZero /\ edits \in Nat /\ TableType(tbl, Ref) /\ tbl.svc \in Ref
  BY Zenon DEF TrafficInv, TrafficTyped, TableType
<1>3. Grows /\ Ref' = Ref
  BY Zenon, <1>1, <1>2, SameLimiters
<1>4. new \in Seq(DOMAIN lim') /\ Len(new) <= 2
  <2>1. new = IF tbl.svc = Nil THEN <<>> ELSE <<tbl.svc>>
    BY Zenon
  <2>2. tbl.svc # Nil => tbl.svc \in DOMAIN lim'
    BY Zenon, <1>1, <1>2 DEF Ref
  <2> HIDE DEF new
  <2> QED
    BY Zenon, <2>1, <2>2, GroupsAre
<1> HIDE DEF new
<1>5. NonZero'
  BY Zenon, <1>1, <1>2 DEF NonZero
<1> QED
  BY Zenon, <1>1, <1>2, <1>3, <1>4, <1>5, CachedOK

\* A limiter is made.
LEMMA MadeIs ==
    ASSUME TrafficInv, NEW r \in Nat, lim' = Append(lim, r), UNCHANGED edits
    PROVE  /\ Grows /\ Ref \subseteq Ref' /\ Len(lim) + 1 \in Ref' /\ Len(lim) + 1 \in DOMAIN lim'
           /\ lim'[Len(lim) + 1] = r /\ DOMAIN lim' = DOMAIN lim \cup {Len(lim) + 1}
           /\ \A i \in DOMAIN lim : lim'[i] = lim[i]
<1>1. lim \in Seq(Nat)
  BY Zenon DEF TrafficInv, TrafficTyped
<1>2. /\ lim' \in Seq(Nat) /\ DOMAIN lim' = DOMAIN lim \cup {Len(lim) + 1}
      /\ \A i \in DOMAIN lim : lim'[i] = lim[i]
      /\ lim'[Len(lim) + 1] = r
  BY Zenon, <1>1, AppendIs
<1> QED
  BY Zenon, <1>2 DEF Grows, Ref

LEMMA InPluginOK ==
    ASSUME TrafficInv, NEW f \in Flows, InPlugin(f)
    PROVE  TrafficInv'
<1> DEFINE old == flow[f].cached
<1>1. /\ f \in tconf.flows /\ flow[f].at = "idle" /\ tconf.plugin
      /\ UNCHANGED <<tconf, rule, tbl, rl, io, edits>>
  BY Zenon DEF InPlugin, Asks
<1>2. /\ TrafficTyped /\ NonZero /\ edits \in Nat /\ TableType(tbl, Ref) /\ rule.conn \in Nat
      /\ old \in Seq(DOMAIN lim) /\ Len(old) <= 2
  BY Zenon DEF TrafficInv, TrafficTyped, TableType, Limits, Flowing, Group
<1>3. NonZero'
  BY Zenon, <1>1, <1>2 DEF NonZero
<1>4. ASSUME lim' = lim, NEW new \in {<<>>, old}, Cache(f, new) PROVE TrafficInv'
  <2>1. Grows /\ Ref' = Ref
    BY Zenon, <1>1, <1>2, <1>4, SameLimiters
  <2>2. new \in Seq(DOMAIN lim') /\ Len(new) <= 2
    <3> HIDE DEF old
    <3> QED
      BY Zenon, <1>2, <1>4, GroupsAre
  <2> QED
    BY Zenon, <1>1, <1>2, <1>3, <1>4, <2>1, <2>2, CachedOK
<1>5. ASSUME lim' = Append(lim, rule.conn), Cache(f, <<Len(lim) + 1>>) PROVE TrafficInv'
  <2>1. Grows /\ Ref \subseteq Ref' /\ Len(lim) + 1 \in DOMAIN lim'
    BY Zenon, <1>1, <1>2, <1>5, MadeIs
  <2>2. TableType(tbl', Ref')
    BY Zenon, <1>1, <1>2, <2>1 DEF TableType
  <2>3. <<Len(lim) + 1>> \in Seq(DOMAIN lim') /\ Len(<<Len(lim) + 1>>) <= 2
    BY <2>1
  <2> QED
    BY Zenon, <1>1, <1>2, <1>3, <1>5, <2>1, <2>2, <2>3, CachedOK
<1> QED
  BY Zenon, <1>4, <1>5 DEF InPlugin

\* A limiter is found, or made from what the reload has left for that.
LEMMA FoundIs ==
    ASSUME TrafficInv, NEW l \in Ref, NEW r \in Nat, UNCHANGED <<tconf, rl, edits>>,
           NEW c, c = IF l = Nil /\ r > 0 THEN Len(lim) + 1 ELSE l,
           lim' = IF l = Nil /\ r > 0 THEN Append(lim, r) ELSE lim
    PROVE  /\ Grows /\ NonZero' /\ Ref \subseteq Ref' /\ c \in Ref'
           /\ c # Nil => c \in DOMAIN lim' /\ lim'[c] = IF l = Nil THEN r ELSE lim[l]
<1>1. TrafficTyped /\ NonZero /\ lim \in Seq(Nat) /\ edits \in Nat
  BY Zenon DEF TrafficInv, TrafficTyped
<1>2. CASE l = Nil /\ r > 0
  <2>1. c = Len(lim) + 1 /\ lim' = Append(lim, r)
    BY Zenon, <1>2
  <2>2. /\ Grows /\ Ref \subseteq Ref' /\ Len(lim) + 1 \in Ref' /\ Len(lim) + 1 \in DOMAIN lim'
        /\ lim'[Len(lim) + 1] = r /\ DOMAIN lim' = DOMAIN lim \cup {Len(lim) + 1}
        /\ \A i \in DOMAIN lim : lim'[i] = lim[i]
    BY Zenon, <2>1, MadeIs
  <2>3. NonZero'
    BY <1>1, <1>2, <2>2 DEF NonZero
  <2> QED
    BY Zenon, <1>2, <2>1, <2>2, <2>3
<1>3. CASE ~(l = Nil /\ r > 0)
  <2>1. c = l /\ lim' = lim
    BY Zenon, <1>3
  <2>2. Grows /\ Ref' = Ref
    BY Zenon, <1>1, <2>1, SameLimiters
  <2>3. NonZero'
    BY Zenon, <1>1, <2>1 DEF NonZero
  <2> QED
    BY Zenon, <2>1, <2>2, <2>3 DEF Ref
<1> QED
  BY Zenon, <1>2, <1>3

LEMMA InConnOK ==
    ASSUME TrafficInv, NEW f \in Flows, InConn(f)
    PROVE  TrafficInv'
<1> DEFINE c == IF tbl.conn[f] = Nil /\ tbl.gen > 0 THEN Len(lim) + 1 ELSE tbl.conn[f]
           g == [flow[f] EXCEPT !.at = "conn", !.conn = c]
<1>1. /\ f \in tconf.flows /\ flow[f].at = "idle" /\ ~tconf.plugin
      /\ UNCHANGED <<tconf, rule, tbl, rl, io, edits>>
      /\ lim' = IF tbl.conn[f] = Nil /\ tbl.gen > 0 THEN Append(lim, tbl.gen) ELSE lim
      /\ flow' = [flow EXCEPT ![f] = g]
  BY Zenon DEF InConn, Asks
<1>2. /\ TrafficTyped /\ flow \in [Flows -> FlowType] /\ flow[f] \in FlowType /\ edits \in Nat
      /\ TableType(tbl, Ref) /\ tbl.conn[f] \in Ref /\ tbl.gen \in Nat
      /\ Group(flow[f].cached)
  BY Zenon DEF TrafficInv, TrafficTyped, TableType, Flowing
<1>3. c = IF tbl.conn[f] = Nil /\ tbl.gen > 0 THEN Len(lim) + 1 ELSE tbl.conn[f]
  BY Zenon
<1> HIDE DEF c
<1>4. /\ Grows /\ NonZero' /\ Ref \subseteq Ref' /\ c \in Ref'
      /\ c # Nil => c \in DOMAIN lim'
                    /\ lim'[c] = IF tbl.conn[f] = Nil THEN tbl.gen ELSE lim[tbl.conn[f]]
  BY <1>1, <1>2, <1>3, FoundIs
<1>5. FlowType \subseteq FlowType'
  BY Zenon, <1>2, <1>4, RefsKept DEF Grows
<1>6. g \in FlowType' /\ g.cached = flow[f].cached /\ g.at = "conn" /\ g.conn = c
      /\ g.host = flow[f].host
  <2>1. flow[f] \in FlowType'
    BY Zenon, <1>2, <1>5
  <2> QED
    BY Zenon, <2>1, <1>4 DEF FlowType
<1> HIDE DEF g
<1>7. \A h \in Flows : flow'[h] = IF h = f THEN g ELSE flow[h]
  BY Zenon, <1>1, <1>2
<1>8. Steady'
  <2> SUFFICES ASSUME edits' = 0 PROVE Steady'
    BY Zenon DEF Steady
  <2>1. Steady /\ edits = 0
    BY Zenon, <1>1 DEF TrafficInv
  <2>2. /\ \A h \in Flows :
             /\ tbl.conn[h] # Nil => lim'[tbl.conn[h]] = rule'.conn
             /\ flow[h].conn # Nil => lim'[flow[h].conn] = rule'.conn
             /\ flow[h].host # Nil => lim'[flow[h].host] = rule'.host
        /\ tbl.svc # Nil => lim'[tbl.svc] = rule'.svc
        /\ tbl.host # Nil => lim'[tbl.host] = rule'.host
    BY Zenon, <1>1, <1>4, SteadyKept
  <2>3. c # Nil => lim'[c] = rule.conn
    <3> SUFFICES ASSUME c # Nil PROVE lim'[c] = rule.conn
      BY Zenon
    <3>1. CASE tbl.conn[f] # Nil
      BY Zenon, <1>4, <2>1, <3>1 DEF Steady
    <3>2. CASE tbl.conn[f] = Nil
      <4>1. tbl.gen > 0
        BY Zenon, <1>2, <1>3, <3>2
      <4> QED
        BY <1>4, <2>1, <3>2, <4>1 DEF Steady
    <3> QED
      BY Zenon, <3>1, <3>2
  <2>4. \A h \in Flows :
          /\ flow'[h].conn # Nil => lim'[flow'[h].conn] = rule'.conn
          /\ flow'[h].host # Nil => lim'[flow'[h].host] = rule'.host
    <3> SUFFICES ASSUME NEW h \in Flows
                 PROVE  /\ flow'[h].conn # Nil => lim'[flow'[h].conn] = rule'.conn
                        /\ flow'[h].host # Nil => lim'[flow'[h].host] = rule'.host
      BY Zenon
    <3>1. CASE h = f
      <4>1. flow'[h] = g /\ rule' = rule
        BY Zenon, <1>1, <1>7, <3>1
      <4>2. flow'[h].conn = g.conn /\ flow'[h].host = g.host
        BY Zenon, <4>1
      <4> QED
        BY Zenon, <1>6, <2>2, <2>3, <3>1, <4>1, <4>2
    <3>2. CASE h # f
      <4>1. flow'[h] = flow[h]
        BY Zenon, <1>7, <3>2
      <4> QED
        BY Zenon, <2>2, <4>1
    <3> QED
      BY Zenon, <3>1, <3>2
  <2> QED
    BY Zenon, <1>1, <2>1, <2>2, <2>4 DEF Steady
<1>9. TableType(tbl', Ref')
  BY Zenon, <1>1, <1>2, <1>4 DEF TableType
<1> QED
  BY Zenon, <1>1, <1>2, <1>4, <1>6, <1>8, <1>9, LookupOK DEF Group

LEMMA InHostOK ==
    ASSUME TrafficInv, NEW f \in Flows, InHost(f)
    PROVE  TrafficInv'
<1> DEFINE c == IF tbl.host = Nil /\ tbl.range > 0 THEN Len(lim) + 1 ELSE tbl.host
           g == [flow[f] EXCEPT !.at = "host", !.host = c]
<1>1. /\ flow[f].at = "conn" /\ UNCHANGED <<tconf, rule, rl, io, edits>>
      /\ lim' = IF tbl.host = Nil /\ tbl.range > 0 THEN Append(lim, tbl.range) ELSE lim
      /\ flow' = [flow EXCEPT ![f] = g]
      /\ tbl' = IF flow[f].conn = Nil THEN tbl ELSE [tbl EXCEPT !.conn[f] = flow[f].conn]
  BY Zenon DEF InHost
<1>2. /\ TrafficTyped /\ flow \in [Flows -> FlowType] /\ flow[f] \in FlowType /\ edits \in Nat
      /\ TableType(tbl, Ref) /\ tbl.host \in Ref /\ tbl.range \in Nat
      /\ Group(flow[f].cached) /\ f \in tconf.flows /\ flow[f].conn \in Ref
  BY Zenon, <1>1 DEF TrafficInv, TrafficTyped, TableType, Flowing, FlowType
<1>3. c = IF tbl.host = Nil /\ tbl.range > 0 THEN Len(lim) + 1 ELSE tbl.host
  BY Zenon
<1> HIDE DEF c
<1>4. /\ Grows /\ NonZero' /\ Ref \subseteq Ref' /\ c \in Ref'
      /\ c # Nil => c \in DOMAIN lim'
                    /\ lim'[c] = IF tbl.host = Nil THEN tbl.range ELSE lim[tbl.host]
  BY Zenon, <1>1, <1>2, <1>3, FoundIs
<1>5. FlowType \subseteq FlowType'
  BY Zenon, <1>2, <1>4, RefsKept DEF Grows
<1>6. g \in FlowType' /\ g.cached = flow[f].cached /\ g.at = "host" /\ g.host = c
      /\ g.conn = flow[f].conn
  <2>1. flow[f] \in FlowType'
    BY Zenon, <1>2, <1>5
  <2> QED
    BY Zenon, <2>1, <1>4 DEF FlowType
<1> HIDE DEF g
<1>7. \A h \in Flows : flow'[h] = IF h = f THEN g ELSE flow[h]
  BY Zenon, <1>1, <1>2
<1>t. /\ tbl'.svc = tbl.svc /\ tbl'.host = tbl.host /\ tbl'.gen = tbl.gen
      /\ tbl'.range = tbl.range
      /\ \A h \in Flows : tbl'.conn[h] \in {tbl.conn[h], flow[h].conn}
      /\ TableType(tbl', Ref)
  BY Zenon, <1>1, <1>2 DEF TableType
<1>8. Steady'
  <2> SUFFICES ASSUME edits' = 0 PROVE Steady'
    BY Zenon DEF Steady
  <2>1. Steady /\ edits = 0
    BY Zenon, <1>1 DEF TrafficInv
  <2>2. /\ \A h \in Flows :
             /\ tbl.conn[h] # Nil => lim'[tbl.conn[h]] = rule'.conn
             /\ flow[h].conn # Nil => lim'[flow[h].conn] = rule'.conn
             /\ flow[h].host # Nil => lim'[flow[h].host] = rule'.host
        /\ tbl.svc # Nil => lim'[tbl.svc] = rule'.svc
        /\ tbl.host # Nil => lim'[tbl.host] = rule'.host
    BY Zenon, <1>1, <1>4, SteadyKept
  <2>3. c # Nil => lim'[c] = rule.host
    <3> SUFFICES ASSUME c # Nil PROVE lim'[c] = rule.host
      BY Zenon
    <3>1. CASE tbl.host # Nil
      BY Zenon, <1>4, <2>1, <3>1 DEF Steady
    <3>2. CASE tbl.host = Nil
      <4>1. tbl.range > 0
        BY Zenon, <1>2, <1>3, <3>2
      <4> QED
        BY <1>4, <2>1, <3>2, <4>1 DEF Steady
    <3> QED
      BY Zenon, <3>1, <3>2
  <2>4. \A h \in Flows :
          /\ flow'[h].conn # Nil => lim'[flow'[h].conn] = rule'.conn
          /\ flow'[h].host # Nil => lim'[flow'[h].host] = rule'.host
          /\ tbl'.conn[h] # Nil => lim'[tbl'.conn[h]] = rule'.conn
    <3> SUFFICES ASSUME NEW h \in Flows
                 PROVE  /\ flow'[h].conn # Nil => lim'[flow'[h].conn] = rule'.conn
                        /\ flow'[h].host # Nil => lim'[flow'[h].host] = rule'.host
                        /\ tbl'.conn[h] # Nil => lim'[tbl'.conn[h]] = rule'.conn
      BY Zenon
    <3>0. tbl'.conn[h] # Nil => lim'[tbl'.conn[h]] = rule'.conn
      BY Zenon, <1>t, <2>2
    <3>1. CASE h = f
      <4>1. flow'[h] = g /\ rule' = rule
        BY Zenon, <1>1, <1>7, <3>1
      <4>2. flow'[h].conn = g.conn /\ flow'[h].host = g.host
        BY Zenon, <4>1
      <4> QED
        BY Zenon, <1>6, <2>2, <2>3, <3>0, <3>1, <4>1, <4>2
    <3>2. CASE h # f
      <4>1. flow'[h] = flow[h]
        BY Zenon, <1>7, <3>2
      <4> QED
        BY Zenon, <2>2, <3>0, <4>1
    <3> QED
      BY Zenon, <3>1, <3>2
  <2> QED
    BY Zenon, <1>1, <1>t, <2>1, <2>2, <2>4 DEF Steady
<1>9. TableType(tbl', Ref')
  BY Zenon, <1>t, <1>4 DEF TableType
<1> QED
  BY Zenon, <1>1, <1>2, <1>4, <1>6, <1>8, <1>9, LookupOK DEF Group

LEMMA InGroupOK ==
    ASSUME TrafficInv, NEW f \in Flows, InGroup(f)
    PROVE  TrafficInv'
<1> DEFINE c == flow[f].conn
           h == flow[f].host
           new == IF c = Nil /\ h = Nil THEN <<>>
                  ELSE IF h = Nil THEN <<c>> ELSE IF c = Nil THEN <<h>>
                  ELSE IF lim[h] < lim[c] THEN <<h, c>> ELSE <<c, h>>
<1>1. /\ flow[f].at = "host" /\ Cache(f, new) /\ UNCHANGED <<tconf, rule, lim, rl, io, edits>>
      /\ tbl' = IF h = Nil THEN tbl ELSE [tbl EXCEPT !.host = h]
  BY Zenon DEF InGroup
<1>2. /\ TrafficTyped /\ NonZero /\ edits \in Nat /\ TableType(tbl, Ref)
      /\ c \in Ref /\ h \in Ref /\ f \in tconf.flows
  BY Zenon, <1>1 DEF TrafficInv, TrafficTyped, TableType, Flowing, FlowType
<1>3. Grows /\ Ref' = Ref
  BY Zenon, <1>1, <1>2, SameLimiters
<1>4. new \in Seq(DOMAIN lim') /\ Len(new) <= 2
  <2>1. /\ c # Nil => c \in DOMAIN lim'
        /\ h # Nil => h \in DOMAIN lim'
    BY Zenon, <1>1, <1>2 DEF Ref
  <2>2. new \in {<<>>, <<c>>, <<h>>, <<h, c>>, <<c, h>>}
        /\ (new = <<>> \/ (new = <<c>> /\ c # Nil) \/ (new = <<h>> /\ h # Nil)
            \/ (new \in {<<h, c>>, <<c, h>>} /\ c # Nil /\ h # Nil))
    BY Zenon
  <2> HIDE DEF new, c, h
  <2> QED
    BY Zenon, <2>1, <2>2, GroupsAre
<1>5. NonZero'
  BY Zenon, <1>1, <1>2 DEF NonZero
<1> HIDE DEF new
<1>6. /\ tbl'.svc = tbl.svc /\ tbl'.gen = tbl.gen /\ tbl'.range = tbl.range
      /\ tbl'.conn = tbl.conn /\ tbl'.host \in {tbl.host, h} /\ TableType(tbl', Ref)
  BY Zenon, <1>1, <1>2 DEF TableType
<1> QED
  BY Zenon, <1>1, <1>2, <1>3, <1>4, <1>5, <1>6, CachedOK

-----------------------------------------------------------------------------
(* Bytes.                                                                  *)

\* The fields of io.
LEMMA IoIs ==
    ASSUME TrafficTyped
    PROVE  /\ io.next \in Nat \ {0} /\ io.rbuf \in Seq(Nat) /\ io.got \in Seq(Nat)
           /\ io.left \in Nat /\ io.short \in BOOLEAN /\ io.wait \in Nat
           /\ Len(io.got) \in Nat /\ Len(io.rbuf) \in Nat
<1>1. io.next \in Nat \ {0} /\ io.rbuf \in Seq(Nat) /\ io.got \in Seq(Nat)
      /\ io.left \in Nat /\ io.short \in BOOLEAN /\ io.wait \in Nat
  BY Zenon DEF TrafficTyped, IoType
<1> QED
  BY <1>1

LEMMA SentIs ==
    ASSUME TrafficTyped, NEW n \in Nat
    PROVE  Sent(n) \in Seq(Nat) /\ Len(Sent(n)) = n /\ Numbered(Sent(n), io.next - 1)
<1>1. io.next \in Nat \ {0}
  BY Zenon, IoIs
<1>2. Sent(n) \in [1..n -> Nat]
  BY <1>1 DEF Sent
<1>3. Sent(n) \in Seq(Nat) /\ Len(Sent(n)) = n /\ \A i \in 1..n : Sent(n)[i] = io.next + i - 1
  BY <1>1, <1>2 DEF Sent
<1>4. \A i \in 1..n : Sent(n)[i] = (io.next - 1) + i
  BY <1>1, <1>3
<1> QED
  BY Zenon, <1>3, <1>4 DEF Numbered

\* The two parts of a sequence.
LEMMA PartsAre ==
    ASSUME NEW s \in Seq(Nat), NEW n \in 0..Len(s), NEW k \in Nat
    PROVE  LET a == SubSeq(s, 1, n)
               b == SubSeq(s, n + 1, Len(s))
           IN  /\ a \in Seq(Nat) /\ Len(a) = n /\ b \in Seq(Nat) /\ Len(b) = Len(s) - n
               /\ Numbered(s, k) => Numbered(a, k) /\ Numbered(b, k + n)
<1> DEFINE a == SubSeq(s, 1, n)
           b == SubSeq(s, n + 1, Len(s))
<1>1. Len(s) \in Nat /\ n \in Nat /\ n <= Len(s)
  OBVIOUS
<1>2. a \in Seq(Nat) /\ b \in Seq(Nat) /\ Len(a) = n /\ Len(b) = Len(s) - n
  BY <1>1
<1>3. \A i \in 1..n : a[i] = s[i]
  BY <1>1
<1>4. \A i \in 1..(Len(s) - n) : b[i] = s[n + i]
  BY <1>1
<1> HIDE DEF a, b
<1>5. ASSUME Numbered(s, k) PROVE Numbered(a, k) /\ Numbered(b, k + n)
  <2>1. \A i \in 1..Len(s) : s[i] = k + i
    BY Zenon, <1>5 DEF Numbered
  <2>2. ASSUME NEW i \in 1..Len(a) PROVE a[i] = k + i
    <3>1. i \in 1..Len(s) /\ i \in 1..n
      BY <1>1, <1>2
    <3> QED
      BY Zenon, <1>3, <2>1, <3>1
  <2>3. ASSUME NEW i \in 1..Len(b) PROVE b[i] = (k + n) + i
    <3>1. n + i \in 1..Len(s) /\ i \in 1..(Len(s) - n) /\ i \in Nat
      BY <1>1, <1>2
    <3>2. b[i] = k + (n + i)
      BY Zenon, <1>4, <2>1, <3>1
    <3> QED
      BY <1>1, <3>1, <3>2
  <2> QED
    BY Zenon, <2>2, <2>3 DEF Numbered
<1> QED
  BY Zenon, <1>2, <1>5 DEF a, b

\* What comes next is put behind what came before.
LEMMA JoinedIs ==
    ASSUME NEW s \in Seq(Nat), NEW a \in Seq(Nat)
    PROVE  /\ s \o a \in Seq(Nat) /\ Len(s \o a) = Len(s) + Len(a)
           /\ \A i \in 1..Len(s) : (s \o a)[i] = s[i]
           /\ \A i \in 1..Len(a) : (s \o a)[Len(s) + i] = a[i]
           /\ Numbered(s, 0) /\ Numbered(a, Len(s)) => Numbered(s \o a, 0)
<1>1. Len(s) \in Nat /\ Len(a) \in Nat
  OBVIOUS
<1>2. s \o a \in Seq(Nat) /\ Len(s \o a) = Len(s) + Len(a)
  OBVIOUS
<1>3. \A i \in 1..(Len(s) + Len(a)) : (s \o a)[i] = IF i <= Len(s) THEN s[i] ELSE a[i - Len(s)]
  BY <1>1
<1>4. \A i \in 1..Len(s) : (s \o a)[i] = s[i]
  BY <1>1, <1>3
<1>5. \A i \in 1..Len(a) : (s \o a)[Len(s) + i] = a[i]
  <2> TAKE i \in 1..Len(a)
  <2>1. Len(s) + i \in 1..(Len(s) + Len(a)) /\ ~(Len(s) + i <= Len(s)) /\ Len(s) + i - Len(s) = i
    BY <1>1
  <2> QED
    BY <1>3, <2>1
<1>6. ASSUME Numbered(s, 0), Numbered(a, Len(s)), NEW i \in 1..Len(s \o a)
      PROVE  (s \o a)[i] = 0 + i
  <2>0. /\ \A j \in 1..Len(s) : s[j] = j
        /\ \A j \in 1..Len(a) : a[j] = Len(s) + j
        /\ i \in 1..(Len(s) + Len(a))
    BY <1>2, <1>6 DEF Numbered
  <2>1. CASE i <= Len(s)
    BY <1>1, <1>4, <2>0, <2>1
  <2>2. CASE ~(i <= Len(s))
    <3>1. i - Len(s) \in 1..Len(a)
      BY <1>1, <2>0, <2>2
    <3>2. a[i - Len(s)] = Len(s) + (i - Len(s))
      BY Zenon, <2>0, <3>1
    <3> QED
      BY <1>1, <1>3, <2>0, <2>2, <3>2
  <2> QED
    BY Zenon, <2>1, <2>2
<1> QED
  BY Zenon, <1>2, <1>4, <1>5, <1>6 DEF Numbered

-----------------------------------------------------------------------------
(* Reads and writes.                                                       *)

\* A call that has its limiters has those of the cache.
LEMMA ReadyIs ==
    ASSUME TrafficInv, NEW f \in Flows, flow[f].at = "ready"
    PROVE  /\ f \in tconf.flows /\ flow[f].use = flow[f].cached /\ Group(flow[f].use)
           /\ (~Open(f) => flow[f].use # <<>>)
           /\ (Open(f) /\ flow[f].use # <<>> => \E i \in DOMAIN lim : lim[i] = 0)
<1>1. f \in tconf.flows /\ flow[f].use = flow[f].cached /\ Group(flow[f].use)
  BY Zenon DEF TrafficInv, Flowing
<1>2. ASSUME Open(f), flow[f].use # <<>> PROVE \E i \in DOMAIN lim : lim[i] = 0
  <2> DEFINE u == flow[f].use
  <2>1. lim[u[1]] = 0 /\ u \in Seq(DOMAIN lim) /\ u # <<>>
    BY Zenon, <1>1, <1>2 DEF Open, Group
  <2> HIDE DEF u
  <2>2. u[1] \in DOMAIN lim
    BY <2>1
  <2> QED
    BY Zenon, <2>1, <2>2
<1> QED
  BY Zenon, <1>1, <1>2 DEF Open

\* The call returns.
LEMMA BackOK ==
    ASSUME TrafficInv, NEW f \in Flows, UNCHANGED <<tconf, rule, lim, tbl, rl, edits>>,
           flow' \in {flow, Back(f)},
           io' \in IoType
    PROVE  /\ TrafficTyped' /\ Flowing' /\ NonZero' /\ Steady'
           /\ \A h \in Flows : flow'[h].cached = flow[h].cached
<1>1. TrafficTyped /\ Flowing /\ NonZero /\ Steady /\ flow \in [Flows -> FlowType] /\ flow[f] \in FlowType
  BY Zenon DEF TrafficInv, TrafficTyped
<1>2. Ref' = Ref /\ FlowType' = FlowType /\ <<>> \in Seq(DOMAIN lim)
  BY Zenon, EmptySeq DEF Ref, FlowType
<1> DEFINE g == [flow[f] EXCEPT !.at = "idle", !.use = <<>>]
<1>3. /\ g \in FlowType /\ g.cached = flow[f].cached /\ g.at = "idle"
      /\ g.conn = flow[f].conn /\ g.host = flow[f].host
  BY Zenon, <1>1, <1>2 DEF FlowType
<1>4. flow' \in {flow, [flow EXCEPT ![f] = g]}
  BY Zenon DEF Back
<1> HIDE DEF g
<1>5. /\ flow' \in [Flows -> FlowType]
      /\ \A h \in Flows : /\ flow'[h].cached = flow[h].cached
                          /\ flow'[h].conn = flow[h].conn /\ flow'[h].host = flow[h].host
                          /\ flow'[h].at # "idle" => flow'[h] = flow[h]
  BY Zenon, <1>1, <1>3, <1>4
<1>6. TrafficTyped'
  BY Zenon, <1>1, <1>2, <1>5 DEF TrafficTyped
<1>7. Flowing'
  BY Zenon, <1>1, <1>5 DEF Flowing, Group
<1>8. NonZero' /\ Steady'
  BY <1>1, <1>5 DEF NonZero, Steady
<1> QED
  BY Zenon, <1>5, <1>6, <1>7, <1>8

\* There are bytes, so there is one connection.
LEMMA OneFlow ==
    ASSUME TrafficTyped, NEW n \in Nat \ {0}, io.next + n <= tconf.bytes + 1
    PROVE  Single
<1>1. tconf \in FlowConfs /\ io.next \in Nat \ {0}
  BY Zenon, IoIs DEF TrafficTyped
<1>2. tconf.bytes \in Nat /\ (tconf.bytes > 0 => \A f, g \in tconf.flows : f = g)
  BY Zenon, <1>1, TrafficAssumption
<1>3. tconf.bytes > 0
  BY <1>1, <1>2
<1> QED
  BY Zenon, <1>2, <1>3 DEF Single

\* Of a stream, nothing else changes.
LEMMA StreamOK ==
    ASSUME TrafficInv, tconf.kind = "stream", UNCHANGED <<tconf, edits>>,
           io'.short = io.short, io'.wait = io.wait, io'.left = io.left
    PROVE  Rising' /\ Written'
<1>1. Written /\ io.wait \in Nat
  BY Zenon, IoIs DEF TrafficInv
<1>2. io.wait = 0
  BY <1>1 DEF Written
<1> QED
  BY Zenon, <1>1, <1>2 DEF Rising, Written

\* A read changes these.
LEMMA ReadIs ==
    ASSUME TrafficTyped, NEW n \in Nat \ {0}, NEW g \in Seq(Nat), NEW r \in Seq(Nat),
           io' = [io EXCEPT !.next = n, !.got = g, !.rbuf = r]
    PROVE  /\ io' \in IoType /\ io'.next = n /\ io'.got = g /\ io'.rbuf = r
           /\ io'.short = io.short /\ io'.wait = io.wait /\ io'.left = io.left
<1>1. io \in IoType
  BY Zenon DEF TrafficTyped
<1> QED
  BY Zenon, <1>1 DEF IoType

LEMMA ReadOpenOK ==
    ASSUME TrafficInv, NEW f \in Flows, ReadOpen(f)
    PROVE  TrafficInv'
<1>1. PICK n \in 1..Chunk : io' = [io EXCEPT !.next = @ + n, !.got = @ \o Sent(n)]
  BY Zenon DEF ReadOpen
<1>2. /\ flow[f].at = "ready" /\ tconf.kind = "stream" /\ Open(f) /\ flow' = Back(f)
      /\ UNCHANGED <<tconf, rule, lim, tbl, rl, edits>>
  BY Zenon DEF ReadOpen
<1>3. TrafficTyped /\ Whole /\ n \in Nat \ {0} /\ n \in Nat
  BY TrafficAssumption DEF TrafficInv
<1> DEFINE s == Sent(n)
           new == io.got \o s
           got == io.got
           rbuf == io.rbuf
           last == io.next
           next == io.next + n
<1>4. last \in Nat \ {0} /\ rbuf \in Seq(Nat) /\ got \in Seq(Nat) /\ Len(got) \in Nat
  BY Zenon, <1>3, IoIs
<1>5. s \in Seq(Nat) /\ Len(s) = n /\ Numbered(s, last - 1)
  BY Zenon, <1>3, SentIs
<1>6. io' = [io EXCEPT !.next = next, !.got = new, !.rbuf = rbuf]
  <2>1. io = [io EXCEPT !.rbuf = io.rbuf]
    BY Zenon, <1>3 DEF TrafficTyped, IoType
  <2> QED
    BY Zenon, <1>1, <1>3, <2>1 DEF TrafficTyped, IoType
<1>7. next = last + n /\ new = got \o s
  BY Zenon
<1> HIDE DEF s, new, last, next
<1>8. next \in Nat \ {0} /\ next - 1 = (last - 1) + n
  BY <1>3, <1>4, <1>7
<1>9. /\ new \in Seq(Nat) /\ Len(new) = Len(got) + n
      /\ Numbered(got, 0) /\ Numbered(s, Len(got)) => Numbered(new, 0)
  <2> HIDE DEF got
  <2> QED
    BY Zenon, <1>4, <1>5, <1>7, JoinedIs
<1>10. /\ io' \in IoType /\ io'.next = next /\ io'.got = new /\ io'.rbuf = rbuf
       /\ io'.short = io.short /\ io'.wait = io.wait /\ io'.left = io.left
  <2> HIDE DEF rbuf
  <2> QED
    BY Zenon, <1>3, <1>4, <1>6, <1>8, <1>9, ReadIs
<1>11. Rising' /\ Written'
  BY Zenon, <1>2, <1>10, StreamOK
<1>12. Whole'
  <2> SUFFICES ASSUME \A i \in DOMAIN lim : lim[i] # 0 PROVE Whole'
    BY Zenon, <1>2 DEF Whole
  <2>1. /\ Len(got) + Len(rbuf) = last - 1 /\ Numbered(got, 0)
        /\ rbuf # <<>> => \A g \in tconf.flows : flow[g].cached # <<>>
    BY Zenon, <1>2, <1>3 DEF Whole, last
  <2>2. flow[f].cached = <<>> /\ f \in tconf.flows
    BY Zenon, <1>2, ReadyIs
  <2>3. rbuf = <<>> /\ Len(rbuf) = 0
    BY Zenon, <2>1, <2>2
  <2> HIDE DEF got, rbuf
  <2>4. last - 1 = Len(got)
    BY <1>4, <2>1, <2>3
  <2>5. Numbered(new, 0)
    BY Zenon, <1>5, <1>9, <2>1, <2>4
  <2>6. Len(new) + Len(rbuf) = next - 1
    BY <1>3, <1>4, <1>8, <1>9, <2>3, <2>4
  <2>7. Numbered(rbuf, Len(new))
    BY <2>3 DEF Numbered
  <2> QED
    BY Zenon, <1>10, <2>3, <2>5, <2>6, <2>7 DEF Whole
<1> QED
  BY Zenon, <1>2, <1>10, <1>11, <1>12, BackOK DEF TrafficInv

LEMMA ReadKeptOK ==
    ASSUME TrafficInv, NEW f \in Flows, ReadKept(f)
    PROVE  TrafficInv'
<1> DEFINE got == io.got
           s == io.rbuf
           last == io.next
           m == IF Len(io.rbuf) < Chunk THEN Len(io.rbuf) ELSE Chunk
           n == Wait(f, m)
           a == SubSeq(s, 1, n)
           b == SubSeq(s, n + 1, Len(s))
           new == got \o a
<1>1. /\ flow[f].at = "ready" /\ tconf.kind = "stream" /\ ~Open(f) /\ flow' = Back(f)
      /\ s # <<>> /\ io' = [io EXCEPT !.got = new, !.rbuf = b]
      /\ UNCHANGED <<tconf, rule, lim, tbl, rl, edits>>
  BY Zenon DEF ReadKept
<1>2. TrafficTyped /\ Whole /\ Chunk \in Nat
  BY Zenon, TrafficAssumption DEF TrafficInv
<1>3. last \in Nat \ {0} /\ s \in Seq(Nat) /\ got \in Seq(Nat) /\ Len(s) \in Nat
  BY Zenon, <1>2, IoIs
<1>4. io' = [io EXCEPT !.next = last, !.got = new, !.rbuf = b]
  <2>1. io = [io EXCEPT !.next = io.next]
    BY Zenon, <1>2 DEF TrafficTyped, IoType
  <2> HIDE DEF new, b
  <2> QED
    BY Zenon, <1>1, <1>2, <2>1 DEF TrafficTyped, IoType
<1>5. m \in 0..Len(s) /\ m \in Nat
  <2>1. m = IF Len(s) < Chunk THEN Len(s) ELSE Chunk
    BY Zenon
  <2> HIDE DEF m, s
  <2> QED
    BY <1>2, <1>3, <2>1
<1>6. n \in 0..m
  <2>1. flow[f].use # <<>> /\ Group(flow[f].use)
    BY Zenon, <1>1, ReadyIs
  <2> HIDE DEF m
  <2> QED
    BY Zenon, <1>2, <1>5, <2>1, WaitIs
<1>7. n \in 0..Len(s)
  <2> HIDE DEF m, n, s
  <2> QED
    BY <1>3, <1>5, <1>6
<1> HIDE DEF m, n, a, b, new
<1>8. /\ new \in Seq(Nat) /\ b \in Seq(Nat) /\ Len(new) + Len(b) = Len(got) + Len(s)
      /\ Numbered(got, 0) /\ Numbered(s, Len(got)) => Numbered(new, 0) /\ Numbered(b, Len(new))
  <2> HIDE DEF got, s
  <2>0. Len(got) \in Nat /\ Len(s) \in Nat /\ n \in Nat
    BY <1>3, <1>7
  <2>1. /\ a \in Seq(Nat) /\ Len(a) = n /\ b \in Seq(Nat) /\ Len(b) = Len(s) - n
        /\ Numbered(s, Len(got)) => Numbered(a, Len(got)) /\ Numbered(b, Len(got) + n)
    BY Zenon, <1>3, <1>7, <2>0, PartsAre DEF a, b
  <2>2. /\ new \in Seq(Nat) /\ Len(new) = Len(got) + Len(a)
        /\ Numbered(got, 0) /\ Numbered(a, Len(got)) => Numbered(new, 0)
    BY Zenon, <1>3, <1>7, <2>1, JoinedIs DEF new
  <2>3. Len(new) + Len(b) = Len(got) + Len(s)
    BY <2>0, <2>1, <2>2
  <2> QED
    BY Zenon, <2>1, <2>2, <2>3
<1>9. /\ io' \in IoType /\ io'.next = last /\ io'.got = new /\ io'.rbuf = b
      /\ io'.short = io.short /\ io'.wait = io.wait /\ io'.left = io.left
  <2> HIDE DEF last
  <2> QED
    BY Zenon, <1>2, <1>3, <1>4, <1>8, ReadIs
<1>10. Rising' /\ Written'
  BY Zenon, <1>1, <1>9, StreamOK
<1>11. TrafficTyped' /\ Flowing' /\ NonZero' /\ Steady' /\ \A h \in Flows : flow'[h].cached = flow[h].cached
  BY Zenon, <1>1, <1>9, BackOK
<1>12. Whole'
  <2> SUFFICES ASSUME \A i \in DOMAIN lim : lim[i] # 0 PROVE Whole'
    BY Zenon, <1>1 DEF Whole
  <2>1. /\ Len(got) + Len(s) = last - 1 /\ Numbered(got, 0) /\ Numbered(s, Len(got))
        /\ Single /\ \A g \in tconf.flows : flow[g].cached # <<>>
    BY Zenon, <1>1, <1>2 DEF Whole
  <2>2. \A g \in tconf.flows : g \in Flows
    BY Zenon, <1>2, TrafficAssumption DEF TrafficTyped
  <2>3. Single' /\ \A g \in tconf'.flows : flow'[g].cached # <<>>
    BY Zenon, <1>1, <1>11, <2>1, <2>2 DEF Single
  <2> HIDE DEF got, s, last
  <2> QED
    BY Zenon, <1>8, <1>9, <2>1, <2>3 DEF Whole
<1> QED
  BY Zenon, <1>10, <1>11, <1>12 DEF TrafficInv

LEMMA ReadLimitedOK ==
    ASSUME TrafficInv, NEW f \in Flows, ReadLimited(f)
    PROVE  TrafficInv'
<1>1. PICK m \in 1..Chunk :
        /\ io.next + m <= tconf.bytes + 1
        /\ io' = [io EXCEPT !.next = @ + m, !.got = @ \o SubSeq(Sent(m), 1, Wait(f, m)),
                            !.rbuf = SubSeq(Sent(m), Wait(f, m) + 1, m)]
  BY Zenon DEF ReadLimited
<1> DEFINE got == io.got
           s == Sent(m)
           last == io.next
           next == last + m
           n == Wait(f, m)
           a == SubSeq(s, 1, n)
           b == SubSeq(s, n + 1, Len(s))
           new == got \o a
<1>2. /\ flow[f].at = "ready" /\ tconf.kind = "stream" /\ ~Open(f) /\ flow' = Back(f)
      /\ io.rbuf = <<>> /\ UNCHANGED <<tconf, rule, lim, tbl, rl, edits>>
  BY Zenon DEF ReadLimited
<1>3. TrafficTyped /\ Whole /\ m \in Nat \ {0} /\ m \in Nat
  BY TrafficAssumption DEF TrafficInv
<1>4. last \in Nat \ {0} /\ got \in Seq(Nat) /\ Len(got) \in Nat
  BY Zenon, <1>3, IoIs
<1>5. s \in Seq(Nat) /\ Len(s) = m /\ Numbered(s, last - 1)
  BY Zenon, <1>3, SentIs
<1>6. /\ f \in tconf.flows /\ flow[f].use = flow[f].cached /\ Group(flow[f].use)
      /\ flow[f].use # <<>>
  BY Zenon, <1>2, ReadyIs
<1>7. n \in 0..m
  BY Zenon, <1>3, <1>6, WaitIs
<1>8. io' = [io EXCEPT !.next = next, !.got = new, !.rbuf = b]
  BY Zenon, <1>1, <1>5
<1>9. n \in 0..Len(s)
  <2> HIDE DEF n, s
  <2> QED
    BY Zenon, <1>5, <1>7
<1>10. next \in Nat \ {0}
  <2> HIDE DEF last
  <2> QED
    BY <1>3, <1>4
<1>l. next = last + m
  BY Zenon
<1>11. Single
  BY Zenon, <1>1, <1>3, OneFlow
<1> HIDE DEF n, s, a, b, new, next
<1>12. /\ new \in Seq(Nat) /\ b \in Seq(Nat) /\ Len(new) + Len(b) = Len(got) + Len(s)
       /\ Numbered(got, 0) /\ Numbered(s, Len(got)) => Numbered(new, 0) /\ Numbered(b, Len(new))
  <2> HIDE DEF got, s
  <2>0. Len(got) \in Nat /\ Len(s) \in Nat /\ n \in Nat
    BY <1>4, <1>5, <1>9
  <2>1. /\ a \in Seq(Nat) /\ Len(a) = n /\ b \in Seq(Nat) /\ Len(b) = Len(s) - n
        /\ Numbered(s, Len(got)) => Numbered(a, Len(got)) /\ Numbered(b, Len(got) + n)
    BY Zenon, <1>4, <1>5, <1>9, <2>0, PartsAre DEF a, b
  <2>2. /\ new \in Seq(Nat) /\ Len(new) = Len(got) + Len(a)
        /\ Numbered(got, 0) /\ Numbered(a, Len(got)) => Numbered(new, 0)
    BY Zenon, <1>4, <1>5, <1>9, <2>1, JoinedIs DEF new
  <2>3. Len(new) + Len(b) = Len(got) + Len(s)
    BY <2>0, <2>1, <2>2
  <2> QED
    BY Zenon, <2>1, <2>2, <2>3
<1>13. /\ io' \in IoType /\ io'.next = next /\ io'.got = new /\ io'.rbuf = b
       /\ io'.short = io.short /\ io'.wait = io.wait /\ io'.left = io.left
  BY Zenon, <1>3, <1>8, <1>10, <1>12, ReadIs
<1>14. Rising' /\ Written'
  BY Zenon, <1>2, <1>13, StreamOK
<1>15. TrafficTyped' /\ Flowing' /\ NonZero' /\ Steady' /\ \A h \in Flows : flow'[h].cached = flow[h].cached
  BY Zenon, <1>2, <1>13, BackOK
<1>16. Whole'
  <2> SUFFICES ASSUME \A i \in DOMAIN lim : lim[i] # 0 PROVE Whole'
    BY Zenon, <1>2 DEF Whole
  <2>1. Len(got) + Len(io.rbuf) = last - 1 /\ Len(io.rbuf) = 0 /\ Numbered(got, 0)
    BY Zenon, <1>2, <1>3 DEF Whole
  <2>2. Single' /\ \A g \in tconf'.flows : flow'[g].cached # <<>>
    BY Zenon, <1>2, <1>6, <1>11, <1>15 DEF Single
  <2> HIDE DEF got, last
  <2>3. last - 1 = Len(got)
    BY <1>4, <2>1
  <2>4. Numbered(s, Len(got))
    BY Zenon, <1>5, <2>3
  <2>5. Len(new) + Len(b) = next - 1
    <3>1. Len(new) + Len(b) = Len(got) + m
      BY Zenon, <1>5, <1>12
    <3> QED
      BY <1>3, <1>4, <1>l, <2>3, <3>1
  <2> QED
    <3>1. Numbered(new, 0) /\ Numbered(b, Len(new))
      BY Zenon, <1>12, <2>1, <2>4
    <3> QED
      BY Zenon, <1>13, <2>2, <2>5, <3>1 DEF Whole
<1> QED
  BY Zenon, <1>14, <1>15, <1>16 DEF TrafficInv

LEMMA NoBytesOK ==
    ASSUME TrafficInv, NEW f \in Flows, NoBytes(f)
    PROVE  TrafficInv'
<1>1. /\ flow[f].at = "ready" /\ io.left = 0 /\ flow' = Back(f) /\ io' = io
      /\ UNCHANGED <<tconf, rule, lim, tbl, rl, edits>>
  BY Zenon DEF NoBytes
<1>2. /\ TrafficTyped /\ Whole /\ Rising /\ Written
      /\ io \in IoType /\ io.wait \in Nat /\ io.left \in Nat
      /\ \A g \in tconf.flows : g \in Flows
  BY Zenon, TrafficAssumption, IoIs DEF TrafficInv, TrafficTyped
<1>3. TrafficTyped' /\ Flowing' /\ NonZero' /\ Steady' /\ \A h \in Flows : flow'[h].cached = flow[h].cached
  BY Zenon, <1>1, <1>2, BackOK
<1>4. Whole' /\ Rising'
  BY Zenon, <1>1, <1>2, <1>3 DEF Whole, Single, Rising
<1>5. Written'
  <2>1. io.wait = 0
    BY <1>1, <1>2 DEF Written
  <2> QED
    BY <1>1, <1>2, <2>1 DEF Written
<1> QED
  BY Zenon, <1>3, <1>4, <1>5 DEF TrafficInv

LEMMA ReadPacketOK ==
    ASSUME TrafficInv, NEW f \in Flows, ReadPacket(f)
    PROVE  TrafficInv'
<1> DEFINE got == io.got
           last == io.next
           next == last + 1
           s == Sent(1)
           new == IF Open(f) \/ Wait(f, Chunk) = Chunk THEN got \o s ELSE got
<1>1. /\ flow[f].at = "ready" /\ tconf.kind = "packets" /\ flow' = Back(f)
      /\ io' = [io EXCEPT !.next = next, !.got = new]
      /\ UNCHANGED <<tconf, rule, lim, tbl, rl, edits>>
  BY Zenon DEF ReadPacket
<1>2. TrafficTyped /\ Rising /\ Written
  BY Zenon DEF TrafficInv
<1>3. last \in Nat \ {0} /\ got \in Seq(Nat) /\ Len(got) \in Nat /\ io.wait \in Nat
      /\ io.rbuf \in Seq(Nat)
  BY Zenon, <1>2, IoIs
<1>4. s \in Seq(Nat) /\ Len(s) = 1 /\ Numbered(s, last - 1)
  BY Zenon, <1>2, SentIs
<1>5. new \in {got, got \o s}
  BY Zenon
<1>6. io' = [io EXCEPT !.next = next, !.got = new, !.rbuf = io.rbuf]
  <2>1. io = [io EXCEPT !.rbuf = io.rbuf]
    BY Zenon, <1>2 DEF TrafficTyped, IoType
  <2> HIDE DEF next, new
  <2> QED
    BY Zenon, <1>1, <1>2, <2>1 DEF TrafficTyped, IoType
<1>7. next \in Nat \ {0}
  <2> HIDE DEF last
  <2> QED
    BY <1>3
<1>8. /\ got \o s \in Seq(Nat) /\ Len(got \o s) = Len(got) + 1
      /\ \A i \in 1..Len(got) : (got \o s)[i] = got[i]
      /\ (got \o s)[Len(got) + 1] = last
  <2>1. s[1] = last
    <3>1. s[1] = (last - 1) + 1
      BY <1>4 DEF Numbered
    <3> HIDE DEF last
    <3> QED
      BY <1>3, <3>1
  <2> HIDE DEF got, s
  <2>2. /\ got \o s \in Seq(Nat) /\ Len(got \o s) = Len(got) + Len(s)
        /\ \A i \in 1..Len(got) : (got \o s)[i] = got[i]
        /\ \A i \in 1..Len(s) : (got \o s)[Len(got) + i] = s[i]
    BY Zenon, <1>3, <1>4, JoinedIs
  <2>3. 1 \in 1..Len(s)
    BY <1>4
  <2> QED
    BY Zenon, <1>4, <2>1, <2>2, <2>3
<1> HIDE DEF new
<1>9. new \in Seq(Nat)
  BY Zenon, <1>3, <1>5, <1>8
<1> HIDE DEF next, s
<1>10. /\ io' \in IoType /\ io'.next = next /\ io'.got = new /\ io'.short = io.short
       /\ io'.wait = io.wait /\ io'.left = io.left
  BY Zenon, <1>2, <1>3, <1>6, <1>7, <1>9, ReadIs
<1>11. TrafficTyped' /\ Flowing' /\ NonZero' /\ Steady'
  BY Zenon, <1>1, <1>10, BackOK
<1>12. /\ \A i \in 1..Len(got) : got[i] < last
       /\ \A i, j \in 1..Len(got) : i < j => got[i] < got[j]
  BY Zenon, <1>1, <1>2 DEF Rising
<1>13. Written'
  <2>1. io.wait = 0
    BY <1>1, <1>2, <1>3 DEF Written
  <2> QED
    BY Zenon, <1>1, <1>2, <1>10, <2>1 DEF Written
<1>14. next = last + 1
  BY Zenon DEF next
<1> HIDE DEF got, last
<1>15. \A i \in 1..Len(got) : got[i] \in Nat
  BY <1>3
<1>16. Rising'
  <2>1. CASE new = got
    <3>1. \A i \in 1..Len(new) : new[i] < next
      BY <1>3, <1>12, <1>14, <1>15, <2>1
    <3> QED
      BY Zenon, <1>10, <1>12, <2>1, <3>1 DEF Rising
  <2>2. CASE new = got \o s
    <3>1. /\ Len(new) = Len(got) + 1 /\ \A i \in 1..Len(got) : new[i] = got[i]
          /\ new[Len(got) + 1] = last
      BY Zenon, <1>8, <2>2
    <3>2. \A i \in 1..Len(new) : i \in 1..Len(got) \/ i = Len(got) + 1
      BY <1>3, <3>1
    <3>3. ASSUME NEW i \in 1..Len(new) PROVE new[i] < next
      <4>1. CASE i \in 1..Len(got)
        BY SMTT(30), <1>3, <1>12, <1>14, <1>15, <3>1, <4>1
      <4>2. CASE i = Len(got) + 1
        BY <1>3, <1>14, <3>1, <4>2
      <4> QED
        BY Zenon, <3>2, <4>1, <4>2
    <3>4. ASSUME NEW i \in 1..Len(new), NEW j \in 1..Len(new), i < j PROVE new[i] < new[j]
      <4>1. i \in 1..Len(got)
        BY <1>3, <3>1, <3>4
      <4>2. CASE j \in 1..Len(got)
        BY Zenon, <1>12, <3>1, <3>4, <4>1, <4>2
      <4>3. CASE j = Len(got) + 1
        BY Zenon, <1>12, <3>1, <4>1, <4>3
      <4> QED
        BY Zenon, <3>2, <4>2, <4>3
    <3> QED
      BY Zenon, <1>10, <3>3, <3>4 DEF Rising
  <2> QED
    BY Zenon, <1>5, <2>1, <2>2
<1>17. Whole'
  BY Zenon, <1>1 DEF Whole
<1> QED
  BY Zenon, <1>11, <1>13, <1>16, <1>17 DEF TrafficInv

LEMMA WriteWaitOK ==
    ASSUME TrafficInv, NEW f \in Flows, WriteWait(f)
    PROVE  TrafficInv'
<1> DEFINE left == IF io.left = 0 THEN Chunk ELSE io.left
           w == IF Open(f) THEN left ELSE Wait(f, left)
<1>1. /\ flow[f].at = "ready" /\ tconf.kind = "writes" /\ io.next <= tconf.bytes /\ ~io.short
      /\ io' = [io EXCEPT !.left = left, !.wait = w]
      /\ UNCHANGED <<tconf, rule, lim, tbl, rl, flow, edits>>
  BY Zenon DEF WriteWait
<1>2. /\ TrafficTyped /\ Written /\ Chunk \in Nat /\ io \in IoType
      /\ io.left \in Nat /\ io.next \in Nat \ {0}
  BY Zenon, TrafficAssumption, IoIs DEF TrafficInv, TrafficTyped
<1>3. left \in Nat
  BY Zenon, <1>2
<1> HIDE DEF left
<1>4. w \in 0..left /\ (Open(f) \/ w <= Burst(f))
  <2>1. CASE Open(f)
    BY <1>3, <2>1
  <2>2. CASE ~Open(f)
    <3>1. flow[f].use # <<>> /\ Group(flow[f].use)
      BY Zenon, <1>1, <2>2, ReadyIs
    <3>2. Wait(f, left) \in 0..left /\ Wait(f, left) <= Burst(f)
      BY Zenon, <1>2, <1>3, <3>1, WaitIs
    <3> QED
      BY Zenon, <2>2, <3>2
  <2> QED
    BY Zenon, <2>1, <2>2
<1> HIDE DEF w
<1>5. w \in Nat /\ w <= left
  BY <1>3, <1>4
<1>6. /\ io' \in IoType /\ io'.next = io.next /\ io'.got = io.got /\ io'.short = io.short
      /\ io'.wait = w /\ io'.left = left
  BY Zenon, <1>1, <1>2, <1>3, <1>5 DEF IoType
<1>7. TrafficTyped' /\ Flowing' /\ NonZero' /\ Steady'
  BY Zenon, <1>1, <1>6, BackOK
<1>8. Whole' /\ Rising'
  BY Zenon, <1>1 DEF Whole, Rising
<1>9. Single
  <2>1. tconf.bytes \in Nat
    BY Zenon, <1>2, TrafficAssumption DEF TrafficTyped
  <2>2. io.next + 1 <= tconf.bytes + 1
    BY <1>1, <1>2, <2>1
  <2> QED
    BY <1>2, <2>2, OneFlow
<1>10. f \in tconf.flows
  BY Zenon, <1>1, ReadyIs
<1>11. \A g \in tconf.flows : flow[g].at = "ready" /\ (Open(g) \/ w <= Burst(g))
  BY Zenon, <1>1, <1>4, <1>9, <1>10 DEF Single
<1>12. \A g \in tconf'.flows : flow'[g].at = "ready" /\ (Open(g)' \/ w <= Burst(g)')
  BY Zenon, <1>1, <1>11 DEF Open, Burst
<1>13. Written'
  BY Zenon, <1>1, <1>2, <1>5, <1>6, <1>9, <1>12 DEF Written, Single
<1> QED
  BY Zenon, <1>7, <1>8, <1>13 DEF TrafficInv

LEMMA WriteGoOK ==
    ASSUME TrafficInv, NEW f \in Flows, WriteGo(f)
    PROVE  TrafficInv'
<1> DEFINE left == io.left - io.wait
<1>1. /\ flow[f].at = "ready" /\ io.wait > 0 /\ flow' \in {flow, Back(f)}
      /\ UNCHANGED <<tconf, rule, lim, tbl, rl, edits>>
  BY Zenon DEF WriteGo
<1>2. /\ TrafficTyped /\ Written /\ edits \in Nat /\ io \in IoType
      /\ io.next \in Nat \ {0} /\ io.got \in Seq(Nat) /\ Len(io.got) \in Nat
      /\ io.left \in Nat /\ io.wait \in Nat /\ io.short \in BOOLEAN
  BY Zenon, IoIs DEF TrafficInv, TrafficTyped
<1>3. /\ tconf.kind = "writes" /\ f \in tconf.flows /\ io.wait <= io.left
      /\ (edits = 0 => Open(f) \/ io.wait <= Burst(f))
      /\ (~io.short => Len(io.got) = io.next - 1) /\ (io.short => edits > 0)
  BY Zenon, <1>1, <1>2, ReadyIs DEF Written
<1>4. Whole' /\ Rising'
  BY Zenon, <1>1, <1>3 DEF Whole, Rising
<1>5. SUFFICES /\ io' \in IoType /\ (~io'.short => Len(io'.got) = io'.next - 1)
               /\ (io'.short => edits > 0) /\ io'.wait = 0
  <2>1. TrafficTyped' /\ Flowing' /\ NonZero' /\ Steady'
    BY Zenon, <1>1, <1>5, BackOK
  <2>2. io'.left \in Nat
    BY Zenon, <1>5 DEF IoType
  <2>3. Written'
    BY <1>1, <1>5, <2>2 DEF Written
  <2> QED
    BY Zenon, <1>4, <2>1, <2>3 DEF TrafficInv
<1>6. CASE ~Open(f) /\ Burst(f) < io.wait
  <2> DEFINE next == io.next + 1
  <2>1. io' = [io EXCEPT !.left = 0, !.wait = 0, !.short = TRUE, !.next = next]
    BY Zenon, <1>6 DEF WriteGo
  <2>2. edits # 0
    <3>1. flow[f].use # <<>> /\ Group(flow[f].use)
      BY Zenon, <1>1, <1>6, ReadyIs
    <3>2. Burst(f) \in Nat
      BY Zenon, <1>2, <3>1, BurstIs
    <3> QED
      BY <1>2, <1>3, <1>6, <3>2
  <2>3. next \in Nat \ {0}
    BY <1>2
  <2> HIDE DEF next
  <2>4. io' \in IoType /\ io'.short /\ io'.wait = 0
    BY Zenon, <1>2, <2>1, <2>3 DEF IoType
  <2> QED
    BY <1>2, <2>2, <2>4
<1>7. CASE ~(~Open(f) /\ Burst(f) < io.wait)
  <2> DEFINE next == IF left = 0 THEN io.next + 1 ELSE io.next
             got == IF left = 0 THEN io.got \o Sent(1) ELSE io.got
  <2>1. io' = [io EXCEPT !.left = left, !.wait = 0, !.next = next, !.got = got]
    BY Zenon, <1>7 DEF WriteGo
  <2>2. left \in Nat
    BY <1>2, <1>3
  <2> HIDE DEF left
  <2>3. /\ io.got \o Sent(1) \in Seq(Nat) /\ Len(io.got \o Sent(1)) = Len(io.got) + 1
    <3>1. /\ Sent(1) \in Seq(Nat) /\ Len(Sent(1)) = 1
      BY Zenon, <1>2, SentIs
    <3>2. /\ io.got \o Sent(1) \in Seq(Nat) /\ Len(io.got \o Sent(1)) = Len(io.got) + Len(Sent(1))
      BY Zenon, <1>2, <3>1, JoinedIs
    <3> QED
      BY Zenon, <3>1, <3>2
  <2>4. next \in Nat \ {0} /\ got \in Seq(Nat) /\ (~io.short => Len(got) = next - 1)
    <3>1. CASE left = 0
      <4>1. next = io.next + 1 /\ got = io.got \o Sent(1)
        BY Zenon, <3>1
      <4> HIDE DEF next, got
      <4> QED
        BY SMTT(30), <1>2, <1>3, <2>3, <4>1
    <3>2. CASE left # 0
      <4>1. next = io.next /\ got = io.got
        BY Zenon, <3>2
      <4> HIDE DEF next, got
      <4> QED
        BY Zenon, <1>2, <1>3, <4>1
    <3> QED
      BY Zenon, <3>1, <3>2
  <2> HIDE DEF next, got
  <2>5. io' \in IoType /\ io'.short = io.short /\ io'.got = got /\ io'.next = next /\ io'.wait = 0
    BY Zenon, <1>2, <2>1, <2>2, <2>4 DEF IoType
  <2> QED
    BY Zenon, <1>3, <2>4, <2>5
<1> QED
  BY Zenon, <1>6, <1>7

-----------------------------------------------------------------------------
LEMMA TrafficUnchangedOK ==
    ASSUME TrafficInv, UNCHANGED tvars
    PROVE  TrafficInv'
<1>1. UNCHANGED <<tconf, rule, lim, tbl, rl, flow, io, edits>>
  BY Zenon DEF tvars
<1>2. TrafficTyped'
  BY Zenon, <1>1 DEF TrafficInv, TrafficTyped, FlowType, Ref
<1>3. Flowing' /\ NonZero' /\ Steady'
  BY Zenon, <1>1 DEF TrafficInv, Flowing, Group, NonZero, Steady
<1>4. Whole' /\ Rising'
  BY Zenon, <1>1 DEF TrafficInv, Whole, Single, Rising
<1>5. Written'
  BY Zenon, <1>1 DEF TrafficInv, Written, Single, Open, Burst
<1> QED
  BY Zenon, <1>2, <1>3, <1>4, <1>5 DEF TrafficInv

LEMMA TrafficNextOK ==
    ASSUME TrafficInv, TrafficNext
    PROVE  TrafficInv'
<1>1. CASE ReloadStep
  BY Zenon, <1>1, ReloadServiceOK, ReloadConnsOK, ReloadHostsOK, ReloadRangesOK DEF ReloadStep
<1>2. CASE EditLimit \/ Lapse
  BY Zenon, <1>2, EditOK, LapseOK
<1>3. ASSUME NEW f \in Flows, FlowStep(f) PROVE TrafficInv'
  <2>1. CASE Fresh(f) \/ InService(f) \/ InPlugin(f) \/ InConn(f) \/ InHost(f) \/ InGroup(f)
    BY Zenon, <2>1, FreshOK, InServiceOK, InPluginOK, InConnOK, InHostOK, InGroupOK
  <2>2. CASE ReadOpen(f) \/ ReadKept(f) \/ ReadLimited(f) \/ NoBytes(f) \/ ReadPacket(f)
    BY Zenon, <2>2, ReadOpenOK, ReadKeptOK, ReadLimitedOK, NoBytesOK, ReadPacketOK
  <2>3. CASE WriteWait(f) \/ WriteGo(f)
    BY Zenon, <2>3, WriteWaitOK, WriteGoOK
  <2> QED
    BY Zenon, <1>3, <2>1, <2>2, <2>3 DEF FlowStep
<1>4. ASSUME NEW f \in Flows, Stale(f) PROVE TrafficInv'
  BY Zenon, <1>4, StaleOK
<1> QED
  BY Zenon, <1>1, <1>2, <1>3, <1>4 DEF TrafficNext

\* What was delivered is what came, from the invariant.
LEMMA TrafficIntact ==
    ASSUME TrafficInv
    PROVE  StreamIntact
<1>1. TrafficTyped /\ Whole /\ Rising /\ Written
  BY Zenon DEF TrafficInv
<1>2. io.got \in Seq(Nat) /\ DOMAIN io.got = 1..Len(io.got)
  BY <1>1, IoIs
<1>3. ASSUME tconf.kind = "stream", \A i \in DOMAIN lim : lim[i] # 0, NEW i \in DOMAIN io.got
      PROVE  io.got[i] = i
  <2>1. Numbered(io.got, 0)
    BY Zenon, <1>1, <1>3 DEF Whole
  <2>2. i \in 1..Len(io.got) /\ i \in Nat
    BY <1>2
  <2> QED
    BY <2>1, <2>2 DEF Numbered
<1>4. tconf.kind = "packets" => \A i, j \in DOMAIN io.got : i < j => io.got[i] < io.got[j]
  BY Zenon, <1>1, <1>2 DEF Rising
<1> QED
  BY Zenon, <1>1, <1>3, <1>4 DEF StreamIntact, Written

\* StreamsArrive: limitConn.Read and Write and the packet connection deliver
\* what came, in order and with nothing left out or cut short, for any number
\* of connections, any rates and any number of edits, reloads and lapses, and
\* wherever those fall between the lookups and the two looks of Wait; with the
\* exceptions StreamIntact names.
THEOREM StreamsArrive == TrafficSpec => []StreamIntact
<1>1. TrafficInit(FlowConfs) => TrafficInv
  BY Zenon, TrafficInitOK
<1>2. TrafficInv /\ [TrafficNext]_tvars => TrafficInv'
  BY Zenon, TrafficNextOK, TrafficUnchangedOK
<1>3. TrafficInv => StreamIntact
  BY Zenon, TrafficIntact
<1> QED
  BY <1>1, <1>2, <1>3, PTL DEF TrafficSpec

=============================================================================
