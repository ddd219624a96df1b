--------------------------- MODULE DialersProofs ----------------------------
(***************************************************************************)
(* What holds of the dialers that share sessions for any calls, sessions   *)
(* and faults: no session is leaked, and none that is sound and in use is  *)
(* closed by a step in which nothing failed.  And of the plain HTTP        *)
(* tunnel, for any uses: a token stands for one connection at a time.      *)
(***************************************************************************)
EXTENDS Dialers, PlainTunnel, SequenceTheorems, TLAPS

-----------------------------------------------------------------------------
(* The inductive invariant.                                                *)

Keys == {"resolved", "configured"}
Entries == {None} \cup [id : Ids, mux : BOOLEAN]
Sessions == [life : {"none", "up", "broken", "closed"}, mux : BOOLEAN, alive : BOOLEAN]
CacheType == [entry : [Keys -> Entries], sess : [Ids -> Sessions]]
Stages == {"idle", "dialed", "opening", "storing", "opened", "streaming"}

TypeOK ==
    /\ conf \in Confs
    /\ cache \in CacheType
    /\ call \in [Calls -> [at : Stages, id : 0..MaxIds]]
    /\ \A c \in Calls : call[c].at # "idle" => call[c].id \in Ids
    /\ \A c \in Calls : /\ call[c].at = "dialed" => D.two
                        /\ call[c].at = "opening" => D.opens = "free"
                        /\ call[c].at = "storing" => D.races
    /\ faults \in Nat

\* An entry that names a session names one that was made; the dialers of one
\* phase have no others.  Sessions are pinged by those that ping.
CacheOK(d) ==
    /\ d \in CacheType
    /\ \A k \in Keys : /\ d.entry[k].mux => d.sess[d.entry[k].id].mux
                       /\ ~D.two /\ d.entry[k] # None => d.entry[k].mux
    /\ \A i \in Ids : d.sess[i].alive => conf.keepalive

\* The key under which the sessions of the node are found.
SessionKey == IF D.two THEN HandshakeKey ELSE DialKey

Excused == D.heals \/ DeletesBlindly \/ Abandons

\* A session that is up is the one of the entry, or is about to be stored.
Found(d, storing) ==
    Excused \/ \A i \in Ids : d.sess[i].mux /\ Life(d, i) = "up" =>
        d.entry[SessionKey] = [id |-> i, mux |-> TRUE] \/ i \in storing

Storing == {i \in Ids : \E c \in Calls : call[c].at = "storing" /\ call[c].id = i}

\* A client about to be stored is nobody else's yet.
Apart ==
    \A c \in Calls : call[c].at = "storing" =>
        /\ \A k \in Keys : cache.entry[k].id # call[c].id
        /\ \A b \in Calls \ {c} : call[b].id # call[c].id

\* Streams are those of a session.
Streaming == {"storing", "opening", "opened", "streaming"}
Streams == \A c \in Calls : call[c].at \in Streaming => cache.sess[call[c].id].mux

IInv == TypeOK /\ CacheOK(cache) /\ Found(cache, Storing) /\ Apart /\ Streams

-----------------------------------------------------------------------------
(* The dialers of the table.                                               *)

\* What the proofs use of a dialer: one that evicts whatever it finds looks
\* under the mutex, where what it finds is the session it has; one that
\* forgets its entry without closing has a client that connects again.
Sane(d) ==
    /\ d.evict \in {"always", "same", "current", "forget", "never"}
    /\ d.two => d.evict = "always" /\ ~d.races /\ ~d.heals /\ d.checks
    /\ d.opens = "free" \/ d.races => d.evict \in {"same", "current", "never"}
    /\ d.forgets => d.heals /\ ~d.shared
    /\ d.two => d.opens = "none"

\* So it is of each.
LEMMA DialersAreSane == \A k \in DOMAIN Dialer : Sane(Dialer[k])
<1>1. Sane(Mtls) /\ Sane(Mtcp) /\ Sane(Mws) /\ Sane(Kcp) /\ Sane(Ssh)
  BY Zenon DEF Sane, Plain, Mtls, Mtcp, Mws, Kcp, Ssh
<1>2. Sane(Sshd) /\ Sane(Quic) /\ Sane(Icmp) /\ Sane(Hysteria) /\ Sane(HysteriaDirect)
  BY Zenon DEF Sane, Plain, Sshd, Quic, Icmp, Hysteria, HysteriaDirect
<1>3. Sane(Http2) /\ Sane(Grpc) /\ Sane(Pht) /\ Sane(Http3) /\ Sane(H2) /\ Sane(Wg)
  BY Zenon DEF Sane, Plain, Client, Http2, Grpc, Pht, Http3, H2, Wg
<1>4. Sane(Wt) /\ Sane(Masque)
  BY Zenon DEF Sane, Plain, Wt, Masque
<1> QED BY <1>1, <1>2, <1>3, <1>4 DEF Dialer

\* The dialer of this node is one of them.
LEMMA DialerIsSane == TypeOK => Sane(D)
BY Zenon, DialersAreSane, ConfsAssumption DEF TypeOK, D

\* Identifiers, and the keys of the map.
LEMMA IdsAre ==
  /\ Ids \subseteq 1..MaxIds /\ 0 \notin Ids /\ MaxIds \in Nat
  /\ DialKey \in Keys /\ HandshakeKey \in Keys /\ SessionKey \in Keys
  /\ None.id = 0 /\ ~None.mux /\ None \in Entries
BY BoundsAssumption DEF Ids, DialKey, HandshakeKey, SessionKey, Keys, None, Entries

-----------------------------------------------------------------------------
(* What the operators on the cache do.                                     *)

\* Nothing is made: sessions only end, and an entry is dropped only with its
\* session, unless it names none.
Drop(d, e) ==
    /\ e \in CacheType
    /\ \A j \in Ids : /\ e.sess[j].mux = d.sess[j].mux /\ e.sess[j].alive = d.sess[j].alive
                      /\ Life(e, j) \in {Life(d, j), "closed"}
    /\ \A k \in Keys :
         \/ e.entry[k] = d.entry[k]
         \/ /\ e.entry[k] = None
            /\ k = SessionKey /\ d.entry[k].mux => Life(e, d.entry[k].id) # "up" \/ Excused

\* A session that is up is closed by what costs a fault.
Paid(d, e, cost) ==
    \A j \in Ids : Life(d, j) = "up" /\ Life(e, j) = "closed" => cost > 0

\* Dropping twice is dropping.
LEMMA DropTwice ==
  ASSUME NEW d \in CacheType, NEW e, NEW f, Drop(d, e), Drop(e, f)
  PROVE  Drop(d, f)
<1>1. \A k \in Keys : d.entry[k].mux => d.entry[k].id \in Ids
  BY Zenon, IdsAre DEF CacheType, Entries
<1> QED BY Zenon, <1>1 DEF Drop

\* What costs nothing changes nothing.
LEMMA DropNothing == ASSUME NEW d \in CacheType PROVE Drop(d, d) /\ Paid(d, d, 0)
BY Zenon DEF Drop, Paid

\* The costs add up.
LEMMA PaidTwice ==
  ASSUME NEW d, NEW e, NEW f, NEW m \in Nat, NEW n \in Nat,
         Drop(d, e), Drop(e, f), Paid(d, e, m), Paid(e, f, n)
  PROVE  Paid(d, f, m + n)
BY DEF Drop, Paid

\* Dropping keeps what is found and what the entries name.
LEMMA DropKeeps ==
  ASSUME NEW d, CacheOK(d), NEW e, Drop(d, e)
  PROVE  /\ CacheOK(e)
         /\ \A s : Found(d, s) => Found(e, s)
         /\ \A k \in Keys : e.entry[k].id \in {0, d.entry[k].id}
<1>1. \A k \in Keys : d.entry[k].mux => d.entry[k].id \in Ids
  BY Zenon, IdsAre DEF CacheOK, CacheType, Entries
<1>2. CacheOK(e)
  BY ZenonT(30), <1>1, IdsAre DEF CacheOK, Drop
<1>3. \A k \in Keys : e.entry[k].id \in {0, d.entry[k].id}
  BY Zenon, IdsAre DEF Drop
<1>4. ASSUME NEW s, Found(d, s) PROVE Found(e, s)
  <2> SUFFICES ASSUME ~Excused, NEW i \in Ids, e.sess[i].mux, Life(e, i) = "up"
               PROVE  e.entry[SessionKey] = [id |-> i, mux |-> TRUE] \/ i \in s
    BY Zenon DEF Found
  <2>1. d.entry[SessionKey] = [id |-> i, mux |-> TRUE] \/ i \in s
    BY Zenon, <1>4 DEF Found, Drop
  <2> QED BY <2>1, IdsAre DEF Drop
<1> QED BY Zenon, <1>2, <1>3, <1>4

\* Closing a session.
LEMMA ClosedIs ==
  ASSUME NEW d \in CacheType, NEW i \in Ids
  PROVE  /\ Closed(d, i) \in CacheType /\ Closed(d, i).entry = d.entry
         /\ Life(Closed(d, i), i) = "closed"
         /\ \A j \in Ids : /\ Closed(d, i).sess[j].mux = d.sess[j].mux
                           /\ Closed(d, i).sess[j].alive = d.sess[j].alive
                           /\ j # i => Closed(d, i).sess[j] = d.sess[j]
<1> DEFINE r == [d.sess[i] EXCEPT !.life = "closed"]
           s == [d.sess EXCEPT ![i] = r]
<1>1. Closed(d, i) = [d EXCEPT !.sess = s]
  BY Zenon DEF Closed
<1>2. d.sess[i] \in Sessions
  BY Zenon DEF CacheType
<1>3. r \in Sessions /\ r.mux = d.sess[i].mux /\ r.alive = d.sess[i].alive /\ r.life = "closed"
  BY Zenon, <1>2 DEF Sessions
<1> HIDE DEF r
<1>4. s \in [Ids -> Sessions] /\ s[i] = r /\ \A j \in Ids : j # i => s[j] = d.sess[j]
  BY Zenon, <1>3 DEF CacheType
<1> HIDE DEF s
<1>5. Closed(d, i) \in CacheType /\ Closed(d, i).entry = d.entry /\ Closed(d, i).sess = s
  BY Zenon, <1>1, <1>4 DEF CacheType
<1> QED BY Zenon, <1>3, <1>4, <1>5 DEF Life

\* Deleting an entry.
LEMMA WithoutIs ==
  ASSUME NEW d \in CacheType, NEW k \in Keys
  PROVE  /\ Without(d, k) \in CacheType /\ Without(d, k).sess = d.sess
         /\ Without(d, k).entry[k] = None
         /\ \A h \in Keys : h # k => Without(d, k).entry[h] = d.entry[h]
<1> DEFINE f == [d.entry EXCEPT ![k] = None]
<1>1. Without(d, k) = [d EXCEPT !.entry = f]
  BY Zenon DEF Without
<1>2. f \in [Keys -> Entries] /\ f[k] = None /\ \A h \in Keys : h # k => f[h] = d.entry[h]
  BY Zenon, IdsAre DEF CacheType
<1> HIDE DEF f
<1> QED BY Zenon, <1>1, <1>2 DEF CacheType

\* A session is closed, at the cost of a fault if it was up.
LEMMA CloseDrops ==
  ASSUME NEW d \in CacheType, NEW i \in Ids
  PROVE  Drop(d, Closed(d, i)) /\ Paid(d, Closed(d, i), Cost(d, i))
<1> DEFINE e == Closed(d, i)
<1>1. /\ e \in CacheType /\ e.entry = d.entry /\ Life(e, i) = "closed"
      /\ \A j \in Ids : /\ e.sess[j].mux = d.sess[j].mux /\ e.sess[j].alive = d.sess[j].alive
                        /\ j # i => e.sess[j] = d.sess[j]
  BY Zenon, ClosedIs
<1> HIDE DEF e
<1>2. Drop(d, e)
  BY Zenon, <1>1 DEF Drop, Life
<1>3. Paid(d, e, Cost(d, i))
  BY <1>1 DEF Paid, Cost, Life
<1> QED BY Zenon, <1>2, <1>3 DEF e

\* An entry is deleted: of no session, or of one that is not up.
LEMMA WithoutDrops ==
  ASSUME NEW d \in CacheType, NEW k \in Keys,
         k = SessionKey /\ d.entry[k].mux => Life(d, d.entry[k].id) # "up" \/ Excused
  PROVE  Drop(d, Without(d, k)) /\ Paid(d, Without(d, k), 0)
<1> DEFINE e == Without(d, k)
<1>1. /\ e \in CacheType /\ e.sess = d.sess /\ e.entry[k] = None
      /\ \A h \in Keys : h # k => e.entry[h] = d.entry[h]
  BY Zenon, WithoutIs
<1> HIDE DEF e
<1>2. Drop(d, e) /\ Paid(d, e, 0)
  BY Zenon, <1>1 DEF Drop, Paid, Life
<1> QED BY Zenon, <1>2 DEF e

\* Both, of a session and its entry.
LEMMA EndDrops ==
  ASSUME NEW d \in CacheType, NEW i \in Ids, NEW k \in Keys,
         k = SessionKey /\ d.entry[k].mux => d.entry[k].id = i \/ Excused
  PROVE  LET e == Without(Closed(d, i), k) IN
         Drop(d, e) /\ Paid(d, e, Cost(d, i)) /\ e.entry[k] = None
<1> DEFINE f == Closed(d, i)
           e == Without(f, k)
<1>1. f \in CacheType /\ f.entry = d.entry /\ Life(f, i) = "closed"
  BY Zenon, ClosedIs
<1>2. Drop(d, f) /\ Paid(d, f, Cost(d, i))
  BY Zenon, CloseDrops
<1> HIDE DEF f
<1>3. Drop(f, e) /\ e.sess = f.sess /\ e.entry[k] = None
  BY Zenon, <1>1, WithoutDrops, WithoutIs
<1> HIDE DEF e
<1>4. Drop(d, e)
  BY Zenon, <1>2, <1>3, DropTwice
<1>5. Paid(d, e, Cost(d, i))
  BY Zenon, <1>2, <1>3 DEF Paid, Life
<1> QED BY Zenon, <1>3, <1>4, <1>5 DEF e, f

\* What a dialer does with a session that gave no stream ends that session at
\* most.
LEMMA EvictDrops ==
  ASSUME TypeOK, NEW d \in CacheType, NEW i \in Ids, NEW k \in Keys,
         D.evict = "always" /\ d.entry[k].mux => d.entry[k].id = i
  PROVE  Drop(d, Evict(d, k, i)) /\ Paid(d, Evict(d, k, i), Cost(d, i))
<1>1. Cost(d, i) \in {0, 1}
  BY Zenon DEF Cost
<1>2. CASE D.evict = "always"
  BY Zenon, <1>2, EndDrops DEF Evict
<1>3. CASE D.evict = "same"
  BY Zenon, <1>3, EndDrops, CloseDrops DEF Evict
<1>4. CASE D.evict = "current"
  BY Zenon, <1>4, <1>1, EndDrops, DropNothing DEF Evict, Paid
<1>5. CASE D.evict = "forget"
  BY <1>5, <1>1, WithoutDrops DEF Evict, Paid, Excused, Abandons
<1>6. CASE D.evict = "never"
  BY Zenon, <1>6, <1>1, DropNothing DEF Evict, Paid
<1> QED BY Zenon, <1>2, <1>3, <1>4, <1>5, <1>6, DialerIsSane DEF Sane

-----------------------------------------------------------------------------
(* The outcomes of a step.                                                 *)

\* What the other calls are about to store.
Held(c) == {i \in Ids : \E b \in Calls \ {c} : call[b].at = "storing" /\ call[b].id = i}

\* A session is not closed.
Spares(d, i) == Life(cache, i) = "up" => Life(d, i) # "closed"

\* What an outcome must be like for a call to take it and go to a stage.
Result(c, r, at) ==
    LET mine == IF at = "storing" THEN {r.id} \ {0} ELSE {} IN
    /\ CacheOK(r.d) /\ r.id \in 0..MaxIds /\ r.cost \in Nat
    /\ Found(r.d, Held(c) \cup mine)
    /\ \A k \in Keys : r.d.entry[k].id \notin Held(c) \cup mine
    /\ r.id \notin Held(c)
    /\ \A b \in Calls \ {c} : call[b].id \notin mine
    /\ at \in Streaming /\ r.id # 0 => r.d.sess[r.id].mux
    /\ \A b \in Calls \ {c} : call[b].at \in Streaming => r.d.sess[call[b].id].mux
    /\ \A b \in Calls : call[b].at = "streaming" =>
         Spares(r.d, call[b].id) \/ r.cost > 0 \/ DeletesBlindly

\* What SoundSessionsSurvive says of one step.
SoundStep ==
    \A i \in Ids : Life(cache, i) = "up" /\ InUse(i) /\ Life(cache', i) = "closed"
        => faults' < faults \/ DeletesBlindly

\* The dialer and its keys are those of the configuration.
LEMMA SameDialer ==
  ASSUME conf' = conf
  PROVE  /\ D' = D /\ SessionKey' = SessionKey /\ (Excused' <=> Excused)
         /\ \A d : CacheOK(d)' <=> CacheOK(d)
         /\ \A d, s : Found(d, s)' <=> Found(d, s)
BY Zenon DEF D, SessionKey, DialKey, Excused, DeletesBlindly, Abandons, CacheOK, Found

\* A call that takes such an outcome keeps the invariant, and closes no sound
\* session that is in use without a fault.
LEMMA TakeKeeps ==
  ASSUME IInv, NEW c \in Calls, NEW outcomes, NEW at \in Stages, Take(c, outcomes, at),
         at = "dialed" => D.two, at = "opening" => D.opens = "free", at = "storing" => D.races,
         \A r \in outcomes : Result(c, r, at)
  PROVE  IInv' /\ SoundStep
<1>1. /\ TypeOK /\ CacheOK(cache) /\ Apart /\ Streams
      /\ call \in [Calls -> [at : Stages, id : 0..MaxIds]] /\ faults \in Nat
  BY Zenon DEF IInv, TypeOK
<1>2. PICK r \in outcomes :
        /\ r.cost <= faults /\ faults' = faults - r.cost /\ cache' = r.d /\ conf' = conf
        /\ call' = [call EXCEPT ![c] = IF r.id = 0 THEN [at |-> "idle", id |-> 0]
                                       ELSE [at |-> at, id |-> r.id]]
  BY Zenon DEF Take
<1> DEFINE mine == IF at = "storing" THEN {r.id} \ {0} ELSE {}
           v == IF r.id = 0 THEN [at |-> "idle", id |-> 0] ELSE [at |-> at, id |-> r.id]
<1>3. /\ CacheOK(r.d) /\ r.id \in 0..MaxIds /\ r.cost \in Nat
      /\ Found(r.d, Held(c) \cup mine)
      /\ \A k \in Keys : r.d.entry[k].id \notin Held(c) \cup mine
      /\ r.id \notin Held(c)
      /\ \A b \in Calls \ {c} : call[b].id \notin mine
      /\ at \in Streaming /\ r.id # 0 => r.d.sess[r.id].mux
      /\ \A b \in Calls \ {c} : call[b].at \in Streaming => r.d.sess[call[b].id].mux
      /\ \A b \in Calls : call[b].at = "streaming" =>
           Spares(r.d, call[b].id) \/ r.cost > 0 \/ DeletesBlindly
  BY Zenon DEF Result
<1>4. /\ v \in [at : Stages, id : 0..MaxIds]
      /\ v.at # "idle" => v.id = r.id /\ r.id # 0 /\ v.at = at
      /\ v.id \in {0, r.id}
      /\ r.id # 0 /\ at # "idle" => v.at = at /\ v.id = r.id
  BY Zenon, <1>3, BoundsAssumption DEF Stages
<1>5. call' = [call EXCEPT ![c] = v]
  BY Zenon, <1>2
<1> HIDE DEF v
<1>6. /\ call' \in [Calls -> [at : Stages, id : 0..MaxIds]]
      /\ call'[c] = v /\ \A b \in Calls \ {c} : call'[b] = call[b]
  BY Zenon, <1>1, <1>4, <1>5
<1>7. D' = D
  BY Zenon, <1>2, SameDialer
<1>8. TypeOK'
  <2>1. cache' \in CacheType
    BY Zenon, <1>2, <1>3 DEF CacheOK
  <2>2. faults' \in Nat
    BY <1>1, <1>2, <1>3
  <2>3. \A b \in Calls : /\ call'[b].at # "idle" => call'[b].id \in Ids
                         /\ call'[b].at = "dialed" => D.two
                         /\ call'[b].at = "opening" => D.opens = "free"
                         /\ call'[b].at = "storing" => D.races
    <3>1. /\ v.at # "idle" => v.id \in Ids
          /\ v.at = "dialed" => D.two
          /\ v.at = "opening" => D.opens = "free"
          /\ v.at = "storing" => D.races
      BY <1>3, <1>4, BoundsAssumption DEF Ids
    <3>2. \A b \in Calls : /\ call[b].at # "idle" => call[b].id \in Ids
                           /\ call[b].at = "dialed" => D.two
                           /\ call[b].at = "opening" => D.opens = "free"
                           /\ call[b].at = "storing" => D.races
      BY Zenon, <1>1 DEF TypeOK
    <3> QED BY <3>1, <3>2, <1>6
  <2> QED BY Zenon, <1>1, <1>2, <1>6, <1>7, <2>1, <2>2, <2>3 DEF TypeOK
<1>9. CacheOK(cache)'
  BY Zenon, <1>2, <1>3, <1>7 DEF CacheOK
<1>10. Storing' = Held(c) \cup mine
  <2>1. \A i \in Ids : i \in Storing' <=> i \in Held(c) \/ (v.at = "storing" /\ v.id = i)
    BY Zenon, <1>6 DEF Storing, Held
  <2>2. \A i \in Ids : (v.at = "storing" /\ v.id = i) <=> i \in mine
    BY Zenon, <1>4, IdsAre
  <2>3. mine \subseteq Ids
    BY <1>3, BoundsAssumption DEF Ids
  <2> QED BY Zenon, <2>1, <2>2, <2>3 DEF Storing, Held
<1>11. Found(cache, Storing)'
  BY Zenon, <1>2, <1>3, <1>10, SameDialer DEF Found, Life
<1>12. Apart'
  <2> SUFFICES ASSUME NEW b \in Calls, call'[b].at = "storing"
               PROVE  /\ \A k \in Keys : cache'.entry[k].id # call'[b].id
                      /\ \A a \in Calls \ {b} : call'[a].id # call'[b].id
    BY Zenon DEF Apart
  <2>1. call'[b].id \in Ids
    BY Zenon, <1>8 DEF TypeOK
  <2>2. CASE b = c
    <3>1. call'[b].id \in mine
      BY Zenon, <2>2, <1>4, <1>6
    <3> QED BY Zenon, <3>1, <2>2, <1>2, <1>3, <1>6
  <2>3. CASE b # c
    <3>1. call'[b] = call[b] /\ call[b].id \in Held(c)
      BY Zenon, <2>1, <2>3, <1>6 DEF Held
    <3>2. call'[c].id # call[b].id
      BY Zenon, <3>1, <2>1, <1>3, <1>4, <1>6, IdsAre
    <3> QED BY Zenon, <3>1, <3>2, <2>3, <1>1, <1>2, <1>3, <1>6 DEF Apart
  <2> QED BY Zenon, <2>2, <2>3
<1>13. Streams'
  BY Zenon, <1>2, <1>3, <1>4, <1>6 DEF Streams, Streaming
<1>14. SoundStep
  <2> SUFFICES ASSUME NEW i \in Ids, Life(cache, i) = "up", InUse(i), Life(cache', i) = "closed",
                      ~DeletesBlindly
               PROVE  faults' < faults
    BY Zenon DEF SoundStep
  <2>1. PICK b \in Calls : call[b].at = "streaming" /\ call[b].id = i
    BY Zenon DEF InUse
  <2>2. r.cost > 0
    BY Zenon, <2>1, <1>2, <1>3 DEF Spares
  <2> QED BY <2>2, <1>1, <1>2, <1>3
<1> QED BY Zenon, <1>8, <1>9, <1>11, <1>12, <1>13, <1>14 DEF IInv

\* An outcome that makes no session, of a call that stores none.
LEMMA DropResult ==
  ASSUME IInv, NEW c \in Calls, call[c].at # "storing", NEW r, NEW at \in Stages,
         at = "storing" => r.id = 0,
         Drop(cache, r.d), r.cost \in Nat,
         r.id \in {0, call[c].id} \cup {cache.entry[k].id : k \in Keys},
         at \in Streaming /\ r.id # 0 => cache.sess[r.id].mux,
         \A b \in Calls : call[b].at = "streaming" =>
           Spares(r.d, call[b].id) \/ r.cost > 0 \/ DeletesBlindly
  PROVE  Result(c, r, at)
<1>1. /\ TypeOK /\ CacheOK(cache) /\ Found(cache, Storing) /\ Apart /\ Streams
      /\ cache \in CacheType
  BY Zenon DEF IInv, TypeOK
<1>2. Storing = Held(c)
  BY Zenon DEF Storing, Held
<1>3. /\ CacheOK(r.d) /\ Found(r.d, Held(c))
      /\ \A k \in Keys : r.d.entry[k].id \in {0, cache.entry[k].id}
  BY Zenon, <1>1, <1>2, DropKeeps
<1>4. \A k \in Keys : cache.entry[k].id \notin Held(c) /\ cache.entry[k].id \in 0..MaxIds
  BY <1>1, IdsAre DEF Held, Apart, CacheType, Entries, Ids
<1>5. call[c].id \notin Held(c) /\ 0 \notin Held(c) /\ call[c].id \in 0..MaxIds
  BY Zenon, <1>1, IdsAre DEF Held, Apart, TypeOK
<1>6. r.id \in 0..MaxIds /\ r.id \notin Held(c)
  BY <1>4, <1>5, IdsAre
<1>7. \A b \in Calls : call[b].at \in Streaming =>
        r.d.sess[call[b].id].mux
  BY Zenon, <1>1 DEF Drop, Streams, TypeOK, Streaming
<1>8. at \in Streaming /\ r.id # 0 => r.d.sess[r.id].mux
  BY <1>6, BoundsAssumption DEF Drop, Ids
<1> QED BY Zenon, <1>3, <1>4, <1>5, <1>6, <1>7, <1>8 DEF Result

\* What is paid spares the sessions that are in use.
LEMMA PaidSpares ==
  ASSUME TypeOK, NEW d, NEW n, Paid(cache, d, n), NEW b \in Calls, call[b].at = "streaming"
  PROVE  Spares(d, call[b].id) \/ n > 0
BY Zenon DEF Paid, Spares, TypeOK

-----------------------------------------------------------------------------
(* Dial.                                                                   *)

\* The session of the address is dropped, or is sound as far as it is known.
LEMMA LookupIs ==
  ASSUME IInv, NEW o \in Lookup(cache)
  PROVE  /\ Drop(cache, o.d) /\ Paid(cache, o.d, o.cost) /\ o.cost \in Nat
         /\ \/ o.id = 0 /\ o.d.entry[DialKey] = None
            \/ /\ o.d = cache /\ o.id = cache.entry[DialKey].id /\ o.id \in Ids
               /\ cache.entry[DialKey] # None
<1> DEFINE e == cache.entry[DialKey]
<1>1. TypeOK /\ CacheOK(cache) /\ cache \in CacheType /\ DialKey \in Keys
  BY Zenon, IdsAre DEF IInv, TypeOK
<1>2. e \in Entries /\ (e # None => e.id \in Ids)
  BY Zenon, <1>1 DEF CacheType, Entries
<1>3. CASE o = Outcome(cache, 0, 0) /\ e = None
  BY Zenon, <1>1, <1>3, DropNothing DEF Outcome
<1>4. CASE o = Outcome(Without(cache, DialKey), 0, 0) /\ IsClosed(cache, e)
  <2>1. DialKey = SessionKey /\ e.mux => Life(cache, e.id) # "up" \/ Excused
    BY Zenon, <1>4 DEF IsClosed
  <2> QED BY Zenon, <1>1, <1>4, <2>1, WithoutDrops, WithoutIs DEF Outcome
<1>5. CASE o = Outcome(cache, e.id, 0) /\ e # None
  BY Zenon, <1>1, <1>2, <1>5, DropNothing DEF Outcome
<1>6. CASE o = Outcome(Without(Closed(cache, e.id), DialKey), 0, Cost(cache, e.id)) /\ e # None
  <2>1. Cost(cache, e.id) \in Nat
    BY Zenon DEF Cost
  <2> QED BY Zenon, <1>1, <1>2, <1>6, <2>1, EndDrops DEF Outcome
<1> QED BY Zenon, <1>3, <1>4, <1>5, <1>6 DEF Lookup

\* What a step under the mutex may have come to: sessions in use are as they
\* were or are paid for, and the session it has is the one of the entry.
Under(o) ==
    /\ CacheOK(o.d) /\ o.id \in 0..MaxIds /\ o.cost \in Nat
    /\ Found(o.d, Storing)
    /\ \A k \in Keys : o.d.entry[k].id \notin Storing
    /\ o.id \notin Storing
    /\ ~D.two /\ o.id # 0 => o.d.sess[o.id].mux /\ o.d.entry[DialKey].id = o.id
    /\ \A c \in Calls : call[c].at # "idle" =>
         LET i == call[c].id IN
         /\ o.d.sess[i].mux = cache.sess[i].mux
         /\ Life(o.d, i) = Life(cache, i) \/ (Life(o.d, i) = "closed" /\ (Life(cache, i) = "up" => o.cost > 0))

\* A call that was idle may take it.
LEMMA UnderResult ==
  ASSUME IInv, NEW c \in Calls, call[c].at = "idle", NEW o, Under(o),
         NEW at \in Stages \ {"storing"}, at \in Streaming => ~D.two
  PROVE  Result(c, o, at)
<1>1. TypeOK /\ Streams
  BY Zenon DEF IInv
<1>2. Storing = Held(c)
  BY Zenon DEF Storing, Held
<1>3. \A b \in Calls : call[b].at \in Streaming => o.d.sess[call[b].id].mux
  BY Zenon, <1>1 DEF Under, Streams, Streaming
<1>4. \A b \in Calls : call[b].at = "streaming" =>
        Spares(o.d, call[b].id) \/ o.cost > 0 \/ DeletesBlindly
  BY Zenon DEF Under, Spares
<1> QED BY Zenon, <1>2, <1>3, <1>4 DEF Result, Under

\* What is found is such an outcome.
LEMMA DropUnder ==
  ASSUME IInv, NEW o, Drop(cache, o.d), Paid(cache, o.d, o.cost), o.cost \in Nat,
         \/ o.id = 0
         \/ /\ o.d = cache /\ o.id = cache.entry[DialKey].id /\ o.id \in Ids
            /\ cache.entry[DialKey] # None
  PROVE  Under(o)
<1>1. /\ TypeOK /\ CacheOK(cache) /\ Found(cache, Storing) /\ Apart /\ cache \in CacheType
      /\ DialKey \in Keys
  BY Zenon, IdsAre DEF IInv, TypeOK
<1>2. /\ CacheOK(o.d) /\ Found(o.d, Storing)
      /\ \A k \in Keys : o.d.entry[k].id \in {0, cache.entry[k].id}
  BY Zenon, <1>1, DropKeeps
<1>3. 0 \notin Storing /\ \A k \in Keys : cache.entry[k].id \notin Storing
  BY Zenon, <1>1, IdsAre DEF Storing, Apart
<1>4. o.id \in 0..MaxIds /\ o.id \notin Storing
  BY <1>1, <1>3, BoundsAssumption DEF Ids
<1>5. ~D.two /\ o.id # 0 => o.d.sess[o.id].mux /\ o.d.entry[DialKey].id = o.id
  BY Zenon, <1>1 DEF CacheOK
<1>6. \A c \in Calls : call[c].at # "idle" =>
        LET i == call[c].id IN
        /\ o.d.sess[i].mux = cache.sess[i].mux
        /\ Life(o.d, i) = Life(cache, i) \/ (Life(o.d, i) = "closed" /\ (Life(cache, i) = "up" => o.cost > 0))
  BY Zenon, <1>1 DEF Drop, Paid, TypeOK
<1> QED BY Zenon, <1>2, <1>3, <1>4, <1>5, <1>6 DEF Under

\* A name that is fresh is that of no entry and no call.
LEMMA FreshIs ==
  ASSUME TypeOK, NEW i \in Fresh
  PROVE  /\ i \in Ids /\ \A k \in Keys : cache.entry[k].id # i
         /\ \A c \in Calls : call[c].id # i
<1>1. DOMAIN cache.entry = Keys
  BY Zenon DEF TypeOK, CacheType
<1> QED BY Zenon, <1>1 DEF Fresh, Known

\* A new connection.
LEMMA NewIs ==
  ASSUME NEW d \in CacheType, NEW i \in Ids, NEW mux \in BOOLEAN
  PROVE  LET e == New(d, i, mux) IN
         /\ e \in CacheType /\ e.entry = d.entry
         /\ e.sess[i] = [life |-> "up", mux |-> mux, alive |-> FALSE]
         /\ \A j \in Ids : j # i => e.sess[j] = d.sess[j]
<1> DEFINE v == [life |-> "up", mux |-> mux, alive |-> FALSE]
           s == [d.sess EXCEPT ![i] = v]
<1>1. v \in Sessions
  BY Zenon DEF Sessions
<1>2. New(d, i, mux) = [d EXCEPT !.sess = s]
  BY Zenon DEF New
<1> HIDE DEF v
<1>3. s \in [Ids -> Sessions] /\ s[i] = v /\ \A j \in Ids : j # i => s[j] = d.sess[j]
  BY Zenon, <1>1 DEF CacheType
<1> HIDE DEF s
<1>4. New(d, i, mux) \in CacheType /\ New(d, i, mux).entry = d.entry /\ New(d, i, mux).sess = s
  BY Zenon, <1>2, <1>3 DEF CacheType
<1> QED BY Zenon, <1>3, <1>4 DEF v

\* An entry is set.
LEMMA SetIs ==
  ASSUME NEW d \in CacheType, NEW k \in Keys, NEW v \in Entries
  PROVE  LET e == [d EXCEPT !.entry[k] = v] IN
         /\ e \in CacheType /\ e.sess = d.sess /\ e.entry[k] = v
         /\ \A h \in Keys : h # k => e.entry[h] = d.entry[h]
<1> DEFINE f == [d.entry EXCEPT ![k] = v]
<1>1. f \in [Keys -> Entries] /\ f[k] = v /\ \A h \in Keys : h # k => f[h] = d.entry[h]
  BY Zenon DEF CacheType
<1>2. [d EXCEPT !.entry[k] = v] = [d EXCEPT !.entry = f]
  BY Zenon
<1> HIDE DEF f
<1> QED BY Zenon, <1>1, <1>2 DEF CacheType

\* A connection is made where the entry was dropped.
LEMMA MakeNew ==
  ASSUME IInv, NEW d, NEW cost \in Nat, Drop(cache, d), Paid(cache, d, cost),
         d.entry[DialKey] = None, NEW i \in Fresh
  PROVE  Under(Outcome([New(d, i, ~D.two) EXCEPT !.entry[DialKey] = [id |-> i, mux |-> ~D.two]],
                       i, cost))
<1> DEFINE m == ~D.two
           n == New(d, i, m)
           v == [id |-> i, mux |-> m]
           e == [n EXCEPT !.entry[DialKey] = v]
           o == Outcome(e, i, cost)
<1>1. /\ TypeOK /\ CacheOK(cache) /\ Found(cache, Storing) /\ Apart /\ cache \in CacheType
      /\ DialKey \in Keys /\ SessionKey \in Keys
  BY Zenon, IdsAre DEF IInv, TypeOK
<1>2. /\ CacheOK(d) /\ Found(d, Storing) /\ d \in CacheType
      /\ \A k \in Keys : d.entry[k].id \in {0, cache.entry[k].id}
  BY Zenon, <1>1, DropKeeps DEF CacheOK
<1>3. /\ i \in Ids /\ \A k \in Keys : cache.entry[k].id # i
      /\ \A c \in Calls : call[c].id # i
  BY Zenon, <1>1, FreshIs
<1>4. /\ m \in BOOLEAN /\ v \in Entries /\ v.id = i /\ v.mux = m
      /\ IF D.two THEN m = FALSE ELSE m = TRUE
  BY Zenon, <1>3 DEF Entries
<1> HIDE DEF m
<1>5. /\ n \in CacheType /\ n.entry = d.entry
      /\ n.sess[i] = [life |-> "up", mux |-> m, alive |-> FALSE]
      /\ \A j \in Ids : j # i => n.sess[j] = d.sess[j]
  BY <1>2, <1>3, <1>4, NewIs
<1> HIDE DEF n, v
<1>6. /\ e \in CacheType /\ e.sess = n.sess /\ e.entry[DialKey] = v
      /\ \A h \in Keys : h # DialKey => e.entry[h] = d.entry[h]
  BY <1>1, <1>4, <1>5, SetIs
<1> HIDE DEF e
<1>7. 0 \notin Storing /\ i \notin Storing /\ \A k \in Keys : cache.entry[k].id \notin Storing
  BY Zenon, <1>1, <1>3, IdsAre DEF Storing, Apart
<1>8. \A k \in Keys : k # DialKey => d.entry[k].id # i
  BY Zenon, <1>2, <1>3, IdsAre
<1>9. CacheOK(e)
  <2>1. \A k \in Keys : d.entry[k].mux => d.entry[k].id \in Ids
    BY Zenon, <1>2, IdsAre DEF CacheType, Entries
  <2>2. \A k \in Keys : /\ e.entry[k].mux => e.sess[e.entry[k].id].mux
                        /\ ~D.two /\ e.entry[k] # None => e.entry[k].mux
    <3> SUFFICES ASSUME NEW k \in Keys
                 PROVE  /\ e.entry[k].mux => e.sess[e.entry[k].id].mux
                        /\ ~D.two /\ e.entry[k] # None => e.entry[k].mux
      BY Zenon
    <3>1. CASE k = DialKey
      BY SMTT(30), <3>1, <1>3, <1>4, <1>5, <1>6
    <3>2. CASE k # DialKey
      BY <3>2, <2>1, <1>2, <1>5, <1>6, <1>8 DEF CacheOK
    <3> QED BY Zenon, <3>1, <3>2
  <2> QED BY <2>2, <1>2, <1>3, <1>5, <1>6 DEF CacheOK
<1>10. Found(e, Storing)
  <2> SUFFICES ASSUME ~Excused, NEW j \in Ids, e.sess[j].mux, Life(e, j) = "up"
               PROVE  e.entry[SessionKey] = [id |-> j, mux |-> TRUE] \/ j \in Storing
    BY Zenon DEF Found
  <2>1. CASE j = i
    <3>1. m /\ SessionKey = DialKey
      BY <2>1, <1>4, <1>5, <1>6 DEF SessionKey
    <3>2. v = [id |-> i, mux |-> TRUE]
      BY Zenon, <3>1, <1>4 DEF v
    <3> QED BY Zenon, <2>1, <3>1, <3>2, <1>6
  <2>2. CASE j # i
    <3>1. d.entry[SessionKey] = [id |-> j, mux |-> TRUE] \/ j \in Storing
      BY Zenon, <2>2, <1>2, <1>5, <1>6 DEF Found, Life
    <3>2. d.entry[SessionKey] = [id |-> j, mux |-> TRUE] => SessionKey # DialKey
      BY IdsAre
    <3> QED BY Zenon, <3>1, <3>2, <1>1, <1>6
  <2> QED BY Zenon, <2>1, <2>2
<1>11. \A k \in Keys : e.entry[k].id \notin Storing
  BY Zenon, <1>2, <1>4, <1>6, <1>7
<1>12. ~D.two => e.sess[i].mux /\ e.entry[DialKey].id = i
  BY SMTT(30), <1>4, <1>5, <1>6
<1>13. \A c \in Calls : call[c].at # "idle" =>
         LET j == call[c].id IN
         /\ e.sess[j].mux = cache.sess[j].mux
         /\ Life(e, j) = Life(cache, j) \/ (Life(e, j) = "closed" /\ (Life(cache, j) = "up" => cost > 0))
  <2> SUFFICES ASSUME NEW c \in Calls, call[c].at # "idle"
               PROVE  LET j == call[c].id IN
                      /\ e.sess[j].mux = cache.sess[j].mux
                      /\ \/ Life(e, j) = Life(cache, j)
                         \/ Life(e, j) = "closed" /\ (Life(cache, j) = "up" => cost > 0)
    BY Zenon
  <2> DEFINE j == call[c].id
  <2>1. j \in Ids /\ j # i
    BY Zenon, <1>1, <1>3 DEF TypeOK
  <2> HIDE DEF j
  <2>2. e.sess[j] = d.sess[j]
    BY Zenon, <2>1, <1>5, <1>6
  <2>3. /\ d.sess[j].mux = cache.sess[j].mux /\ Life(d, j) \in {Life(cache, j), "closed"}
        /\ Life(cache, j) = "up" /\ Life(d, j) = "closed" => cost > 0
    BY Zenon, <2>1 DEF Drop, Paid
  <2> QED BY Zenon, <2>2, <2>3 DEF Life, j
<1>14. o.d = e /\ o.id = i /\ o.cost = cost /\ i \in 0..MaxIds
  BY SMTT(30), <1>3, BoundsAssumption DEF Outcome, Ids
<1>15. Under(o)
  BY Zenon, <1>7, <1>9, <1>10, <1>11, <1>12, <1>13, <1>14 DEF Under
<1> QED BY Zenon, <1>15 DEF o, e, n, v, m

\* What Dial has come to when it has a connection.
LEMMA MadeIs ==
  ASSUME IInv, NEW r \in UNION {Make(o) : o \in Lookup(cache)}
  PROVE  Under(r)
<1>1. PICK o \in Lookup(cache) : r \in Make(o)
  BY Zenon
<1>2. /\ Drop(cache, o.d) /\ Paid(cache, o.d, o.cost) /\ o.cost \in Nat
      /\ \/ o.id = 0 /\ o.d.entry[DialKey] = None
         \/ /\ o.d = cache /\ o.id = cache.entry[DialKey].id /\ o.id \in Ids
            /\ cache.entry[DialKey] # None
  BY Zenon, LookupIs
<1>3. CASE o.id # 0
  <2>1. r = o
    BY Zenon, <1>1, <1>3 DEF Make
  <2> QED BY Zenon, <1>2, <1>3, <2>1, DropUnder
<1>4. CASE o.id = 0
  <2>1. o.d.entry[DialKey] = None
    BY Zenon, <1>2, <1>4, IdsAre
  <2>2. CASE r = Outcome(o.d, 0, o.cost + 1)
    <3>1. r.d = o.d /\ r.id = 0 /\ r.cost = o.cost + 1 /\ r.cost \in Nat
      BY <1>2, <2>2 DEF Outcome
    <3>2. Paid(cache, r.d, r.cost)
      BY <1>2, <3>1 DEF Paid
    <3> QED BY Zenon, <1>2, <3>1, <3>2, DropUnder
  <2>3. CASE r # Outcome(o.d, 0, o.cost + 1)
    <3>1. PICK i \in Fresh :
            r = Outcome([New(o.d, i, ~D.two) EXCEPT !.entry[DialKey] = [id |-> i, mux |-> ~D.two]],
                        i, o.cost)
      BY Zenon, <1>1, <1>4, <2>3 DEF Make
    <3> QED BY Zenon, <1>2, <2>1, <3>1, MakeNew
  <2> QED BY Zenon, <2>2, <2>3
<1> QED BY Zenon, <1>3, <1>4

\* A stream is opened under the mutex, or the session is evicted.
LEMMA OpenedIs ==
  ASSUME IInv, NEW o, Under(o), ~D.two, NEW r \in GetConn(o, DialKey)
  PROVE  Under(r)
<1>1. CASE r = o
  BY Zenon, <1>1
<1>2. CASE r # o
  <2> DEFINE e == Evict(o.d, DialKey, o.id)
             n == Cost(o.d, o.id)
  <2>1. o.id # 0 /\ r = Outcome(e, 0, o.cost + n)
    BY Zenon, <1>2 DEF GetConn
  <2>2. /\ CacheOK(o.d) /\ o.d \in CacheType /\ o.id \in Ids /\ o.cost \in Nat
        /\ o.d.entry[DialKey].id = o.id /\ Found(o.d, Storing)
    BY SMTT(30), <2>1, BoundsAssumption DEF Under, CacheOK, Ids
  <2>3. Drop(o.d, e) /\ Paid(o.d, e, n)
    BY Zenon, <2>2, EvictDrops, IdsAre DEF IInv
  <2>4. n \in Nat
    BY Zenon DEF Cost
  <2> HIDE DEF e, n
  <2>5. r.d = e /\ r.id = 0 /\ r.cost = o.cost + n /\ r.cost \in Nat
    BY <2>1, <2>2, <2>4 DEF Outcome
  <2>6. /\ CacheOK(e) /\ Found(e, Storing)
        /\ \A k \in Keys : e.entry[k].id \in {0, o.d.entry[k].id}
    BY Zenon, <2>2, <2>3, DropKeeps
  <2>7. 0 \notin Storing
    BY Zenon, IdsAre DEF Storing
  <2>8. \A k \in Keys : e.entry[k].id \notin Storing
    BY Zenon, <2>6, <2>7 DEF Under
  <2>9. \A c \in Calls : call[c].at # "idle" =>
          LET i == call[c].id IN
          /\ e.sess[i].mux = cache.sess[i].mux
          /\ Life(e, i) = Life(cache, i) \/ (Life(e, i) = "closed" /\ (Life(cache, i) = "up" => o.cost + n > 0))
    <3> SUFFICES ASSUME NEW c \in Calls, call[c].at # "idle"
                 PROVE  LET i == call[c].id IN
                        /\ e.sess[i].mux = cache.sess[i].mux
                        /\ \/ Life(e, i) = Life(cache, i)
                           \/ Life(e, i) = "closed" /\ (Life(cache, i) = "up" => o.cost + n > 0)
      BY Zenon
    <3> DEFINE i == call[c].id
    <3>1. i \in Ids
      BY Zenon DEF IInv, TypeOK
    <3>2. /\ o.d.sess[i].mux = cache.sess[i].mux
          /\ \/ Life(o.d, i) = Life(cache, i)
             \/ Life(o.d, i) = "closed" /\ (Life(cache, i) = "up" => o.cost > 0)
      BY Zenon DEF Under
    <3> HIDE DEF i
    <3>3. /\ e.sess[i].mux = o.d.sess[i].mux /\ Life(e, i) \in {Life(o.d, i), "closed"}
          /\ Life(o.d, i) = "up" /\ Life(e, i) = "closed" => n > 0
      BY Zenon, <2>3, <3>1 DEF Drop, Paid
    <3> QED BY <2>2, <2>4, <3>2, <3>3 DEF i
  <2> QED BY <2>5, <2>6, <2>7, <2>8, <2>9, BoundsAssumption DEF Under
<1> QED BY Zenon, <1>1, <1>2

\* Dial of the dialers that hold their mutex.
LEMMA DialSessionKeeps ==
  ASSUME IInv, NEW c \in Calls, DialSession(c)
  PROVE  IInv' /\ SoundStep
<1> DEFINE made == UNION {Make(o) : o \in Lookup(cache)}
<1>1. TypeOK /\ call[c].at = "idle"
  BY Zenon DEF IInv, DialSession
<1>2. \A r \in made : Under(r)
  BY Zenon, MadeIs
<1> HIDE DEF made
<1>3. CASE D.two
  <2>1. D.opens = "none"
    BY Zenon, <1>1, <1>3, DialerIsSane DEF Sane
  <2>2. Take(c, made, "dialed")
    BY Zenon, <1>3, <2>1 DEF DialSession, made
  <2>3. \A r \in made : Result(c, r, "dialed")
    BY Zenon, <1>1, <1>2, UnderResult DEF Stages, Streaming
  <2> QED BY Zenon, <1>3, <2>2, <2>3, TakeKeeps DEF Stages
<1>4. CASE ~D.two /\ D.opens = "free"
  <2>1. Take(c, made, "opening")
    BY Zenon, <1>4 DEF DialSession, made
  <2>2. \A r \in made : Result(c, r, "opening")
    BY Zenon, <1>1, <1>2, <1>4, UnderResult DEF Stages
  <2> QED BY Zenon, <1>4, <2>1, <2>2, TakeKeeps DEF Stages
<1>5. CASE ~D.two /\ D.opens = "held"
  <2> DEFINE got == UNION {GetConn(o, DialKey) : o \in made}
  <2>1. Take(c, got, "opened")
    BY Zenon, <1>5 DEF DialSession, made
  <2>2. \A r \in got : Under(r)
    BY Zenon, <1>2, <1>5, OpenedIs
  <2> HIDE DEF got
  <2>3. \A r \in got : Result(c, r, "opened")
    BY Zenon, <1>1, <1>5, <2>2, UnderResult DEF Stages
  <2> QED BY Zenon, <2>1, <2>3, TakeKeeps DEF Stages
<1>6. CASE ~D.two /\ D.opens \notin {"free", "held"}
  <2>1. Take(c, made, "opened")
    BY Zenon, <1>6 DEF DialSession, made
  <2>2. \A r \in made : Result(c, r, "opened")
    BY Zenon, <1>1, <1>2, <1>6, UnderResult DEF Stages
  <2> QED BY Zenon, <2>1, <2>2, TakeKeeps DEF Stages
<1> QED BY Zenon, <1>3, <1>4, <1>5, <1>6

\* A call gets a stream of its session, or the session is evicted.
LEMMA GotResult ==
  ASSUME IInv, NEW c \in Calls, call[c].at \notin {"idle", "storing"}, NEW k \in Keys,
         D.evict = "always" /\ cache.entry[k].mux => cache.entry[k].id = call[c].id,
         cache.sess[call[c].id].mux,
         NEW r \in GetConn(Outcome(cache, call[c].id, 0), k)
  PROVE  Result(c, r, "opened")
<1> DEFINE i == call[c].id
           e == Evict(cache, k, i)
           n == Cost(cache, i)
<1>1. TypeOK /\ cache \in CacheType /\ i \in Ids /\ n \in Nat
  BY Zenon DEF IInv, TypeOK, Cost
<1>2. CASE r = Outcome(cache, i, 0)
  <2>1. Drop(cache, cache) /\ Paid(cache, cache, 0)
    BY Zenon, <1>1, DropNothing
  <2>2. r.d = cache /\ r.id = i /\ r.cost = 0
    BY Zenon, <1>2 DEF Outcome
  <2>3. \A b \in Calls : call[b].at = "streaming" => Spares(r.d, call[b].id)
    BY Zenon, <2>2 DEF Spares
  <2> HIDE DEF i
  <2> QED BY <2>1, <2>2, <2>3, DropResult DEF Stages, i
<1>3. CASE r = Outcome(e, 0, n)
  <2>1. Drop(cache, e) /\ Paid(cache, e, n)
    BY Zenon, <1>1, EvictDrops
  <2> HIDE DEF e, n
  <2>2. r.d = e /\ r.id = 0 /\ r.cost = n
    BY Zenon, <1>3 DEF Outcome
  <2>3. \A b \in Calls : call[b].at = "streaming" => Spares(r.d, call[b].id) \/ r.cost > 0
    BY Zenon, <1>1, <2>1, <2>2, PaidSpares
  <2> QED BY Zenon, <1>1, <2>1, <2>2, <2>3, DropResult DEF Stages
<1>4. r = Outcome(cache, i, 0) \/ r = Outcome(e, 0, 0 + n)
  <2>1. Outcome(cache, i, 0).id = i /\ Outcome(cache, i, 0).d = cache
        /\ Outcome(cache, i, 0).cost = 0
    BY Zenon DEF Outcome
  <2> QED BY Zenon, <2>1, <1>1, IdsAre DEF GetConn
<1> HIDE DEF e, n, i
<1> QED BY <1>1, <1>2, <1>3, <1>4

\* The stream is opened after the mutex is released.
LEMMA OpenStreamKeeps ==
  ASSUME IInv, NEW c \in Calls, OpenStream(c)
  PROVE  IInv' /\ SoundStep
<1>1. TypeOK /\ call[c].at = "opening" /\ D.opens = "free" /\ cache.sess[call[c].id].mux
  BY Zenon DEF IInv, TypeOK, Streams, Streaming, OpenStream
<1>2. D.evict # "always"
  BY Zenon, <1>1, DialerIsSane DEF Sane
<1>3. \A r \in GetConn(Outcome(cache, call[c].id, 0), DialKey) : Result(c, r, "opened")
  BY Zenon, <1>1, <1>2, GotResult, IdsAre
<1>4. Take(c, GetConn(Outcome(cache, call[c].id, 0), DialKey), "opened")
  BY Zenon DEF OpenStream
<1> QED BY Zenon, <1>3, <1>4, TakeKeeps DEF Stages

\* A client that is made without the mutex is apart from all others.
LEMMA NewResult ==
  ASSUME IInv, NEW c \in Calls, call[c].at = "idle", NEW i \in Fresh, D.races
  PROVE  Result(c, Outcome(New(cache, i, TRUE), i, 0), "storing")
<1> DEFINE e == New(cache, i, TRUE)
           r == Outcome(e, i, 0)
<1>1. /\ TypeOK /\ cache \in CacheType /\ CacheOK(cache) /\ Streams /\ Apart
      /\ Found(cache, Storing)
  BY Zenon DEF IInv, TypeOK
<1>2. /\ i \in Ids /\ \A k \in Keys : cache.entry[k].id # i
      /\ \A b \in Calls : call[b].id # i
  BY Zenon, <1>1, FreshIs
<1>3. /\ e \in CacheType /\ e.entry = cache.entry
      /\ e.sess[i] = [life |-> "up", mux |-> TRUE, alive |-> FALSE]
      /\ \A j \in Ids : j # i => e.sess[j] = cache.sess[j]
  BY Zenon, <1>1, <1>2, NewIs
<1>4. r.d = e /\ r.id = i /\ r.cost = 0
  BY Zenon DEF Outcome
<1> HIDE DEF e, r
<1>5. Storing = Held(c) /\ Held(c) \subseteq Ids
  BY Zenon DEF Storing, Held
<1>6. \A k \in Keys : cache.entry[k].mux => cache.entry[k].id \in Ids
  BY Zenon, <1>1, IdsAre DEF CacheType, Entries
<1>7. CacheOK(e)
  BY <1>1, <1>2, <1>3, <1>6 DEF CacheOK
<1>8. Found(e, Held(c) \cup {i})
  BY Zenon, <1>1, <1>3, <1>5 DEF Found, Life
<1>9. \A k \in Keys : e.entry[k].id \notin Held(c) \cup {i}
  BY <1>1, <1>2, <1>3 DEF Apart, Held
<1>10. i \notin Held(c) /\ i \in 0..MaxIds /\ i # 0
  BY <1>2, IdsAre DEF Held, Ids
<1>11. \A b \in Calls : call[b].at \in Streaming => e.sess[call[b].id].mux
  BY Zenon, <1>1, <1>2, <1>3 DEF Streams, TypeOK, Streaming
<1>12. \A b \in Calls : call[b].at = "streaming" => Spares(e, call[b].id)
  BY Zenon, <1>1, <1>2, <1>3 DEF Spares, Life, TypeOK
<1>13. {r.id} \ {0} = {i}
  BY Zenon, <1>4, <1>10
<1>14. /\ CacheOK(r.d) /\ r.id \in 0..MaxIds /\ r.cost \in Nat /\ r.id \notin Held(c)
       /\ r.d.sess[r.id].mux
       /\ \A b \in Calls \ {c} : call[b].id \notin {i}
  BY <1>2, <1>3, <1>4, <1>7, <1>10
<1>15. Result(c, r, "storing")
  BY Zenon, <1>4, <1>8, <1>9, <1>11, <1>12, <1>13, <1>14 DEF Result
<1> QED BY Zenon, <1>15 DEF r, e

\* Dial of the dialers that make their client without the mutex.
LEMMA DialClientKeeps ==
  ASSUME IInv, NEW c \in Calls, DialClient(c)
  PROVE  IInv' /\ SoundStep
<1> DEFINE e == cache.entry[DialKey]
           next == IF D.opens = "free" THEN "opening" ELSE "opened"
<1>1. TypeOK /\ cache \in CacheType /\ CacheOK(cache) /\ call[c].at = "idle" /\ D.races
  BY Zenon DEF IInv, TypeOK, DialClient
<1>2. ~D.two
  BY Zenon, <1>1, DialerIsSane DEF Sane
<1>3. Drop(cache, cache)
  BY Zenon, <1>1, DropNothing
<1>4. CASE e # None
  <2> DEFINE r == Outcome(cache, e.id, 0)
  <2>1. r.d = cache /\ r.id = e.id /\ r.cost = 0
    BY Zenon DEF Outcome
  <2>2. Take(c, {r}, next)
    BY Zenon, <1>4 DEF DialClient
  <2>3. cache.sess[e.id].mux
    BY Zenon, <1>1, <1>2, <1>4, IdsAre DEF CacheOK
  <2>4. \A b \in Calls : call[b].at = "streaming" => Spares(r.d, call[b].id)
    BY Zenon, <2>1 DEF Spares
  <2>5. next \in Stages \ {"storing", "dialed"} /\ (next = "opening" => D.opens = "free")
    BY Zenon DEF Stages
  <2>6. e.id \in {cache.entry[k].id : k \in Keys}
    BY Zenon, IdsAre
  <2> HIDE DEF e, next, r
  <2>7. Result(c, r, next)
    BY <1>1, <1>3, <2>1, <2>3, <2>4, <2>5, <2>6, DropResult
  <2> QED BY <2>2, <2>5, <2>7, TakeKeeps
<1>5. CASE e = None
  <2> DEFINE f == Outcome(cache, 0, 1)
             news == {Outcome(New(cache, i, TRUE), i, 0) : i \in Fresh}
  <2>1. Take(c, news \cup {f}, "storing")
    BY Zenon, <1>5 DEF DialClient
  <2>2. f.d = cache /\ f.id = 0 /\ f.cost = 1
    BY Zenon DEF Outcome
  <2>3. \A r \in news : Result(c, r, "storing")
    BY Zenon, <1>1, NewResult
  <2> HIDE DEF f, news
  <2>4. Result(c, f, "storing")
    BY <1>1, <1>3, <2>2, DropResult DEF Stages
  <2> QED BY Zenon, <1>1, <2>1, <2>3, <2>4, TakeKeeps DEF Stages
<1> QED BY Zenon, <1>4, <1>5

\* The client that comes second is closed, and was nobody else's; the one that
\* comes first becomes the entry.
LEMMA StoreResult ==
  ASSUME IInv, NEW c \in Calls, call[c].at = "storing", NEW at \in {"opening", "opened"}
  PROVE  LET e == cache.entry[DialKey]
             i == call[c].id
         IN IF e # None THEN Result(c, Outcome(Closed(cache, i), e.id, 0), at)
            ELSE Result(c, Outcome([cache EXCEPT !.entry[DialKey] = [id |-> i, mux |-> TRUE]],
                                   i, 0), at)
<1> DEFINE e == cache.entry[DialKey]
           i == call[c].id
<1>1. /\ TypeOK /\ cache \in CacheType /\ CacheOK(cache) /\ Streams /\ Apart
      /\ Found(cache, Storing) /\ i \in Ids /\ D.races /\ cache.sess[i].mux
  BY Zenon DEF IInv, TypeOK, Streams, Streaming
<1>2. ~D.two /\ SessionKey = DialKey
  BY Zenon, <1>1, DialerIsSane DEF Sane, SessionKey
<1>3. Storing = Held(c) \cup {i} /\ i \notin Held(c) /\ Held(c) \subseteq Ids
  BY Zenon, <1>1 DEF Storing, Held, Apart
<1>4. /\ \A k \in Keys : cache.entry[k].id \notin Held(c) /\ cache.entry[k].id # i
      /\ \A b \in Calls \ {c} : call[b].id # i
  BY Zenon, <1>1 DEF Held, Apart
<1>5. DialKey \in Keys
  BY Zenon, IdsAre
<1>6. \A k \in Keys : cache.entry[k] \in Entries
  BY Zenon, <1>1 DEF CacheType
<1>7. CASE e # None
  <2> DEFINE f == Closed(cache, i)
             r == Outcome(f, e.id, 0)
  <2>1. /\ f.entry = cache.entry /\ Life(f, i) = "closed"
        /\ \A j \in Ids : f.sess[j].mux = cache.sess[j].mux /\ (j # i => f.sess[j] = cache.sess[j])
    BY Zenon, <1>1, ClosedIs
  <2>2. Drop(cache, f)
    BY Zenon, <1>1, CloseDrops
  <2>3. r.d = f /\ r.id = e.id /\ r.cost = 0
    BY Zenon DEF Outcome
  <2> HIDE DEF f, r
  <2>4. CacheOK(f) /\ Found(f, Storing)
    BY Zenon, <1>1, <2>2, DropKeeps
  <2>5. Found(f, Held(c))
    BY Zenon, <1>3, <2>1, <2>4 DEF Found
  <2>6. e.id \in Ids /\ cache.sess[e.id].mux
    BY Zenon, <1>1, <1>2, <1>5, <1>6, <1>7, IdsAre DEF Entries, CacheOK
  <2>7. \A b \in Calls : call[b].at \in Streaming => f.sess[call[b].id].mux
    BY Zenon, <1>1, <2>1 DEF Streams, Streaming, TypeOK
  <2>8. \A b \in Calls : call[b].at = "streaming" => Spares(f, call[b].id)
    BY <1>1, <1>4, <2>1 DEF Spares, TypeOK, Life
  <2>9. /\ r.id \in 0..MaxIds /\ r.cost \in Nat /\ r.d.sess[r.id].mux /\ r.id \notin Held(c)
        /\ \A k \in Keys : r.d.entry[k].id \notin Held(c)
    BY <1>4, <1>5, <2>1, <2>3, <2>6 DEF Ids
  <2>10. at # "storing" /\ Held(c) \cup {} = Held(c)
    BY Zenon
  <2>11. Result(c, r, at)
    BY Zenon, <2>3, <2>4, <2>5, <2>7, <2>8, <2>9, <2>10 DEF Result
  <2> QED BY Zenon, <1>7, <2>11 DEF f, r
<1>8. CASE e = None
  <2> DEFINE v == [id |-> i, mux |-> TRUE]
             f == [cache EXCEPT !.entry[DialKey] = v]
             r == Outcome(f, i, 0)
  <2>1. v \in Entries /\ v.id = i /\ v.mux
    BY Zenon, <1>1 DEF Entries
  <2>2. /\ f \in CacheType /\ f.sess = cache.sess /\ f.entry[DialKey] = v
        /\ \A h \in Keys : h # DialKey => f.entry[h] = cache.entry[h]
    BY ZenonT(30), <1>1, <1>5, <2>1, SetIs
  <2>3. r.d = f /\ r.id = i /\ r.cost = 0
    BY Zenon DEF Outcome
  <2> HIDE DEF f, r
  <2>4. CacheOK(f)
    BY <1>1, <2>1, <2>2 DEF CacheOK
  <2>5. Found(f, Held(c))
    <3> SUFFICES ASSUME ~Excused, NEW j \in Ids, f.sess[j].mux, Life(f, j) = "up"
                 PROVE  f.entry[SessionKey] = [id |-> j, mux |-> TRUE] \/ j \in Held(c)
      BY Zenon DEF Found
    <3>1. e = [id |-> j, mux |-> TRUE] \/ j \in Held(c) \cup {i}
      BY Zenon, <1>1, <1>2, <1>3, <2>2 DEF Found, Life
    <3>2. e # [id |-> j, mux |-> TRUE]
      BY <1>8, IdsAre
    <3> QED BY Zenon, <1>2, <2>2, <3>1, <3>2
  <2>6. \A k \in Keys : f.entry[k].id \notin Held(c)
    BY Zenon, <1>3, <1>4, <2>1, <2>2
  <2>7. \A b \in Calls : /\ call[b].at \in Streaming => f.sess[call[b].id].mux
                         /\ Spares(f, call[b].id)
    BY Zenon, <1>1, <2>2 DEF Streams, Spares, Life
  <2>8. r.id \in 0..MaxIds /\ r.cost \in Nat /\ r.d.sess[r.id].mux
    BY SMTT(30), <1>1, <2>2, <2>3 DEF Ids
  <2>9. at # "storing" /\ Held(c) \cup {} = Held(c)
    BY Zenon
  <2>10. Result(c, r, at)
    BY Zenon, <1>3, <2>3, <2>4, <2>5, <2>6, <2>7, <2>8, <2>9 DEF Result
  <2> QED BY Zenon, <1>8, <2>10 DEF f, r
<1> QED BY Zenon, <1>7, <1>8

\* So storing keeps the invariant.
LEMMA StoreClientKeeps ==
  ASSUME IInv, NEW c \in Calls, StoreClient(c)
  PROVE  IInv' /\ SoundStep
<1> DEFINE e == cache.entry[DialKey]
           i == call[c].id
           rs == IF e # None THEN {Outcome(Closed(cache, i), e.id, 0)}
                 ELSE {Outcome([cache EXCEPT !.entry[DialKey] = [id |-> i, mux |-> TRUE]], i, 0)}
           at == IF D.opens = "free" THEN "opening" ELSE "opened"
<1>1. call[c].at = "storing" /\ Take(c, rs, at)
  BY Zenon DEF StoreClient
<1>2. at \in {"opening", "opened"} /\ (at = "opening" => D.opens = "free")
  BY Zenon
<1> HIDE DEF at
<1>3. \A r \in rs : Result(c, r, at)
  BY Zenon, <1>1, <1>2, StoreResult
<1> HIDE DEF rs
<1> QED BY Zenon, <1>1, <1>2, <1>3, TakeKeeps DEF Stages

-----------------------------------------------------------------------------
(* Handshake and connect.                                                  *)

\* A sound session of a two-phase dialer that is in use is the one of the
\* entry: no other can be refused, evicted or made.
LEMMA SoundIsFound ==
  ASSUME IInv, D.two, NEW b \in Calls, call[b].at = "streaming", Life(cache, call[b].id) = "up"
  PROVE  \/ DeletesBlindly
         \/ cache.entry[HandshakeKey] = [id |-> call[b].id, mux |-> TRUE]
<1>1. TypeOK /\ Found(cache, Storing) /\ call[b].id \in Ids /\ cache.sess[call[b].id].mux
  BY Zenon DEF IInv, TypeOK, Streams, Streaming
<1>2. ~D.races /\ ~D.heals /\ D.evict = "always"
  BY Zenon, <1>1, DialerIsSane DEF Sane
<1>3. Storing = {}
  BY Zenon, <1>1, <1>2 DEF Storing, TypeOK
<1>4. SessionKey = HandshakeKey
  BY Zenon DEF SessionKey
<1> QED BY Zenon, <1>1, <1>2, <1>3, <1>4 DEF Found, Excused, Abandons

\* A connection is made a session.
LEMMA InitIs ==
  ASSUME NEW d \in CacheType, NEW i \in Ids, conf.keepalive \in BOOLEAN
  PROVE  LET e == [d EXCEPT !.sess[i].mux = TRUE, !.sess[i].alive = conf.keepalive,
                            !.entry[HandshakeKey] = [id |-> i, mux |-> TRUE]]
         IN /\ e \in CacheType
            /\ e.entry[HandshakeKey] = [id |-> i, mux |-> TRUE]
            /\ \A h \in Keys : h # HandshakeKey => e.entry[h] = d.entry[h]
            /\ e.sess[i].mux /\ e.sess[i].alive = conf.keepalive /\ Life(e, i) = Life(d, i)
            /\ \A j \in Ids : j # i => e.sess[j] = d.sess[j]
<1> DEFINE q == [d.sess[i] EXCEPT !.mux = TRUE]
           s1 == [d.sess EXCEPT ![i] = q]
           d1 == [d EXCEPT !.sess[i].mux = TRUE]
           r == [d1.sess[i] EXCEPT !.alive = conf.keepalive]
           s2 == [d1.sess EXCEPT ![i] = r]
           d2 == [d1 EXCEPT !.sess[i].alive = conf.keepalive]
           v == [id |-> i, mux |-> TRUE]
           d3 == [d2 EXCEPT !.entry[HandshakeKey] = v]
<1>1. /\ d1 \in CacheType /\ d1.entry = d.entry /\ d1.sess[i] \in Sessions
      /\ d1.sess[i].mux = TRUE /\ d1.sess[i].life = d.sess[i].life
      /\ \A j \in Ids : j # i => d1.sess[j] = d.sess[j]
  <2>1. d1 = [d EXCEPT !.sess = s1]
    BY Zenon
  <2>2. d.sess[i] \in Sessions
    BY Zenon DEF CacheType
  <2>3. q \in Sessions /\ q.mux = TRUE /\ q.life = d.sess[i].life
    BY Zenon, <2>2 DEF Sessions
  <2> HIDE DEF q
  <2>4. s1 \in [Ids -> Sessions] /\ s1[i] = q /\ \A j \in Ids : j # i => s1[j] = d.sess[j]
    BY Zenon, <2>3 DEF CacheType
  <2> HIDE DEF s1, d1
  <2>5. d1 \in CacheType /\ d1.entry = d.entry /\ d1.sess = s1
    BY Zenon, <2>1, <2>4 DEF CacheType
  <2> QED BY Zenon, <2>3, <2>4, <2>5
<1> HIDE DEF d1
<1>2. /\ d2 \in CacheType /\ d2.entry = d1.entry
      /\ d2.sess[i].mux = TRUE /\ d2.sess[i].life = d1.sess[i].life
      /\ d2.sess[i].alive = conf.keepalive
      /\ \A j \in Ids : j # i => d2.sess[j] = d1.sess[j]
  <2>1. d2 = [d1 EXCEPT !.sess = s2]
    BY Zenon
  <2>2. /\ r \in Sessions /\ r.mux = TRUE /\ r.life = d1.sess[i].life
        /\ r.alive = conf.keepalive
    BY Zenon, <1>1 DEF Sessions
  <2> HIDE DEF r
  <2>3. s2 \in [Ids -> Sessions] /\ s2[i] = r /\ \A j \in Ids : j # i => s2[j] = d1.sess[j]
    BY Zenon, <1>1, <2>2 DEF CacheType
  <2> HIDE DEF s2, d2
  <2>4. d2 \in CacheType /\ d2.entry = d1.entry /\ d2.sess = s2
    BY Zenon, <1>1, <2>1, <2>3 DEF CacheType
  <2> QED BY Zenon, <2>2, <2>3, <2>4
<1> HIDE DEF d2
<1>3. v \in Entries /\ HandshakeKey \in Keys
  BY Zenon, IdsAre DEF Entries
<1> HIDE DEF v
<1>4. /\ d3 \in CacheType /\ d3.sess = d2.sess /\ d3.entry[HandshakeKey] = v
      /\ \A h \in Keys : h # HandshakeKey => d3.entry[h] = d2.entry[h]
  BY <1>2, <1>3, SetIs
<1> HIDE DEF d3
<1>5. /\ d3 \in CacheType /\ d3.entry[HandshakeKey] = v
      /\ \A h \in Keys : h # HandshakeKey => d3.entry[h] = d.entry[h]
      /\ d3.sess[i].mux /\ d3.sess[i].alive = conf.keepalive /\ Life(d3, i) = Life(d, i)
      /\ \A j \in Ids : j # i => d3.sess[j] = d.sess[j]
  BY Zenon, <1>1, <1>2, <1>4 DEF Life
<1> QED BY Zenon, <1>5 DEF d3, d2, d1, v


\* The session is made of the connection, and becomes the entry.
LEMMA InitResult ==
  ASSUME IInv, D.two, NEW c \in Calls, call[c].at = "dialed",
         ~cache.entry[HandshakeKey].mux, NEW r \in InitSession(cache, call[c].id)
  PROVE  Result(c, r, "opened")
<1> DEFINE i == call[c].id
           n == IF cache.sess[i].mux THEN 0 ELSE Cost(cache, i)
           e == [cache EXCEPT !.sess[i].mux = TRUE, !.sess[i].alive = conf.keepalive,
                              !.entry[HandshakeKey] = [id |-> i, mux |-> TRUE]]
           f == Without(Closed(cache, i), HandshakeKey)
<1>1. /\ TypeOK /\ cache \in CacheType /\ CacheOK(cache) /\ Streams /\ i \in Ids
      /\ Found(cache, Storing) /\ conf.keepalive \in BOOLEAN
  BY Zenon, ConfsAssumption DEF IInv, TypeOK
<1>2. ~D.races /\ SessionKey = HandshakeKey /\ HandshakeKey \in Keys
  BY Zenon, <1>1, DialerIsSane, IdsAre DEF Sane, SessionKey
<1>3. Storing = {} /\ Held(c) = {}
  BY Zenon, <1>1, <1>2 DEF Storing, Held, TypeOK
<1>4. r = Outcome(e, i, 0) \/ r = Outcome(f, 0, n)
  BY Zenon DEF InitSession
<1>5. CASE r = Outcome(e, i, 0)
  <2>1. /\ e \in CacheType
        /\ e.entry[HandshakeKey] = [id |-> i, mux |-> TRUE]
        /\ \A h \in Keys : h # HandshakeKey => e.entry[h] = cache.entry[h]
        /\ e.sess[i].mux /\ e.sess[i].alive = conf.keepalive /\ Life(e, i) = Life(cache, i)
        /\ \A j \in Ids : j # i => e.sess[j] = cache.sess[j]
    BY ZenonT(30), <1>1, InitIs
  <2>2. r.d = e /\ r.id = i /\ r.cost = 0
    BY Zenon, <1>5 DEF Outcome
  <2> HIDE DEF e
  <2>3. \A k \in Keys : cache.entry[k].mux => cache.entry[k].id \in Ids
    BY Zenon, <1>1, IdsAre DEF CacheType, Entries
  <2>4. CacheOK(e)
    <3>1. \A j \in Ids : cache.sess[j].mux => e.sess[j].mux
      BY Zenon, <2>1
    <3>2. \A k \in Keys : e.entry[k].mux => e.sess[e.entry[k].id].mux
      BY SMTT(30), <1>1, <2>1, <2>3, <3>1 DEF CacheOK
    <3>3. \A j \in Ids : e.sess[j].alive => conf.keepalive
      BY Zenon, <1>1, <2>1 DEF CacheOK
    <3> QED BY Zenon, <2>1, <3>2, <3>3 DEF CacheOK
  <2>5. Found(e, {})
    <3> SUFFICES ASSUME ~Excused, NEW j \in Ids, e.sess[j].mux, Life(e, j) = "up"
                 PROVE  e.entry[SessionKey] = [id |-> j, mux |-> TRUE]
      BY Zenon DEF Found
    <3>1. CASE j = i
      BY Zenon, <1>2, <2>1, <3>1
    <3>2. CASE j # i
      <4>1. cache.entry[HandshakeKey] = [id |-> j, mux |-> TRUE]
        BY Zenon, <1>1, <1>2, <1>3, <2>1, <3>2 DEF Found, Life
      <4> QED BY <4>1
    <3> QED BY Zenon, <3>1, <3>2
  <2>6. \A b \in Calls : call[b].at \in Streaming => e.sess[call[b].id].mux
    BY SMTT(30), <1>1, <2>1 DEF Streams, Streaming, TypeOK
  <2>7. \A b \in Calls : call[b].at = "streaming" => Spares(e, call[b].id)
    BY Zenon, <1>1, <2>1 DEF Spares, TypeOK, Life
  <2>8. r.id \in 0..MaxIds /\ r.cost \in Nat /\ r.d.sess[r.id].mux
    BY <1>1, <2>1, <2>2 DEF Ids
  <2>9. {} \cup {} = {}
    BY Zenon
  <2> QED BY Zenon, <1>3, <2>2, <2>4, <2>5, <2>6, <2>7, <2>8, <2>9 DEF Result
<1>6. CASE r = Outcome(f, 0, n)
  <2>1. Drop(cache, f) /\ Paid(cache, f, Cost(cache, i))
    BY Zenon, <1>1, <1>2, EndDrops
  <2>2. /\ n \in Nat /\ (~cache.sess[i].mux => n = Cost(cache, i))
    BY Zenon DEF Cost
  <2>3. \A j \in Ids : j # i => f.sess[j] = cache.sess[j]
    <3> DEFINE g == Closed(cache, i)
    <3>1. g \in CacheType /\ \A j \in Ids : j # i => g.sess[j] = cache.sess[j]
      BY Zenon, <1>1, ClosedIs
    <3> HIDE DEF g
    <3>2. Without(g, HandshakeKey).sess = g.sess
      BY Zenon, <1>2, <3>1, WithoutIs
    <3> QED BY Zenon, <3>1, <3>2 DEF g
  <2> HIDE DEF f, n
  <2>4. r.d = f /\ r.id = 0 /\ r.cost = n
    BY Zenon, <1>6 DEF Outcome
  <2>5. ASSUME NEW b \in Calls, call[b].at = "streaming"
        PROVE  Spares(f, call[b].id) \/ n > 0 \/ DeletesBlindly
    <3>1. call[b].id \in Ids /\ cache.sess[call[b].id].mux
      BY Zenon, <1>1, <2>5 DEF TypeOK, Streams, Streaming
    <3>2. CASE call[b].id # i
      BY Zenon, <2>3, <3>1, <3>2 DEF Spares, Life
    <3>3. CASE call[b].id = i /\ Life(cache, i) = "up"
      <4>1. DeletesBlindly \/ cache.entry[HandshakeKey] = [id |-> i, mux |-> TRUE]
        BY Zenon, <2>5, <3>3, SoundIsFound
      <4> QED BY <4>1
    <3> QED BY Zenon, <3>2, <3>3 DEF Spares
  <2> QED BY Zenon, <1>1, <2>1, <2>2, <2>4, <2>5, DropResult DEF Stages
<1> HIDE DEF e, f, n
<1> QED BY Zenon, <1>4, <1>5, <1>6

\* Handshake of the two-phase dialers.
LEMMA HandshakeKeeps ==
  ASSUME IInv, NEW c \in Calls, Handshake(c)
  PROVE  IInv' /\ SoundStep
<1> DEFINE e == cache.entry[HandshakeKey]
           i == call[c].id
<1>1. /\ TypeOK /\ cache \in CacheType /\ CacheOK(cache) /\ i \in Ids
      /\ call[c].at = "dialed" /\ D.two /\ HandshakeKey \in Keys
  BY Zenon, IdsAre DEF IInv, TypeOK, Handshake
<1>2. CASE Unrecognized(e, i)
  <2> DEFINE f == Closed(cache, i)
             r == Outcome(f, 0, 0)
  <2>1. Take(c, {r}, "opened")
    BY Zenon, <1>2 DEF Handshake
  <2>2. Drop(cache, f)
    BY Zenon, <1>1, CloseDrops
  <2>3. \A j \in Ids : j # i => f.sess[j] = cache.sess[j]
    BY Zenon, <1>1, ClosedIs
  <2>4. r.d = f /\ r.id = 0 /\ r.cost = 0
    BY Zenon DEF Outcome
  <2> HIDE DEF f, r
  <2>5. ASSUME NEW b \in Calls, call[b].at = "streaming"
        PROVE  Spares(f, call[b].id) \/ DeletesBlindly
    <3>1. call[b].id \in Ids
      BY Zenon, <1>1, <2>5 DEF TypeOK
    <3>2. CASE call[b].id # i
      BY Zenon, <2>3, <3>1, <3>2 DEF Spares, Life
    <3>3. CASE call[b].id = i /\ Life(cache, i) = "up"
      <4>1. DeletesBlindly \/ e = [id |-> i, mux |-> TRUE]
        BY Zenon, <1>1, <2>5, <3>3, SoundIsFound
      <4> QED BY <1>2, <4>1 DEF Unrecognized
    <3> QED BY Zenon, <3>2, <3>3 DEF Spares
  <2>6. Result(c, r, "opened")
    BY <1>1, <2>2, <2>4, <2>5, DropResult DEF Stages
  <2> QED BY <2>1, <2>6, TakeKeeps DEF Stages
<1>3. CASE ~Unrecognized(e, i) /\ ~e.mux
  <2>1. Take(c, InitSession(cache, i), "opened")
    BY Zenon, <1>3 DEF Handshake
  <2>2. \A r \in InitSession(cache, i) : Result(c, r, "opened")
    BY Zenon, <1>1, <1>3, InitResult
  <2> QED BY Zenon, <2>1, <2>2, TakeKeeps DEF Stages
<1>4. CASE ~Unrecognized(e, i) /\ e.mux
  <2>1. Take(c, GetConn(Outcome(cache, i, 0), HandshakeKey), "opened")
    BY Zenon, <1>4 DEF Handshake
  <2>2. e.id = i /\ cache.sess[i].mux
    BY Zenon, <1>1, <1>4, IdsAre DEF Unrecognized, CacheOK
  <2>3. \A r \in GetConn(Outcome(cache, i, 0), HandshakeKey) : Result(c, r, "opened")
    BY Zenon, <1>1, <2>2, GotResult
  <2> QED BY Zenon, <2>1, <2>3, TakeKeeps DEF Stages
<1> QED BY Zenon, <1>2, <1>3, <1>4

\* The stream is in use.
LEMMA ConnectKeeps ==
  ASSUME IInv, NEW c \in Calls, Connect(c)
  PROVE  IInv' /\ SoundStep
<1> DEFINE r == Outcome(cache, call[c].id, 0)
<1>1. /\ cache \in CacheType /\ call[c].at = "opened" /\ Take(c, {r}, "streaming")
      /\ cache.sess[call[c].id].mux
  BY Zenon DEF IInv, TypeOK, Streams, Streaming, Connect
<1>2. r.d = cache /\ r.id = call[c].id /\ r.cost = 0
  BY Zenon DEF Outcome
<1> HIDE DEF r
<1>3. Drop(cache, r.d)
  BY Zenon, <1>1, <1>2, DropNothing
<1>4. \A b \in Calls : call[b].at = "streaming" => Spares(r.d, call[b].id)
  BY Zenon, <1>2 DEF Spares
<1>5. Result(c, r, "streaming")
  BY <1>1, <1>2, <1>3, <1>4, DropResult DEF Stages
<1> QED BY SMTT(30), <1>1, <1>5, TakeKeeps DEF Stages

\* Closing what Dial returned.
LEMMA CloseDialedDrops ==
  ASSUME TypeOK, NEW i \in Ids
  PROVE  LET f == CloseDialed(cache, i) IN Drop(cache, f) /\ Paid(cache, f, Cost(cache, i))
<1>1. cache \in CacheType /\ DialKey \in Keys /\ Cost(cache, i) \in Nat
  BY Zenon, IdsAre DEF TypeOK, Cost
<1>2. CASE D.shared
  <2>1. ~D.forgets
    BY Zenon, <1>2, DialerIsSane DEF Sane
  <2> QED BY Zenon, <1>1, <1>2, <2>1, CloseDrops DEF CloseDialed
<1>3. CASE ~D.shared /\ D.forgets
  <2>1. Excused
    BY Zenon, <1>3, DialerIsSane DEF Sane, Excused
  <2> QED BY <1>1, <1>3, <2>1, WithoutDrops DEF CloseDialed, Paid
<1>4. CASE ~D.shared /\ ~D.forgets
  BY Zenon, <1>1, <1>4, DropNothing DEF CloseDialed, Paid
<1> QED BY Zenon, <1>2, <1>3, <1>4

\* A stream reports a session that is closed already: no sound one goes.
LEMMA ReportedDrops ==
  ASSUME TypeOK, NEW d \in CacheType, NEW i \in Ids
  PROVE  Drop(d, Reported(d, i)) /\ Paid(d, Reported(d, i), 0)
<1>1. CASE D.races /\ Life(d, i) = "closed"
  <2>1. D.evict # "always" /\ Cost(d, i) = 0 /\ DialKey \in Keys
    BY Zenon, <1>1, DialerIsSane, IdsAre DEF Sane, Cost
  <2>2. Drop(d, Evict(d, DialKey, i)) /\ Paid(d, Evict(d, DialKey, i), 0)
    BY Zenon, <2>1, EvictDrops
  <2> QED BY Zenon, <1>1, <2>2 DEF Reported
<1>2. CASE ~(D.races /\ Life(d, i) = "closed")
  BY Zenon, <1>2, DropNothing DEF Reported
<1> QED BY Zenon, <1>1, <1>2

\* A call that comes back.
LEMMA BackKeeps ==
  ASSUME IInv, NEW c \in Calls, call[c].at \notin {"idle", "storing"},
         NEW f, NEW n \in Nat, Drop(cache, f), Paid(cache, f, n),
         Take(c, {Outcome(Reported(f, call[c].id), 0, n)}, "idle")
  PROVE  IInv' /\ SoundStep
<1> DEFINE e == Reported(f, call[c].id)
           r == Outcome(e, 0, n)
<1>1. TypeOK /\ cache \in CacheType /\ call[c].id \in Ids /\ f \in CacheType
  BY Zenon DEF IInv, TypeOK, Drop
<1>2. Drop(f, e) /\ Paid(f, e, 0)
  BY Zenon, <1>1, ReportedDrops
<1>3. r.d = e /\ r.id = 0 /\ r.cost = n
  BY Zenon DEF Outcome
<1> HIDE DEF e
<1>4. Drop(cache, e) /\ Paid(cache, e, n)
  <2>1. Paid(cache, e, n + 0)
    BY Zenon, <1>2, PaidTwice
  <2> QED BY SMTT(30), <1>1, <1>2, <2>1, DropTwice
<1>5. \A b \in Calls : call[b].at = "streaming" => Spares(e, call[b].id) \/ n > 0
  BY Zenon, <1>1, <1>4, PaidSpares
<1> HIDE DEF r
<1>6. Result(c, r, "idle")
  BY Zenon, <1>3, <1>4, <1>5, DropResult DEF Stages, Streaming
<1>7. Take(c, {r}, "idle")
  BY Zenon DEF r, e
<1> QED BY SMTT(30), <1>6, <1>7, TakeKeeps DEF Stages

\* The connector fails, or the stream ends.
LEMMA ConnectFailsKeep ==
  ASSUME IInv, NEW c \in Calls,
         ConnectorHandshakeFails(c) \/ ConnectFails(c) \/ StreamEnds(c)
  PROVE  IInv' /\ SoundStep
<1> DEFINE i == call[c].id
           n == Cost(cache, i)
           f == CloseDialed(cache, i)
<1>1. TypeOK /\ cache \in CacheType /\ call[c].at \in {"opened", "streaming"} /\ i \in Ids /\ n \in Nat
  BY Zenon DEF IInv, TypeOK, Cost, ConnectorHandshakeFails, ConnectFails, StreamEnds
<1>2. Drop(cache, f) /\ Paid(cache, f, n)
  BY Zenon, <1>1, CloseDialedDrops
<1>3. Drop(cache, cache) /\ Paid(cache, cache, 0)
  BY Zenon, <1>1, DropNothing
<1>4. Paid(cache, cache, n)
  BY Zenon DEF Paid
<1>5. \/ Take(c, {Outcome(Reported(f, i), 0, n)}, "idle")
      \/ Take(c, {Outcome(Reported(cache, i), 0, n)}, "idle")
      \/ Take(c, {Outcome(Reported(cache, i), 0, 0)}, "idle")
  BY Zenon DEF ConnectorHandshakeFails, ConnectFails, StreamEnds
<1> HIDE DEF f, n
<1> QED BY Zenon, <1>1, <1>2, <1>3, <1>4, <1>5, BackKeeps

-----------------------------------------------------------------------------
(* Sessions break, and somebody notices.                                   *)

\* What happens to a session that no call takes part in.
LEMMA AloneKeeps ==
  ASSUME IInv, UNCHANGED <<conf, call>>, faults' \in Nat, CacheOK(cache'), Found(cache', Storing),
         \A k \in Keys : cache'.entry[k].id \in {0, cache.entry[k].id},
         \A j \in Ids : cache'.sess[j].mux = cache.sess[j].mux
  PROVE  IInv'
<1>1. TypeOK /\ Apart /\ Streams
  BY Zenon DEF IInv
<1>2. cache' \in CacheType /\ conf' = conf /\ call' = call
  BY Zenon DEF CacheOK
<1>3. D' = D
  BY Zenon, <1>2, SameDialer
<1>4. TypeOK'
  BY <1>1, <1>2, <1>3 DEF TypeOK
<1>5. Storing' = Storing
  BY Zenon, <1>2 DEF Storing
<1>6. CacheOK(cache)' /\ Found(cache, Storing)'
  <2>1. CacheOK(cache)' <=> CacheOK(cache')
    BY Zenon, <1>2, <1>3 DEF CacheOK
  <2>2. Found(cache, Storing)' <=> Found(cache', Storing)
    BY Zenon, <1>2, <1>3, <1>5, SameDialer DEF Found, Life
  <2> QED BY Zenon, <2>1, <2>2
<1>7. Apart'
  BY Zenon, <1>1, <1>2, IdsAre DEF Apart, TypeOK
<1>8. Streams'
  BY Zenon, <1>1, <1>2 DEF Streams, Streaming, TypeOK
<1> QED BY Zenon, <1>4, <1>6, <1>7, <1>8 DEF IInv

\* A session that breaks is not closed.
LEMMA BreakKeeps ==
  ASSUME IInv, NEW i \in Ids, Break(i)
  PROVE  IInv' /\ SoundStep
<1> DEFINE r == [cache.sess[i] EXCEPT !.life = "broken"]
           s == [cache.sess EXCEPT ![i] = r]
<1>1. TypeOK /\ cache \in CacheType /\ CacheOK(cache) /\ Found(cache, Storing)
  BY Zenon DEF IInv, TypeOK
<1>2. cache' = [cache EXCEPT !.sess = s]
  BY Zenon DEF Break
<1>3. cache.sess[i] \in Sessions
  BY Zenon, <1>1 DEF CacheType
<1>4. r \in Sessions /\ r.mux = cache.sess[i].mux /\ r.alive = cache.sess[i].alive /\ r.life = "broken"
  BY Zenon, <1>3 DEF Sessions
<1> HIDE DEF r
<1>5. s \in [Ids -> Sessions] /\ s[i] = r /\ \A j \in Ids : j # i => s[j] = cache.sess[j]
  BY Zenon, <1>1, <1>4 DEF CacheType
<1> HIDE DEF s
<1>6. cache' \in CacheType /\ cache'.entry = cache.entry /\ cache'.sess = s
  BY Zenon, <1>1, <1>2, <1>5 DEF CacheType
<1>7. \A j \in Ids : /\ cache'.sess[j].mux = cache.sess[j].mux
                     /\ cache'.sess[j].alive = cache.sess[j].alive
                     /\ Life(cache', j) \in {Life(cache, j), "broken"}
  BY Zenon, <1>4, <1>5, <1>6 DEF Life
<1>8. \A k \in Keys : cache.entry[k].mux => cache.entry[k].id \in Ids
  BY Zenon, <1>1, IdsAre DEF CacheType, Entries
<1>9. CacheOK(cache')
  BY Zenon, <1>1, <1>6, <1>7, <1>8 DEF CacheOK
<1>10. Found(cache', Storing)
  BY Zenon, <1>1, <1>6, <1>7 DEF Found
<1>11. faults' \in Nat /\ faults' < faults /\ UNCHANGED <<conf, call>>
  BY SMTT(30), <1>1 DEF Break, TypeOK
<1>12. IInv'
  BY Zenon, <1>6, <1>7, <1>9, <1>10, <1>11, AloneKeeps
<1> QED BY Zenon, <1>11, <1>12 DEF SoundStep

\* A session that is broken, or that nobody uses, is closed.
LEMMA CloseAloneKeeps ==
  ASSUME IInv, NEW i \in Ids, Notice(i) \/ IdleTimeout(i)
  PROVE  IInv' /\ SoundStep
<1>1. TypeOK /\ cache \in CacheType /\ CacheOK(cache) /\ Found(cache, Storing) /\ faults \in Nat
  BY Zenon DEF IInv, TypeOK
<1>2. cache' = Closed(cache, i) /\ UNCHANGED <<conf, call, faults>>
  BY Zenon DEF Notice, IdleTimeout
<1>3. Drop(cache, cache')
  BY Zenon, <1>1, <1>2, CloseDrops
<1>4. /\ CacheOK(cache') /\ Found(cache', Storing)
      /\ \A k \in Keys : cache'.entry[k].id \in {0, cache.entry[k].id}
  BY Zenon, <1>1, <1>3, DropKeeps
<1>5. \A j \in Ids : /\ cache'.sess[j].mux = cache.sess[j].mux
                     /\ j # i => cache'.sess[j] = cache.sess[j]
  BY Zenon, <1>1, <1>2, ClosedIs
<1>6. IInv'
  BY Zenon, <1>1, <1>2, <1>4, <1>5, AloneKeeps
<1>7. ~(Life(cache, i) = "up" /\ InUse(i))
  BY Zenon DEF Notice, IdleTimeout, Known, InUse
<1>8. SoundStep
  BY Zenon, <1>5, <1>7 DEF SoundStep, Life
<1> QED BY Zenon, <1>6, <1>8

\* A ping of mws fails.
LEMMA KeepAliveKeeps ==
  ASSUME IInv, NEW i \in Ids, KeepAlive(i)
  PROVE  IInv' /\ SoundStep
<1> DEFINE d == Without(Closed(cache, i), HandshakeKey)
           r == [d.sess[i] EXCEPT !.alive = FALSE]
           s == [d.sess EXCEPT ![i] = r]
<1>1. TypeOK /\ cache \in CacheType /\ CacheOK(cache) /\ faults \in Nat /\ HandshakeKey \in Keys
  BY Zenon, IdsAre DEF IInv, TypeOK
<1>2. DeletesBlindly
  <2>1. conf.keepalive /\ conf \in Confs
    BY Zenon, <1>1 DEF CacheOK, KeepAlive, TypeOK
  <2> QED BY Zenon, <2>1, ConfsAssumption DEF DeletesBlindly
<1>3. Drop(cache, d)
  BY Zenon, <1>1, <1>2, EndDrops DEF Excused
<1>4. cache' = [d EXCEPT !.sess = s] /\ UNCHANGED <<conf, call, faults>>
  BY Zenon DEF KeepAlive
<1> HIDE DEF d
<1>5. CacheOK(d) /\ \A k \in Keys : d.entry[k].id \in {0, cache.entry[k].id}
  BY Zenon, <1>1, <1>3, DropKeeps
<1>6. d \in CacheType /\ d.sess[i] \in Sessions
  BY Zenon, <1>5 DEF CacheOK, CacheType
<1>7. r \in Sessions /\ r.mux = d.sess[i].mux /\ ~r.alive
  BY Zenon, <1>6 DEF Sessions
<1> HIDE DEF r
<1>8. s \in [Ids -> Sessions] /\ s[i] = r /\ \A j \in Ids : j # i => s[j] = d.sess[j]
  BY Zenon, <1>6, <1>7 DEF CacheType
<1> HIDE DEF s
<1>9. cache' \in CacheType /\ cache'.entry = d.entry /\ cache'.sess = s
  BY Zenon, <1>4, <1>6, <1>8 DEF CacheType
<1>10. \A j \in Ids : /\ cache'.sess[j].mux = cache.sess[j].mux /\ cache'.sess[j].mux = d.sess[j].mux
                      /\ cache'.sess[j].alive => d.sess[j].alive
  BY Zenon, <1>3, <1>7, <1>8, <1>9 DEF Drop
<1>11. \A k \in Keys : d.entry[k].mux => d.entry[k].id \in Ids
  BY Zenon, <1>6, IdsAre DEF CacheType, Entries
<1>12. CacheOK(cache')
  BY Zenon, <1>5, <1>9, <1>10, <1>11 DEF CacheOK
<1>13. Found(cache', Storing)
  BY Zenon, <1>2 DEF Found, Excused
<1>14. IInv'
  BY Zenon, <1>1, <1>4, <1>5, <1>9, <1>10, <1>12, <1>13, AloneKeeps
<1> QED BY Zenon, <1>2, <1>14 DEF SoundStep

-----------------------------------------------------------------------------
(* The theorems.                                                           *)

\* It holds of an empty cache.
LEMMA InitIInv == Init => IInv
<1> SUFFICES ASSUME Init PROVE IInv
  BY Zenon
<1>1. /\ conf \in Confs /\ faults = MaxFaults
      /\ cache = [entry |-> [k \in Keys |-> None],
                  sess |-> [i \in Ids |-> [life |-> "none", mux |-> FALSE, alive |-> FALSE]]]
      /\ call = [c \in Calls |-> [at |-> "idle", id |-> 0]]
  BY Zenon DEF Init, DialersInit, Keys
<1>2. cache \in CacheType /\ \A i \in Ids : ~cache.sess[i].mux /\ ~cache.sess[i].alive
  BY Zenon, <1>1, IdsAre DEF CacheType, Sessions
<1>3. \A k \in Keys : cache.entry[k] = None
  BY Zenon, <1>1
<1>4. \A c \in Calls : call[c].at = "idle" /\ call[c].id = 0
  BY Zenon, <1>1
<1>5. TypeOK
  <2>1. call \in [Calls -> [at : Stages, id : 0..MaxIds]]
    BY <1>1, BoundsAssumption DEF Stages
  <2> QED BY Zenon, <1>1, <1>2, <1>4, <2>1, BoundsAssumption DEF TypeOK
<1>6. CacheOK(cache)
  BY Zenon, <1>2, <1>3, IdsAre DEF CacheOK
<1>7. Found(cache, Storing)
  BY Zenon, <1>2 DEF Found
<1>8. Apart /\ Streams
  BY Zenon, <1>4 DEF Apart, Streams, Streaming
<1> QED BY Zenon, <1>5, <1>6, <1>7, <1>8 DEF IInv

\* Every step keeps it, and closes no sound session in use without a fault.
LEMMA NextKeeps ==
  ASSUME IInv, Next
  PROVE  IInv' /\ SoundStep
<1>1. conf.calls \subseteq Calls
  BY Zenon, ConfsAssumption DEF IInv, TypeOK
<1>2. ASSUME NEW c \in Calls, Step(c)
      PROVE  IInv' /\ SoundStep
  BY Zenon, <1>2, DialSessionKeeps, DialClientKeeps, StoreClientKeeps, OpenStreamKeeps, HandshakeKeeps,
     ConnectKeeps, ConnectFailsKeep DEF Step
<1>3. ASSUME NEW i \in Ids, Break(i) \/ Notice(i) \/ KeepAlive(i) \/ IdleTimeout(i)
      PROVE  IInv' /\ SoundStep
  BY Zenon, <1>3, BreakKeeps, CloseAloneKeeps, KeepAliveKeeps
<1> QED BY Zenon, <1>1, <1>2, <1>3 DEF Next

\* Nor does a step that changes nothing.
LEMMA StutterKeeps == IInv /\ UNCHANGED vars => IInv'
<1> SUFFICES ASSUME IInv, UNCHANGED vars PROVE IInv'
  BY Zenon
<1>1. conf' = conf /\ cache' = cache /\ call' = call /\ faults' = faults
  BY Zenon DEF vars
<1>2. /\ faults' \in Nat /\ CacheOK(cache') /\ Found(cache', Storing)
  BY Zenon, <1>1 DEF IInv, TypeOK
<1> QED BY Zenon, <1>1, <1>2, AloneKeeps

\* The invariant implies that no session is leaked.
LEMMA IInvFound == IInv => NoOrphans
<1> SUFFICES ASSUME IInv, NEW i \in Ids, cache.sess[i].mux, Life(cache, i) = "up", ~Excused
             PROVE  Known(i)
  BY Zenon DEF NoOrphans, Excused
<1>1. DOMAIN cache.entry = Keys /\ SessionKey \in Keys
  BY Zenon, IdsAre DEF IInv, TypeOK, CacheType
<1>2. cache.entry[SessionKey] = [id |-> i, mux |-> TRUE] \/ i \in Storing
  BY Zenon DEF IInv, Found
<1> QED BY <1>1, <1>2 DEF Known, Storing

\* Of the calls that overlap: the map names only sessions that were made; a
\* session that is up is the one of the map or is about to be stored by the
\* one call that has it; a stream is one of a session that was made.
THEOREM DialersInvariant == Spec => []IInv
<1>1. IInv /\ [Next]_vars => IInv'
  BY Zenon, NextKeeps, StutterKeeps
<1> QED BY InitIInv, <1>1, PTL DEF Spec

\* No sequence of overlapping dials, handshakes, failures and evictions leaks
\* a session: one that is up is in the dialer's map or is held by a call.
THEOREM NothingIsOrphaned == Spec => []NoOrphans
BY DialersInvariant, IInvFound, PTL

\* An eviction, a lost race to store, a refused Handshake or a late report
\* closes no sound session that carries streams, unless something failed.
THEOREM SoundSessionsStay == Spec => SoundSessionsSurvive
<1> DEFINE A == \A i \in Ids : Life(cache, i) = "up" /\ InUse(i) /\ Life(cache', i) = "closed"
                    => faults' < faults \/ DeletesBlindly
<1>1. IInv /\ [Next]_vars => [A]_vars
  BY Zenon, NextKeeps DEF SoundStep
<1>2. Spec => [][Next]_vars
  BY Zenon DEF Spec
<1>3. Spec => [][A]_vars
  BY <1>1, <1>2, DialersInvariant, PTL
<1> QED BY Zenon, <1>3 DEF SoundSessionsSurvive

-----------------------------------------------------------------------------
(* The plain HTTP tunnel: the inductive invariant.                         *)

PipeType == [c1 : {"new", "queued", "open", "closed"}, c2 : {"open", "closed"},
             down : Nat, late : BOOLEAN]
ReqSteps == {"none", "load", "make", "queue", "go", "close", "delete", "ok", "failed"}
Texts == {<<>>} \cup {<<l>> : l \in Nat \X Nat}
ClientType == [wrote : Nat, write : {"idle", "busy", "failed"}, closed : BOOLEAN,
               cancelled : BOOLEAN, loop : {"top", "busy", "over"}, any : BOOLEAN,
               got : Nat \X Nat]

\* The token's pipe is the one that was made last.
PlainTyped ==
    /\ pipes \in Seq(PipeType)
    /\ owner \in {NoPipe, Len(pipes)}
    /\ reqs \in [HTTPRequests -> [at : ReqSteps, pipe : Nat]]
    /\ resp \in [lines : Texts, end : {"open", "eof", "cut"}]
    /\ pc \in ClientType

\* A request at work has a pipe; one that has yet to queue its pipe is the only
\* one to do so; a notification deletes the token after it closed the pipe.
Working == {"queue", "go", "close", "delete"}
PipesInUse ==
    /\ \A x \in HTTPRequests : reqs[x].at \in Working => reqs[x].pipe \in 1..Len(pipes)
    /\ \A x \in HTTPRequests : reqs[x].at = "queue" => pipes[reqs[x].pipe].c1 = "new"
    /\ \A x, y \in HTTPRequests : reqs[x].at = "queue" /\ reqs[y].at = "queue" /\ x # y
                                    => reqs[x].pipe # reqs[y].pipe
    /\ \A x \in HTTPRequests : reqs[x].at = "delete" => pipes[reqs[x].pipe].c2 = "closed"

\* The client sends a request when the one before is over.
InTurn ==
    /\ pc.write = "idle" => reqs["push"].at \in {"none", "ok", "failed"}
    /\ ~pc.closed => reqs["bye"].at = "none"
    /\ pc.loop = "top" => reqs["pull"].at = "none" /\ resp.lines = <<>> /\ resp.end # "cut"
    /\ resp.end = "eof" => reqs["pull"].at = "none"
    /\ resp.end = "cut" => resp.lines = <<>>

\* A token without a pipe has not had one yet, or lost it to a request that ended.
Replaced == Len(pipes) > 1 \/ (owner = NoPipe /\ Len(pipes) > 0) => Ended

\* What the client got last, or is about to get.
Line == IF resp.lines # <<>> /\ Head(resp.lines) # Beat THEN Head(resp.lines) ELSE pc.got

\* While the client pulls: it is all that the connection it is from has written,
\* later ones have written nothing, and the pull is for this one or a later one.
Tracked ==
    ~Gone =>
      /\ Line[1] <= Len(pipes)
      /\ IF Line[1] = 0 THEN Line[2] = 0 ELSE pipes[Line[1]].down = Line[2]
      /\ \A k \in 1..Len(pipes) : k > Line[1] => pipes[k].down = 0
      /\ reqs["pull"].at \in {"queue", "go"} => reqs["pull"].pipe >= Line[1]
      /\ Line = pc.got \/ Follows(Line, pc.got)

PlainInv == PlainTyped /\ PipesInUse /\ InTurn /\ Replaced /\ Tracked

-----------------------------------------------------------------------------
(* What the operators do.                                                  *)

\* Changing one pipe.
LEMMA PipeChanged ==
    ASSUME NEW s \in Seq(PipeType), NEW k \in 1..Len(s), NEW p \in PipeType,
           NEW t, t = [s EXCEPT ![k] = p]
    PROVE  /\ t \in Seq(PipeType) /\ Len(t) = Len(s)
           /\ t[k] = p /\ \A j \in 1..Len(s) : j # k => t[j] = s[j]
BY ExceptSeq

\* Adding one.
LEMMA PipeAdded ==
    ASSUME NEW s \in Seq(PipeType), NEW p \in PipeType, NEW t, t = Append(s, p)
    PROVE  /\ t \in Seq(PipeType) /\ Len(t) = Len(s) + 1
           /\ t[Len(s) + 1] = p /\ \A j \in 1..Len(s) : t[j] = s[j]
BY AppendProperties

\* What comes for Read.
LEMMA TextsAre ==
    ASSUME NEW r \in Texts
    PROVE  /\ r # <<>> => Head(r) \in Nat \X Nat /\ Tail(r) = <<>> /\ Tail(r) \in Texts
           /\ <<>> \in Texts
<1>1. ASSUME r # <<>> PROVE \E l \in Nat \X Nat : r = <<l>>
  BY Zenon, <1>1 DEF Texts
<1>2. ASSUME NEW l \in Nat \X Nat PROVE Head(<<l>>) = l /\ Tail(<<l>>) = <<>>
  OBVIOUS
<1>3. <<>> \in Texts
  BY Zenon DEF Texts
<1> QED BY Zenon, <1>1, <1>2, <1>3

\* The line is a pair of numbers.
LEMMA LineIsPair == ASSUME PlainTyped PROVE Line \in Nat \X Nat
BY Zenon, TextsAre DEF PlainTyped, Line, ClientType

\* The invariant holds initially.
LEMMA PlainStarts == TunnelInit(TunnelUses) => PlainInv
BY DEF TunnelInit, TunnelStart, PlainInv, PlainTyped, PipesInUse, InTurn, Replaced, Tracked,
       Connected, NoReq, NoResp, NoPipe, Beat, Line, Gone, Texts, ClientType, ReqSteps,
       HTTPRequests, Working, Follows
-----------------------------------------------------------------------------
(* The client.                                                             *)

\* Nothing is undone: pipes stay as they are, and a request that is about to
\* close its pipe still is.
LEMMA SamePipes ==
    ASSUME PlainInv, pipes' = pipes, owner' = owner,
           \A x \in HTTPRequests : reqs[x].at = "close" => reqs'[x].at = "close"
    PROVE  Replaced'
BY Zenon DEF PlainInv, Replaced, Ended

\* A request that is sent.
LEMMA SendIs ==
    ASSUME PlainTyped, NEW x \in HTTPRequests, Send(x)
    PROVE  /\ reqs' \in [HTTPRequests -> [at : ReqSteps, pipe : Nat]]
           /\ reqs'[x].at = "load"
           /\ \A y \in HTTPRequests : y # x => reqs'[y] = reqs[y]
BY Zenon DEF PlainTyped, Send, NoReq, NoPipe, ReqSteps

\* The client's own steps.
LEMMA ClientKeeps ==
    ASSUME PlainInv, ClientWrite \/ ClientWrote \/ ClientClose \/ ClientCancels
    PROVE  PlainInv'
<1> USE DEF PlainInv
<1> DEFINE ReqsKept == /\ reqs'["pull"] = reqs["pull"]
                       /\ reqs' \in [HTTPRequests -> [at : ReqSteps, pipe : Nat]]
                       /\ \A x \in HTTPRequests : reqs'[x] = reqs[x] \/ reqs'[x].at = "load"
<1>a. /\ pc' \in ClientType /\ pc'.loop = pc.loop /\ pc'.got = pc.got
      /\ (pc.cancelled => pc'.cancelled) /\ (pc.closed => pc'.closed)
  <2>1. pc \in ClientType
    BY Zenon DEF PlainTyped
  <2>2. CASE ClientWrite
    <3>1. pc' = [pc EXCEPT !.write = "busy"]
      BY Zenon, <2>2 DEF ClientWrite
    <3> QED BY Zenon, <2>1, <3>1 DEF ClientType
  <2>3. CASE ClientWrote
    <3>1. \/ pc' = [pc EXCEPT !.write = "idle", !.wrote = pc.wrote + 1]
          \/ pc' = [pc EXCEPT !.write = "failed"]
      BY Zenon, <2>3 DEF ClientWrote
    <3>2. pc.wrote + 1 \in Nat
      BY <2>1 DEF ClientType
    <3>3. \A w \in Nat : [pc EXCEPT !.write = "idle", !.wrote = w] \in ClientType
      BY Zenon, <2>1 DEF ClientType
    <3>4. [pc EXCEPT !.write = "failed"] \in ClientType
      BY Zenon, <2>1 DEF ClientType
    <3>5. pc' \in ClientType
      BY Zenon, <3>1, <3>2, <3>3, <3>4
    <3> QED BY Zenon, <2>1, <3>1, <3>5 DEF ClientType
  <2>4. CASE ClientClose
    BY Zenon, <2>1, <2>4 DEF ClientClose, ClientType
  <2>5. CASE ClientCancels
    BY Zenon, <2>1, <2>5 DEF ClientCancels, ClientType
  <2> QED BY Zenon, <2>2, <2>3, <2>4, <2>5
<1>b. ASSUME ClientWrite PROVE ReqsKept
  <2>1. Send("push") /\ "push" \in HTTPRequests
    BY Zenon, <1>b DEF ClientWrite, HTTPRequests
  <2> QED BY Zenon, <2>1, SendIs DEF HTTPRequests
<1>c. ASSUME ClientClose PROVE ReqsKept
  <2>1. Send("bye") /\ "bye" \in HTTPRequests
    BY Zenon, <1>c DEF ClientClose, HTTPRequests
  <2> QED BY Zenon, <2>1, SendIs DEF HTTPRequests
<1>d. ASSUME ClientWrote \/ ClientCancels PROVE ReqsKept
  BY Zenon, <1>d DEF ClientWrote, ClientCancels, PlainTyped
<1>e. ReqsKept
  BY Zenon, <1>b, <1>c, <1>d
<1>f. pipes' = pipes /\ owner' = owner /\ resp' = resp
  BY Zenon DEF ClientWrite, ClientWrote, ClientClose, ClientCancels
<1>1. /\ pipes' = pipes /\ owner' = owner /\ resp' = resp
      /\ pc'.loop = pc.loop /\ pc'.got = pc.got /\ (pc.cancelled => pc'.cancelled)
      /\ (pc.closed => pc'.closed)
      /\ pc' \in ClientType
      /\ reqs'["pull"] = reqs["pull"]
      /\ reqs' \in [HTTPRequests -> [at : ReqSteps, pipe : Nat]]
      /\ \A x \in HTTPRequests : reqs'[x] = reqs[x] \/ reqs'[x].at = "load"
  BY Zenon, <1>a, <1>e, <1>f
<1>2. \A x \in HTTPRequests : reqs[x].at = "close" => reqs'[x].at = "close"
  BY Zenon DEF ClientWrite, ClientWrote, ClientClose, ClientCancels, Send, InTurn, HTTPRequests, PlainTyped
<1>3. PlainTyped'
  BY Zenon, <1>1 DEF PlainTyped
<1>4. PipesInUse'
  BY <1>1 DEF PipesInUse, Working
<1>5. InTurn'
  BY <1>1 DEF InTurn, ClientWrite, ClientWrote, ClientClose, ClientCancels, Send, HTTPRequests,
     PlainTyped, ClientType, NoReq
<1>6. Tracked'
  BY Zenon, <1>1 DEF Tracked, Line, Gone
<1> QED BY Zenon, <1>1, <1>2, <1>3, <1>4, <1>5, <1>6, SamePipes

\* The read loop asks again.
LEMMA PullKeeps == ASSUME PlainInv, Pull PROVE PlainInv'
<1> USE DEF PlainInv
<1>a. /\ pc' \in ClientType /\ pc'.write = pc.write /\ pc'.closed = pc.closed
      /\ pc'.got = pc.got /\ pc'.cancelled = pc.cancelled
      /\ pc'.loop \in {"busy", "over"}
  BY ZenonT(30) DEF PlainTyped, Pull, ClientType
<1>b. /\ resp.lines = <<>> /\ resp.end # "cut" /\ reqs["pull"].at = "none" /\ pc.loop = "top"
      /\ pipes' = pipes /\ owner' = owner
  BY Zenon DEF Pull, InTurn
<1>2. \/ pc'.loop = "over" /\ reqs' = reqs /\ resp' = resp
      \/ Send("pull") /\ reqs'["pull"].at = "load" /\ resp' = NoResp /\ pc'.loop = "busy"
  BY Zenon, SendIs DEF Pull, PlainTyped, ClientType, HTTPRequests
<1>c. /\ reqs' \in [HTTPRequests -> [at : ReqSteps, pipe : Nat]]
      /\ reqs'["bye"] = reqs["bye"] /\ reqs'["push"] = reqs["push"]
  BY Zenon, <1>2, SendIs DEF PlainTyped, HTTPRequests
<1>1. /\ pipes' = pipes /\ owner' = owner
      /\ pc' \in ClientType /\ pc'.write = pc.write /\ pc'.closed = pc.closed
      /\ pc'.got = pc.got /\ pc'.cancelled = pc.cancelled
      /\ pc'.loop \in {"busy", "over"}
      /\ reqs' \in [HTTPRequests -> [at : ReqSteps, pipe : Nat]]
      /\ resp.lines = <<>> /\ resp.end # "cut" /\ reqs["pull"].at = "none" /\ pc.loop = "top"
      /\ reqs'["bye"] = reqs["bye"] /\ reqs'["push"] = reqs["push"]
  BY Zenon, <1>a, <1>b, <1>c
<1>3. PlainTyped'
  BY <1>1, <1>2, TextsAre DEF PlainTyped, NoResp, Texts
<1>4. PipesInUse'
  BY <1>1, <1>2 DEF PipesInUse, Working, HTTPRequests
<1>5. InTurn'
  BY <1>1, <1>2 DEF InTurn, NoResp
<1>6. Tracked'
  BY <1>1, <1>2 DEF Tracked, Line, Gone, NoResp
<1>7. Replaced'
  BY Zenon, <1>1, <1>2, SamePipes DEF HTTPRequests
<1> QED BY Zenon, <1>3, <1>4, <1>5, <1>6, <1>7

\* The read loop is given a line.
LEMMA ScanKeeps == ASSUME PlainInv, Scan PROVE PlainInv' /\ (pc'.got # pc.got => Follows(pc'.got, pc.got))
<1> USE DEF PlainInv
<1>1. /\ pipes' = pipes /\ owner' = owner /\ reqs' = reqs
      /\ resp.lines # <<>> /\ resp' \in [lines : Texts, end : {"open", "eof", "cut"}]
      /\ resp'.lines = <<>> /\ resp'.end = resp.end
      /\ Head(resp.lines) \in Nat \X Nat
  BY Zenon, TextsAre DEF Scan, PlainTyped
<1>2. /\ pc' \in ClientType /\ pc'.write = pc.write /\ pc'.closed = pc.closed
      /\ pc'.cancelled = pc.cancelled /\ pc'.loop \in {"busy", "over"}
      /\ pc'.got \in {pc.got, Line}
      /\ pc'.loop # "over" => pc'.got = Line
  BY ZenonT(30), <1>1 DEF Scan, PlainTyped, ClientType, Line
<1>3. ~Gone
  BY Zenon, <1>1 DEF Scan, Gone, InTurn
<1>4. PlainTyped'
  BY Zenon, <1>1, <1>2 DEF PlainTyped
<1>5. PipesInUse'
  BY Zenon, <1>1 DEF PipesInUse
<1>6. InTurn'
  BY Zenon, <1>1, <1>2 DEF InTurn
<1>7. pc'.loop # "over" => Line' = Line
  BY Zenon, <1>1, <1>2 DEF Line
<1>8. Tracked'
  BY Zenon, <1>1, <1>2, <1>3, <1>7 DEF Tracked, Gone
<1>9. Replaced'
  BY Zenon, <1>1, SamePipes
<1>10. pc'.got # pc.got => Follows(pc'.got, pc.got)
  BY Zenon, <1>2, <1>3 DEF Tracked
<1> QED BY Zenon, <1>4, <1>5, <1>6, <1>8, <1>9, <1>10

\* The response ends.
LEMMA PulledKeeps == ASSUME PlainInv, Pulled PROVE PlainInv'
<1> USE DEF PlainInv
<1>1. /\ pc' \in ClientType /\ pc'.write = pc.write /\ pc'.closed = pc.closed
      /\ pc'.got = pc.got /\ pc'.cancelled = pc.cancelled
      /\ pc'.loop \in {"top", "over"}
      /\ pc'.loop = "top" => resp.lines = <<>> /\ resp.end = "eof"
  BY Zenon DEF PlainTyped, Pulled, ClientType
<1>2. UNCHANGED <<pipes, owner, reqs, resp>>
  BY Zenon DEF Pulled
<1>3. PlainTyped'
  BY Zenon, <1>1, <1>2 DEF PlainTyped
<1>4. PipesInUse'
  BY Zenon, <1>2 DEF PipesInUse
<1>5. InTurn'
  BY Zenon, <1>1, <1>2 DEF InTurn
<1>6. Tracked'
  BY Zenon, <1>1, <1>2 DEF Tracked, Line, Gone, Pulled
<1> QED BY Zenon, <1>2, <1>3, <1>4, <1>5, <1>6, SamePipes

-----------------------------------------------------------------------------
(* The server.                                                             *)

ReqType == [at : ReqSteps, pipe : Nat]

\* A request that changes.
LEMMA ReqChanged ==
    ASSUME PlainTyped, NEW x \in HTTPRequests, NEW q \in ReqType, reqs' = [reqs EXCEPT ![x] = q]
    PROVE  /\ reqs' \in [HTTPRequests -> ReqType]
           /\ reqs'[x] = q /\ \A y \in HTTPRequests : y # x => reqs'[y] = reqs[y]
BY Zenon DEF PlainTyped, ReqType

\* A request under way goes on: without a pipe, or with that of the token.
LEMMA RequestMoves ==
    ASSUME PlainInv, UNCHANGED <<pipes, owner, resp, pc>>,
           NEW x \in HTTPRequests, NEW q \in ReqType, reqs' = [reqs EXCEPT ![x] = q],
           reqs[x].at \notin {"none", "close"},
           q.at \in {"make", "ok", "failed"} \/ (q.at = "go" /\ q.pipe = owner /\ owner # NoPipe),
           reqs[x].at \in {"ok", "failed"} => q.at = "failed"
    PROVE  PlainInv'
<1> USE DEF PlainInv
<1>1. /\ reqs' \in [HTTPRequests -> ReqType]
      /\ reqs'[x] = q /\ \A y \in HTTPRequests : y # x => reqs'[y] = reqs[y]
  BY Zenon, ReqChanged
<1>2. Len(pipes) \in Nat /\ (q.at = "go" => q.pipe = Len(pipes) /\ Len(pipes) > 0)
  BY DEF PlainTyped, NoPipe
<1>3. PlainTyped'
  BY Zenon, <1>1 DEF PlainTyped, ReqType
<1>4. PipesInUse'
  BY <1>1, <1>2 DEF PipesInUse, Working
<1>5. InTurn'
  BY Zenon, <1>1 DEF InTurn, HTTPRequests
<1>6. Tracked'
  <2>1. Line' = Line /\ Gone' = Gone
    BY Zenon DEF Line, Gone
  <2> QED BY Zenon, <1>1, <1>2, <2>1 DEF Tracked, HTTPRequests
<1>7. Replaced'
  BY Zenon, <1>1, SamePipes
<1> QED BY Zenon, <1>3, <1>4, <1>5, <1>6, <1>7

\* A request looks for the token's pipe, is lost, or has been served.
LEMMA LoadKeeps ==
    ASSUME PlainInv, NEW x \in HTTPRequests, LoadConn(x) \/ Vanishes(x)
    PROVE  PlainInv'
<1>1. PlainTyped
  BY Zenon DEF PlainInv
<1>2. UNCHANGED <<pipes, owner, resp, pc>>
  BY Zenon DEF LoadConn, Vanishes
<1>3. CASE LoadConn(x)
  <2> DEFINE q == IF owner = NoPipe THEN [reqs[x] EXCEPT !.at = "make"]
                  ELSE [at |-> "go", pipe |-> owner]
  <2>1. q \in ReqType /\ reqs[x].at = "load" /\ reqs' = [reqs EXCEPT ![x] = q]
        /\ (q.at = "make" \/ (q.at = "go" /\ q.pipe = owner /\ owner # NoPipe))
    BY <1>1, <1>3 DEF LoadConn, PlainTyped, ReqType, ReqSteps, NoPipe
  <2> QED BY Zenon, <1>2, <2>1, RequestMoves
<1>4. CASE Vanishes(x)
  <2> DEFINE q == [NoReq EXCEPT !.at = "failed"]
  <2>1. q \in ReqType /\ reqs[x].at \in {"load", "ok"} /\ reqs' = [reqs EXCEPT ![x] = q]
        /\ q.at = "failed"
    BY Zenon, <1>1, <1>4 DEF Vanishes, PlainTyped, ReqType, ReqSteps, NoPipe, NoReq
  <2> QED BY Zenon, <1>2, <2>1, RequestMoves
<1> QED BY Zenon, <1>3, <1>4

\* A write is read by the server's connection.
LEMMA ReadsKeeps ==
    ASSUME PlainInv, NEW k \in DOMAIN pipes, ServerReads(k)
    PROVE  PlainInv'
<1> DEFINE q == [NoReq EXCEPT !.at = "ok"]
<1>1. q \in ReqType /\ q.at = "ok" /\ "push" \in HTTPRequests
  BY Zenon DEF ReqType, ReqSteps, NoPipe, NoReq, HTTPRequests
<1>2. reqs["push"].at = "go" /\ reqs' = [reqs EXCEPT !["push"] = q]
      /\ UNCHANGED <<pipes, owner, resp, pc>>
  BY DEF ServerReads
<1> QED BY Zenon, <1>1, <1>2, RequestMoves

\* The token gets a pipe.
LEMMA CreateKeeps == ASSUME PlainInv, NEW x \in HTTPRequests, CreatePipe(x) PROVE PlainInv'
<1>1. PlainTyped
  BY Zenon DEF PlainInv
<1>2. reqs[x].at = "make" /\ resp' = resp /\ pc' = pc
  BY Zenon DEF CreatePipe
<1>3. CASE owner # NoPipe
  <2> DEFINE q == [at |-> "go", pipe |-> owner]
  <2>1. q \in ReqType /\ reqs' = [reqs EXCEPT ![x] = q] /\ pipes' = pipes /\ owner' = owner
        /\ q.at = "go" /\ q.pipe = owner
    BY <1>1, <1>3 DEF CreatePipe, PlainTyped, ReqType, ReqSteps, NoPipe
  <2> QED BY Zenon, <1>2, <1>3, <2>1, RequestMoves
<1>4. CASE owner = NoPipe
  <2> USE DEF PlainInv
  <2> DEFINE n == Len(pipes) + 1
             q == [at |-> "queue", pipe |-> n]
             p == NewPipe(x)
  <2>1. /\ n \in Nat /\ n > Len(pipes) /\ Len(pipes) \in Nat
        /\ q \in ReqType /\ q.at = "queue" /\ q.pipe = n
        /\ reqs' = [reqs EXCEPT ![x] = q] /\ owner' = n /\ pipes' = Append(pipes, p)
    BY <1>1, <1>4 DEF CreatePipe, PlainTyped, ReqType, ReqSteps
  <2>2. p \in PipeType /\ p.c1 = "new" /\ p.down = 0
    BY Zenon, <1>1 DEF NewPipe, PipeType, PlainTyped, ClientType
  <2> HIDE DEF q, p
  <2>3. /\ reqs' \in [HTTPRequests -> ReqType]
        /\ reqs'[x] = q /\ \A y \in HTTPRequests : y # x => reqs'[y] = reqs[y]
    BY Zenon, <2>1, ReqChanged
  <2>4. /\ pipes' \in Seq(PipeType) /\ Len(pipes') = n
        /\ pipes'[n] = p /\ \A j \in 1..Len(pipes) : pipes'[j] = pipes[j]
    BY <1>1, <2>1, <2>2, PipeAdded DEF PlainTyped
  <2> HIDE DEF n
  <2>5. PlainTyped'
    BY Zenon, <1>1, <1>2, <2>1, <2>3, <2>4 DEF PlainTyped, ReqType
  <2>6. \A y \in HTTPRequests : y # x /\ reqs[y].at \in Working
          => reqs[y].pipe \in 1..Len(pipes) /\ reqs[y].pipe # n
             /\ pipes'[reqs[y].pipe] = pipes[reqs[y].pipe]
    BY <2>1, <2>4 DEF PipesInUse
  <2>7. PipesInUse'
    BY <2>1, <2>2, <2>3, <2>4, <2>6 DEF PipesInUse, Working
  <2>8. InTurn'
    BY Zenon, <1>2, <2>1, <2>3 DEF InTurn, HTTPRequests
  <2>9. Line' = Line /\ Gone' = Gone /\ Line \in Nat \X Nat
    BY Zenon, <1>1, <1>2, LineIsPair DEF Line, Gone
  <2>10. Tracked'
    BY <1>2, <2>1, <2>2, <2>3, <2>4, <2>9 DEF Tracked, HTTPRequests
  <2>11. Replaced'
    <3>1. CASE Len(pipes) = 0
      BY <2>1, <2>4, <3>1 DEF Replaced, NoPipe
    <3>2. CASE Len(pipes) # 0
      <4>1. Ended
        BY <1>4, <2>1, <3>2 DEF Replaced
      <4>2. DOMAIN pipes = 1..Len(pipes) /\ DOMAIN pipes' = 1..n
        BY <1>1, <2>4 DEF PlainTyped
      <4>3. Ended'
        BY <1>2, <2>1, <2>3, <2>4, <4>1, <4>2 DEF Ended
      <4> QED BY Zenon, <4>3 DEF Replaced
    <3> QED BY Zenon, <3>1, <3>2
  <2> QED BY Zenon, <2>5, <2>7, <2>8, <2>10, <2>11
<1> QED BY Zenon, <1>3, <1>4

\* The pipe is queued, or undone.
LEMMA EnqueueKeeps == ASSUME PlainInv, NEW x \in HTTPRequests, Enqueue(x) PROVE PlainInv'
<1> USE DEF PlainInv
<1> DEFINE k == reqs[x].pipe
           ok == Cardinality(Queued) < pu.backlog /\ k <= pu.pipes
           q == IF ok THEN [reqs[x] EXCEPT !.at = "go"] ELSE [NoReq EXCEPT !.at = "failed"]
           p == IF ok THEN [pipes[k] EXCEPT !.c1 = "queued"]
                ELSE [pipes[k] EXCEPT !.c1 = "closed", !.c2 = "closed"]
<1>1. PlainTyped /\ reqs[x].at = "queue" /\ resp' = resp /\ pc' = pc /\ k \in 1..Len(pipes)
      /\ pipes[k].c1 = "new" /\ pipes[k] \in PipeType /\ Len(pipes) \in Nat
  BY DEF Enqueue, PipesInUse, Working, PlainTyped
<1>2. /\ pipes' = [pipes EXCEPT ![k] = p] /\ reqs' = [reqs EXCEPT ![x] = q]
      /\ owner' = IF ok THEN owner ELSE NoPipe
  BY Zenon DEF Enqueue
<1>3. p \in PipeType /\ p.down = pipes[k].down
      /\ IF ok THEN p.c2 = pipes[k].c2 ELSE p.c2 = "closed"
  BY Zenon, <1>1 DEF PipeType
<1>4. q \in ReqType /\ IF ok THEN q.at = "go" /\ q.pipe = k ELSE q.at = "failed"
  BY Zenon, <1>1 DEF PlainTyped, ReqType, ReqSteps, NoReq, NoPipe
<1> HIDE DEF q, p, ok
<1>5. /\ reqs' \in [HTTPRequests -> ReqType]
      /\ reqs'[x] = q /\ \A y \in HTTPRequests : y # x => reqs'[y] = reqs[y]
  BY Zenon, <1>1, <1>2, <1>4, ReqChanged
<1>6. /\ pipes' \in Seq(PipeType) /\ Len(pipes') = Len(pipes)
      /\ pipes'[k] = p /\ \A j \in 1..Len(pipes) : j # k => pipes'[j] = pipes[j]
  BY <1>1, <1>2, <1>3, PipeChanged DEF PlainTyped
<1>7. PlainTyped'
  BY Zenon, <1>1, <1>2, <1>5, <1>6 DEF PlainTyped, ReqType
<1>8. \A y \in HTTPRequests : y # x /\ reqs[y].at = "queue" => reqs[y].pipe # k
  BY Zenon, <1>1 DEF PipesInUse
<1>9. \A y \in HTTPRequests : reqs[y].at = "delete" => pipes'[reqs[y].pipe].c2 = "closed"
  BY Zenon, <1>1, <1>3, <1>6 DEF PipesInUse, Working
<1> HIDE DEF k
<1>10. PipesInUse'
  <2>1. \A y \in HTTPRequests : reqs'[y].at \in Working => reqs'[y].pipe \in 1..Len(pipes')
    BY Zenon, <1>1, <1>4, <1>5, <1>6 DEF PipesInUse, Working
  <2>2. \A y \in HTTPRequests : reqs'[y].at \in {"queue", "delete"} => y # x /\ reqs'[y] = reqs[y]
    BY Zenon, <1>4, <1>5
  <2>3. \A y \in HTTPRequests : reqs'[y].at = "queue" => pipes'[reqs'[y].pipe].c1 = "new"
    BY <1>1, <1>6, <1>8, <2>2 DEF PipesInUse, Working
  <2> QED BY <1>9, <2>1, <2>2, <2>3 DEF PipesInUse
<1>11. InTurn'
  BY Zenon, <1>1, <1>4, <1>5 DEF InTurn, HTTPRequests
<1>12. Line' = Line /\ Gone' = Gone /\ Line \in Nat \X Nat
  BY Zenon, <1>1, LineIsPair DEF Line, Gone
<1>13. \A j \in 1..Len(pipes) : pipes'[j].down = pipes[j].down
  BY Zenon, <1>3, <1>6
<1>14. Tracked'
  BY <1>1, <1>4, <1>5, <1>6, <1>12, <1>13 DEF Tracked, HTTPRequests, k
<1>15. Replaced'
  <2>1. DOMAIN pipes = 1..Len(pipes) /\ DOMAIN pipes' = 1..Len(pipes)
    BY <1>1, <1>6 DEF PlainTyped
  <2>2. CASE ~ok
    BY Zenon, <1>1, <1>3, <1>6, <2>1, <2>2 DEF Replaced, Ended
  <2>3. ASSUME ok, Ended PROVE Ended'
    BY Zenon, <1>1, <1>3, <1>5, <1>6, <2>1, <2>3 DEF Ended
  <2> QED BY Zenon, <1>2, <1>6, <2>2, <2>3 DEF Replaced
<1> QED BY Zenon, <1>7, <1>10, <1>11, <1>14, <1>15

\* A request gives up its pipe: the token has none.  What was pulled for a
\* client that is gone is lost.
LEMMA LossKeeps ==
    ASSUME PlainInv, NEW x \in HTTPRequests, reqs[x].at = "go",
           reqs' = [reqs EXCEPT ![x].at = "close"], owner' = NoPipe,
           UNCHANGED <<resp, pc>>, pipes' \in Seq(PipeType), Len(pipes') = Len(pipes),
           \A j \in 1..Len(pipes) : pipes'[j].c1 = pipes[j].c1 /\ pipes'[j].c2 = pipes[j].c2,
           pipes' = pipes \/ Gone
    PROVE  PlainInv'
<1> USE DEF PlainInv
<1> DEFINE q == [reqs[x] EXCEPT !.at = "close"]
<1>1. q \in ReqType /\ q.at = "close" /\ q.pipe = reqs[x].pipe /\ reqs' = [reqs EXCEPT ![x] = q]
  BY Zenon DEF PlainTyped, ReqType, ReqSteps
<1> HIDE DEF q
<1>2. /\ reqs' \in [HTTPRequests -> ReqType]
      /\ reqs'[x] = q /\ \A y \in HTTPRequests : y # x => reqs'[y] = reqs[y]
  BY Zenon, <1>1, ReqChanged
<1>3. PlainTyped'
  BY Zenon, <1>2 DEF PlainTyped, ReqType
<1>4. PipesInUse'
  BY <1>1, <1>2 DEF PipesInUse, Working
<1>5. InTurn'
  BY Zenon, <1>1, <1>2 DEF InTurn, HTTPRequests
<1>6. Line' = Line /\ Gone' = Gone
  BY Zenon DEF Line, Gone
<1>7. Tracked'
  BY Zenon, <1>1, <1>2, <1>6 DEF Tracked, HTTPRequests
<1>8. Replaced'
  BY Zenon, <1>1, <1>2 DEF Replaced, Ended
<1> QED BY Zenon, <1>3, <1>4, <1>5, <1>7, <1>8

\* A pipe changes, and is not opened again; the data pulled from it is all the
\* same.
LEMMA PipeMoves ==
    ASSUME PlainInv, NEW k \in 1..Len(pipes), NEW p \in PipeType, pipes' = [pipes EXCEPT ![k] = p],
           p.down = pipes[k].down, pipes[k].c2 = "closed" => p.c2 = "closed",
           pipes[k].c1 = "closed" => p.c1 = "closed", pipes[k].c1 = "new" => p.c1 = "new",
           UNCHANGED <<owner, reqs, resp, pc>>
    PROVE  PlainInv'
<1> USE DEF PlainInv
<1>1. /\ pipes' \in Seq(PipeType) /\ Len(pipes') = Len(pipes)
      /\ pipes'[k] = p /\ \A j \in 1..Len(pipes) : j # k => pipes'[j] = pipes[j]
  BY PipeChanged DEF PlainTyped
<1>2. \A j \in 1..Len(pipes) : /\ pipes'[j].down = pipes[j].down
                               /\ pipes[j].c2 = "closed" => pipes'[j].c2 = "closed"
                               /\ pipes[j].c1 = "closed" => pipes'[j].c1 = "closed"
                               /\ pipes[j].c1 = "new" => pipes'[j].c1 = "new"
  BY Zenon, <1>1
<1>3. PlainTyped'
  BY Zenon, <1>1 DEF PlainTyped
<1>4. PipesInUse'
  BY <1>1, <1>2 DEF PipesInUse, Working
<1>5. InTurn'
  BY Zenon DEF InTurn
<1>6. Line' = Line /\ Gone' = Gone /\ Line \in Nat \X Nat /\ Len(pipes) \in Nat
  BY LineIsPair DEF Line, Gone, PlainTyped
<1>7. Tracked'
  BY <1>1, <1>2, <1>6 DEF Tracked
<1>8. DOMAIN pipes = 1..Len(pipes) /\ DOMAIN pipes' = 1..Len(pipes)
  BY <1>1 DEF PlainTyped
<1>9. Replaced'
  BY Zenon, <1>1, <1>2, <1>8 DEF Replaced, Ended
<1> QED BY Zenon, <1>3, <1>4, <1>5, <1>7, <1>9

\* The server accepts a connection, or closes one.
LEMMA AcceptKeeps ==
    ASSUME PlainInv, NEW k \in DOMAIN pipes, AcceptPipe(k) \/ ServerCloses(k)
    PROVE  PlainInv'
<1>1. k \in 1..Len(pipes) /\ pipes[k] \in PipeType
  BY DEF PlainInv, PlainTyped
<1>2. UNCHANGED <<owner, reqs, resp, pc>>
  BY Zenon DEF AcceptPipe, ServerCloses
<1>3. CASE AcceptPipe(k)
  <2> DEFINE p == [pipes[k] EXCEPT !.c1 = "open"]
  <2>1. p \in PipeType /\ p.down = pipes[k].down /\ p.c2 = pipes[k].c2
        /\ pipes' = [pipes EXCEPT ![k] = p] /\ pipes[k].c1 = "queued"
    BY Zenon, <1>1, <1>3 DEF AcceptPipe, Queued, PipeType
  <2> QED BY Zenon, <1>1, <1>2, <2>1, PipeMoves
<1>4. CASE ServerCloses(k)
  <2> DEFINE p == [pipes[k] EXCEPT !.c1 = "closed"]
  <2>1. p \in PipeType /\ p.down = pipes[k].down /\ p.c2 = pipes[k].c2 /\ p.c1 = "closed"
        /\ pipes' = [pipes EXCEPT ![k] = p] /\ pipes[k].c1 = "open"
    BY Zenon, <1>1, <1>4 DEF ServerCloses, PipeType
  <2> QED BY Zenon, <1>1, <1>2, <2>1, PipeMoves
<1> QED BY Zenon, <1>3, <1>4

\* A request closes the end of its pipe, and is over or goes on to delete.
LEMMA CloseKeeps ==
    ASSUME PlainInv, NEW x \in HTTPRequests, reqs[x].at \in {"go", "close"}, CloseEnd(x),
           NEW q \in ReqType, reqs' = [reqs EXCEPT ![x] = q],
           q.at \in {"none", "failed"} \/ (q.at = "delete" /\ q.pipe = reqs[x].pipe),
           x = "push" => reqs[x].at = "close" /\ q.at = "failed",
           resp'.lines = resp.lines, resp' \in [lines : Texts, end : {"open", "eof", "cut"}],
           resp' = resp \/ (resp.end = "open" /\ resp'.end = "eof" /\ x = "pull" /\ q.at = "none"),
           UNCHANGED <<owner, pc>>
    PROVE  PlainInv'
<1> USE DEF PlainInv
<1> DEFINE k == reqs[x].pipe
           p == [pipes[k] EXCEPT !.c2 = "closed"]
<1>1. k \in 1..Len(pipes) /\ pipes[k] \in PipeType /\ Len(pipes) \in Nat
  BY DEF PipesInUse, Working, PlainTyped
<1>2. p \in PipeType /\ p.down = pipes[k].down /\ p.c1 = pipes[k].c1 /\ p.c2 = "closed"
      /\ pipes' = [pipes EXCEPT ![k] = p]
  BY Zenon, <1>1 DEF PipeType, CloseEnd
<1> HIDE DEF p
<1>3. /\ pipes' \in Seq(PipeType) /\ Len(pipes') = Len(pipes)
      /\ pipes'[k] = p /\ \A j \in 1..Len(pipes) : j # k => pipes'[j] = pipes[j]
  BY <1>1, <1>2, PipeChanged DEF PlainTyped
<1>4. \A j \in 1..Len(pipes) : /\ pipes'[j].down = pipes[j].down
                               /\ pipes'[j].c1 = pipes[j].c1
                               /\ pipes[j].c2 = "closed" => pipes'[j].c2 = "closed"
  BY Zenon, <1>2, <1>3
<1>5. /\ reqs' \in [HTTPRequests -> ReqType]
      /\ reqs'[x] = q /\ \A y \in HTTPRequests : y # x => reqs'[y] = reqs[y]
  BY Zenon, ReqChanged
<1>6. PlainTyped'
  BY Zenon, <1>3, <1>5 DEF PlainTyped, ReqType
<1>7. PipesInUse'
  <2>1. \A y \in HTTPRequests : reqs'[y].at \in Working => reqs'[y].pipe \in 1..Len(pipes')
    BY Zenon, <1>1, <1>3, <1>5 DEF PipesInUse, Working
  <2>2. \A y \in HTTPRequests : reqs'[y].at = "queue" => y # x /\ reqs'[y] = reqs[y]
    BY Zenon, <1>5
  <2>3. \A y \in HTTPRequests : reqs'[y].at = "delete" => pipes'[reqs'[y].pipe].c2 = "closed"
    BY Zenon, <1>1, <1>2, <1>3, <1>4, <1>5 DEF PipesInUse, Working
  <2>4. \A y \in HTTPRequests : reqs'[y].at = "queue" => pipes'[reqs'[y].pipe].c1 = "new"
    <3>1. \A y \in HTTPRequests : reqs[y].at = "queue" => reqs[y].pipe \in 1..Len(pipes)
                                                        /\ pipes[reqs[y].pipe].c1 = "new"
      BY Zenon DEF PipesInUse, Working
    <3> QED BY <1>4, <2>2, <3>1
  <2> QED BY <2>1, <2>2, <2>3, <2>4 DEF PipesInUse
<1>8. InTurn'
  BY Zenon, <1>5 DEF InTurn, HTTPRequests
<1>9. Line' = Line /\ (Gone => Gone') /\ (Gone' => Gone) /\ Line \in Nat \X Nat
  BY Zenon, LineIsPair DEF Line, Gone
<1>10. Tracked'
  <2>1. pc' = pc /\ Len(pipes') = Len(pipes)
        /\ (reqs'["pull"].at \in {"queue", "go"} => reqs'["pull"] = reqs["pull"])
    BY Zenon, <1>3, <1>5 DEF HTTPRequests
  <2>2. SUFFICES ASSUME ~Gone PROVE Tracked'
    BY Zenon, <1>9 DEF Tracked
  <2>3. Line[1] # 0 => pipes'[Line[1]].down = pipes[Line[1]].down
    BY <1>1, <1>4, <1>9, <2>2 DEF Tracked
  <2>4. \A j \in 1..Len(pipes) : j > Line[1] => pipes'[j].down = 0
    BY Zenon, <1>4, <2>2 DEF Tracked
  <2> QED BY Zenon, <1>9, <2>1, <2>2, <2>3, <2>4 DEF Tracked
<1>11. Replaced'
  <2>1. DOMAIN pipes' = 1..Len(pipes)
    BY <1>3
  <2> QED BY Zenon, <1>1, <1>2, <1>3, <2>1 DEF Replaced, Ended
<1> QED BY Zenon, <1>6, <1>7, <1>8, <1>10, <1>11

\* A push fails, and closes its end of the pipe.
LEMMA PushKeeps == ASSUME PlainInv, PushFails \/ PushCloses PROVE PlainInv'
<1>1. CASE PushFails
  BY Zenon, <1>1, LossKeeps DEF PushFails, HTTPRequests, PlainInv, PlainTyped
<1>2. CASE PushCloses
  <2> DEFINE q == [NoReq EXCEPT !.at = "failed"]
  <2>1. q \in ReqType /\ q.at = "failed"
    BY Zenon DEF ReqType, ReqSteps, NoReq, NoPipe
  <2>2. reqs' = [reqs EXCEPT !["push"] = q] /\ reqs["push"].at = "close" /\ CloseEnd("push")
        /\ UNCHANGED <<owner, resp, pc>>
    BY Zenon, <1>2 DEF PushCloses
  <2>3. resp' \in [lines : Texts, end : {"open", "eof", "cut"}] /\ resp'.lines = resp.lines
    BY Zenon, <2>2 DEF PlainInv, PlainTyped
  <2> QED BY Zenon, <2>1, <2>2, <2>3, CloseKeeps DEF HTTPRequests
<1> QED BY Zenon, <1>1, <1>2

\* The request of Close closes the pipe, and forgets it.
LEMMA ByeKeeps == ASSUME PlainInv, ByeCloses \/ ByeDeletes PROVE PlainInv'
<1>1. CASE ByeCloses
  <2> DEFINE q == [reqs["bye"] EXCEPT !.at = "delete"]
  <2>1. q \in ReqType /\ q.at = "delete" /\ q.pipe = reqs["bye"].pipe
    BY Zenon DEF ReqType, ReqSteps, PlainInv, PlainTyped, HTTPRequests
  <2>2. reqs' = [reqs EXCEPT !["bye"] = q] /\ reqs["bye"].at = "go" /\ CloseEnd("bye")
        /\ UNCHANGED <<owner, resp, pc>>
    BY Zenon, <1>1 DEF ByeCloses
  <2>3. resp' \in [lines : Texts, end : {"open", "eof", "cut"}] /\ resp'.lines = resp.lines
    BY Zenon, <2>2 DEF PlainInv, PlainTyped
  <2> HIDE DEF q
  <2> QED BY Zenon, <2>1, <2>2, <2>3, CloseKeeps DEF HTTPRequests
<1>2. CASE ByeDeletes
  <2> USE DEF PlainInv
  <2> DEFINE q == [NoReq EXCEPT !.at = "ok"]
  <2>1. q \in ReqType /\ q.at = "ok" /\ "bye" \in HTTPRequests
    BY Zenon DEF ReqType, ReqSteps, NoReq, NoPipe, HTTPRequests
  <2>2. reqs' = [reqs EXCEPT !["bye"] = q] /\ reqs["bye"].at = "delete" /\ owner' = NoPipe
        /\ UNCHANGED <<pipes, resp, pc>>
    BY Zenon, <1>2 DEF ByeDeletes
  <2>3. /\ reqs' \in [HTTPRequests -> ReqType]
        /\ reqs'["bye"] = q /\ \A y \in HTTPRequests : y # "bye" => reqs'[y] = reqs[y]
    BY Zenon, <2>1, <2>2, ReqChanged
  <2> HIDE DEF q
  <2>4. PlainTyped'
    BY Zenon, <2>2, <2>3 DEF PlainTyped, ReqType
  <2>5. PipesInUse'
    BY Zenon, <2>1, <2>2, <2>3 DEF PipesInUse, Working
  <2>6. InTurn'
    BY Zenon, <2>1, <2>2, <2>3 DEF InTurn, HTTPRequests
  <2>7. Tracked'
    BY Zenon, <2>1, <2>2, <2>3 DEF Tracked, HTTPRequests, Line, Gone
  <2>8. reqs["bye"].pipe \in DOMAIN pipes /\ pipes[reqs["bye"].pipe].c2 = "closed"
    BY <2>1, <2>2 DEF PipesInUse, Working, PlainTyped
  <2>9. Replaced'
    BY Zenon, <2>2, <2>8 DEF Replaced, Ended
  <2> QED BY Zenon, <2>4, <2>5, <2>6, <2>7, <2>9
<1> QED BY Zenon, <1>1, <1>2

\* A line is on its way: with what the connection has written, or without data.
LEMMA LineKeeps ==
    ASSUME PlainInv, ~Gone, reqs["pull"].at = "go", resp.lines = <<>>,
           UNCHANGED <<owner, reqs, pc>>,
           \/ pipes' = pipes /\ resp' = [resp EXCEPT !.lines = <<Beat>>]
           \/ LET k == reqs["pull"].pipe IN
              /\ pipes' = [pipes EXCEPT ![k].down = @ + 1]
              /\ resp' = [resp EXCEPT !.lines = <<<<k, pipes[k].down + 1>>>>]
    PROVE  PlainInv'
<1> USE DEF PlainInv
<1> DEFINE k == reqs["pull"].pipe
           n == pipes[k].down
           p == [pipes[k] EXCEPT !.down = n + 1]
           l == <<k, n + 1>>
<1>1. k \in 1..Len(pipes) /\ pipes[k] \in PipeType /\ Len(pipes) \in Nat /\ n \in Nat
  <2>1. k \in 1..Len(pipes)
    BY Zenon DEF PipesInUse, Working, HTTPRequests
  <2>2. pipes[k] \in PipeType /\ Len(pipes) \in Nat
    BY <2>1 DEF PlainTyped
  <2> QED BY Zenon, <2>1, <2>2 DEF PipeType
<1>2. Line = pc.got /\ pc.got \in Nat \X Nat /\ resp.end # "cut" /\ pc.loop # "top"
      /\ k >= Line[1] /\ resp.end \in {"open", "eof", "cut"}
  BY Zenon DEF Line, PlainTyped, ClientType, Gone, InTurn, Tracked
<1>3. CASE pipes' = pipes /\ resp' = [resp EXCEPT !.lines = <<Beat>>]
  <2>1. Beat \in Nat \X Nat /\ <<Beat>> # <<>> /\ Head(<<Beat>>) = Beat
    BY DEF Beat
  <2>2. resp' \in [lines : Texts, end : {"open", "eof", "cut"}] /\ resp'.end = resp.end
        /\ resp'.lines = <<Beat>>
    BY Zenon, <1>3, <2>1 DEF PlainTyped, Texts
  <2>3. Line' = pc.got
    BY Zenon, <2>1, <2>2 DEF Line
  <2>4. PlainTyped' /\ PipesInUse' /\ InTurn'
    BY <1>2, <1>3, <2>2 DEF PlainTyped, PipesInUse, InTurn
  <2>5. Tracked'
    BY Zenon, <1>2, <1>3, <2>2, <2>3 DEF Tracked, Gone
  <2> QED BY Zenon, <1>3, <2>4, <2>5, SamePipes
<1>4. CASE /\ pipes' = [pipes EXCEPT ![k].down = @ + 1]
           /\ resp' = [resp EXCEPT !.lines = <<l>>]
  <2>1. p \in PipeType /\ p.down = n + 1 /\ p.c1 = pipes[k].c1 /\ p.c2 = pipes[k].c2
        /\ pipes' = [pipes EXCEPT ![k] = p]
    BY <1>1, <1>4 DEF PipeType
  <2>2. l \in Nat \X Nat /\ l[1] = k /\ l[2] = n + 1 /\ l # Beat /\ <<l>> # <<>> /\ Head(<<l>>) = l
    BY <1>1 DEF Beat
  <2> HIDE DEF p, l
  <2>3. /\ pipes' \in Seq(PipeType) /\ Len(pipes') = Len(pipes)
        /\ pipes'[k] = p /\ \A j \in 1..Len(pipes) : j # k => pipes'[j] = pipes[j]
    BY <1>1, <2>1, PipeChanged DEF PlainTyped
  <2>4. resp' \in [lines : Texts, end : {"open", "eof", "cut"}] /\ resp'.end = resp.end
        /\ resp'.lines = <<l>>
    BY Zenon, <1>4, <2>2 DEF PlainTyped, Texts
  <2>5. Line' = l
    BY Zenon, <2>2, <2>4 DEF Line
  <2>6. \A j \in 1..Len(pipes) : pipes'[j].c1 = pipes[j].c1 /\ pipes'[j].c2 = pipes[j].c2
    BY Zenon, <2>1, <2>3
  <2>7. PlainTyped'
    BY Zenon, <2>3, <2>4 DEF PlainTyped
  <2>8. PipesInUse'
    BY <2>3, <2>6 DEF PipesInUse, Working
  <2>9. InTurn'
    BY Zenon, <1>2, <2>4 DEF InTurn
  <2>10. DOMAIN pipes = 1..Len(pipes) /\ DOMAIN pipes' = 1..Len(pipes)
    BY <2>3 DEF PlainTyped
  <2>11. Replaced'
    BY Zenon, <2>3, <2>6, <2>10 DEF Replaced, Ended
  <2>12. /\ IF Line[1] = 0 THEN Line[2] = 0 ELSE pipes[Line[1]].down = Line[2]
         /\ \A j \in 1..Len(pipes) : j > Line[1] => pipes[j].down = 0
    BY Zenon DEF Tracked
  <2>13. Follows(l, pc.got)
    <3>1. CASE k = Line[1]
      BY <1>1, <1>2, <2>2, <2>12, <3>1 DEF Follows
    <3>2. CASE k > Line[1]
      BY <1>1, <1>2, <2>2, <2>12, <3>2 DEF Follows
    <3> QED BY <1>1, <1>2, <3>1, <3>2
  <2>14. \A j \in 1..Len(pipes) : j > k => pipes'[j].down = 0
    BY <1>1, <1>2, <2>3, <2>12
  <2>15. Tracked'
    BY <1>1, <2>1, <2>2, <2>3, <2>5, <2>13, <2>14 DEF Tracked
  <2> QED BY Zenon, <2>7, <2>8, <2>9, <2>11, <2>15
<1> QED BY Zenon, <1>3, <1>4

\* A pull is served: lines, data, the end, a failure.
LEMMA PullServed ==
    ASSUME PlainInv, Heartbeat \/ PullEnds \/ PullCloses \/ \E k \in DOMAIN pipes : PullData(k)
    PROVE  PlainInv'
<1>1. "pull" \in HTTPRequests
  BY Zenon DEF HTTPRequests
<1>2. ASSUME PullBreaks, reqs["pull"].at = "go", UNCHANGED <<pipes, resp, pc>> PROVE PlainInv'
  BY Zenon, <1>1, <1>2, LossKeeps DEF PullBreaks, PlainInv, PlainTyped
<1>3. CASE Heartbeat
  BY Zenon, <1>2, <1>3, LineKeeps DEF Heartbeat
<1>4. CASE PullEnds
  BY Zenon, <1>2, <1>4 DEF PullEnds
<1>5. CASE PullCloses
  <2>1. NoReq \in ReqType /\ NoReq.at = "none"
    BY Zenon DEF ReqType, ReqSteps, NoReq, NoPipe
  <2>2. resp \in [lines : Texts, end : {"open", "eof", "cut"}]
    BY Zenon DEF PlainInv, PlainTyped
  <2>3. /\ resp' \in [lines : Texts, end : {"open", "eof", "cut"}]
        /\ resp'.lines = resp.lines
        /\ resp' = resp \/ (resp.end = "open" /\ resp'.end = "eof")
    BY Zenon, <1>5, <2>2 DEF PullCloses
  <2> QED BY Zenon, <1>1, <1>5, <2>1, <2>3, CloseKeeps DEF PullCloses
<1>6. ASSUME NEW k \in DOMAIN pipes, PullData(k) PROVE PlainInv'
  <2>1. reqs["pull"].at = "go" /\ reqs["pull"].pipe = k /\ pc' = pc
    BY <1>6 DEF PullData
  <2>2. CASE ~Gone
    BY Zenon, <1>6, <2>1, <2>2, LineKeeps DEF PullData
  <2>3. CASE Gone
    <3> DEFINE p == [pipes[k] EXCEPT !.down = @ + 1]
    <3>1. pipes \in Seq(PipeType) /\ k \in 1..Len(pipes) /\ pipes[k] \in PipeType
      BY DEF PlainInv, PlainTyped
    <3>2. p \in PipeType /\ p.c1 = pipes[k].c1 /\ p.c2 = pipes[k].c2
          /\ pipes' = [pipes EXCEPT ![k] = p] /\ PullBreaks /\ resp' = resp
      BY <1>6, <2>3, <3>1 DEF PullData, PipeType
    <3> HIDE DEF p
    <3>3. /\ pipes' \in Seq(PipeType) /\ Len(pipes') = Len(pipes)
          /\ \A j \in 1..Len(pipes) : pipes'[j].c1 = pipes[j].c1 /\ pipes'[j].c2 = pipes[j].c2
      BY <3>1, <3>2, PipeChanged
    <3> QED BY Zenon, <1>1, <2>1, <2>3, <3>2, <3>3, LossKeeps DEF PullBreaks
  <2> QED BY Zenon, <2>2, <2>3
<1> QED BY Zenon, <1>3, <1>4, <1>5, <1>6

\* The connection of a pull breaks.
LEMMA CutKeeps == ASSUME PlainInv, Cut PROVE PlainInv'
<1> USE DEF PlainInv
<1>1. UNCHANGED <<pipes, owner, reqs, pc>> /\ resp' = [lines |-> <<>>, end |-> "cut"]
      /\ pc.loop = "busy"
  BY Zenon DEF Cut
<1>2. PlainTyped'
  BY Zenon, <1>1 DEF PlainTyped, Texts
<1>3. PipesInUse' /\ InTurn'
  BY Zenon, <1>1 DEF PipesInUse, InTurn
<1>4. Tracked'
  BY Zenon, <1>1 DEF Tracked, Gone
<1> QED BY Zenon, <1>1, <1>2, <1>3, <1>4, SamePipes

\* Every step keeps the invariant.
LEMMA PlainStep == PlainInv /\ [TunnelNext]_pvars => PlainInv'
<1> SUFFICES ASSUME PlainInv, [TunnelNext]_pvars PROVE PlainInv'
  BY Zenon
<1>1. CASE ClientWrite \/ ClientWrote \/ ClientClose \/ ClientCancels
  BY Zenon, <1>1, ClientKeeps
<1>2. CASE ReadLoop
  BY Zenon, <1>2, PullKeeps, ScanKeeps, PulledKeeps DEF ReadLoop
<1>3. ASSUME NEW x \in HTTPRequests, GetOrCreateConn(x) PROVE PlainInv'
  BY Zenon, <1>3, LoadKeeps, CreateKeeps, EnqueueKeeps DEF GetOrCreateConn
<1>4. CASE HandlePush
  BY Zenon, <1>3, <1>4, PushKeeps DEF HandlePush, HTTPRequests
<1>5. CASE HandleBye
  BY Zenon, <1>3, <1>5, ByeKeeps DEF HandleBye, HTTPRequests
<1>6. CASE HandlePull
  BY Zenon, <1>3, <1>6, PullServed DEF HandlePull, HTTPRequests
<1>7. ASSUME NEW k \in DOMAIN pipes, AcceptPipe(k) \/ PullData(k) \/ ServerReads(k) \/ ServerCloses(k)
      PROVE  PlainInv'
  BY Zenon, <1>7, AcceptKeeps, PullServed, ReadsKeeps
<1>8. CASE (\E x \in HTTPRequests : Vanishes(x)) \/ Cut
  BY Zenon, <1>8, LoadKeeps, CutKeeps
<1>9. CASE UNCHANGED pvars
  BY <1>9 DEF pvars, PlainInv, PlainTyped, PipesInUse, InTurn, Replaced, Ended, Tracked, Line, Gone
<1> QED BY Zenon, <1>1, <1>2, <1>4, <1>5, <1>6, <1>7, <1>8, <1>9 DEF TunnelNext, ServerAccepts

\* A token stands for one connection, and the client gets what it has written,
\* in order (SameTunnel), however requests overlap, are lost or end late, for
\* any use and any bounds.
THEOREM OneTunnelAtATime ==
    TunnelInit(TunnelUses) /\ [][TunnelNext]_pvars => SameTunnel
<1>1. PlainInv => (Len(pipes) > 1 => Ended)
  BY Zenon DEF PlainInv, Replaced
<1>2. PlainInv /\ [TunnelNext]_pvars => [pc'.got # pc.got => Follows(pc'.got, pc.got)]_pvars
  <2> SUFFICES ASSUME PlainInv, [TunnelNext]_pvars
               PROVE  pc'.got # pc.got => Follows(pc'.got, pc.got)
    BY Zenon
  <2>1. PlainTyped
    BY Zenon DEF PlainInv
  <2>2. CASE Scan
    BY Zenon, <2>2, ScanKeeps
  <2>3. CASE ~Scan
    <3>1. CASE ClientWrite \/ ClientWrote \/ ClientClose \/ ClientCancels
      BY Zenon, <2>1, <3>1 DEF PlainTyped, ClientType, ClientWrite, ClientWrote, ClientClose, ClientCancels
    <3>2. CASE ReadLoop
      BY Zenon, <2>1, <2>3, <3>2 DEF PlainTyped, ClientType, ReadLoop, Pull, Pulled
    <3>3. CASE pc' = pc
      BY Zenon, <3>3
    <3>4. ASSUME NEW x, GetOrCreateConn(x) PROVE pc' = pc
      BY Zenon, <3>4 DEF GetOrCreateConn, LoadConn, CreatePipe, Enqueue
    <3>5. HandlePush \/ HandleBye \/ HandlePull => pc' = pc
      BY Zenon, <3>4 DEF HandlePush, HandleBye, HandlePull, PushFails, PushCloses, ByeCloses, ByeDeletes,
                  Heartbeat, PullEnds, PullCloses
    <3>6. ASSUME NEW k, AcceptPipe(k) \/ PullData(k) \/ ServerReads(k) \/ ServerCloses(k)
          PROVE  pc' = pc
      BY Zenon, <3>6 DEF AcceptPipe, PullData, ServerReads, ServerCloses
    <3>7. (\E x \in HTTPRequests : Vanishes(x)) \/ Cut \/ UNCHANGED pvars => pc' = pc
      BY Zenon DEF Vanishes, Cut, pvars
    <3> QED BY Zenon, <3>1, <3>2, <3>3, <3>5, <3>6, <3>7 DEF TunnelNext, ServerAccepts
  <2> QED BY Zenon, <2>2, <2>3
<1> QED BY <1>1, <1>2, PlainStarts, PlainStep, PTL DEF SameTunnel

=============================================================================
