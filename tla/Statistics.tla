----------------------------- MODULE Statistics -----------------------------
(***************************************************************************)
(* Traffic statistics and their observer.  Goroutines that serve           *)
(* connections add to a counter set (observer/stats) with atomic           *)
(* operations and no lock; a ticker loop, observeStats, looks whether      *)
(* something was added, reads the counters and hands them to               *)
(* the observer, and keeps what the observer refused for the next tick.    *)
(*                                                                         *)
(* The counters belong to the service, whose listener wraps every accepted *)
(* connection, or to one client of a handler, who finds them by name in a  *)
(* table (internal/util/stats).  A connection is the sequence of Adds it   *)
(* makes in its life; an Add is two steps, the counter and then the        *)
(* "updated" flag.  Input and output bytes are one counter.                *)
(***************************************************************************)
EXTENDS Integers, Sequences, FiniteSets

CONSTANTS
  Users,      \* the connections that share the counters
  StatsUses   \* instances: who counts, whether reading resets, and bounds

\* Who counts: the service's listener; a handler that counts by hand and
\* wraps the stream ("client": http, http2, relay, socks4, socks5, tungo);
\* the tunnel's connector; the router's association; SOCKS5's UDP over TCP;
\* HTTP's UDP over TCP; MASQUE over a stream.
AddsByHand(w) == w \in {"client", "udptun", "httpudp", "masque"}
WrapsConn(w) == w \notin {"client", "httpudp"}

\* The UDP tunnel of SOCKS5 counts before it answers and again when it
\* relays: by hand both times, its bytes through two wrappers.
AddsAgain(w) == w = "udptun"

\* HTTP's UDP relay counts its connections and wraps nothing.
CountsBytes(w) == w # "httpudp"

\* The wrapper's own Close is what subtracts; the router and the UDP tunnel
\* close the connection under the wrapper and drop the wrapper itself.
ClosesWrapper(w) == w \in {"service", "connector", "masque"}

\* Every loop is a copy of its own.  What follows a resend the observer
\* accepts (wait for the next tick, or go on to what is new), and what
\* becomes of an event it refuses.
HttpObserveStats == [resent |-> "check", refused |-> "kept"]
Http2ObserveStats == [resent |-> "check", refused |-> "kept"]
RelayObserveStats == [resent |-> "check", refused |-> "kept"]
Socks4ObserveStats == [resent |-> "check", refused |-> "kept"]
Socks5ObserveStats == [resent |-> "check", refused |-> "kept"]
TungoObserveStats == [resent |-> "check", refused |-> "kept"]
TunnelObserveStats == [resent |-> "check", refused |-> "kept"]
RouterObserveStats == [resent |-> "check", refused |-> "kept"]
MasqueObserveStats == [resent |-> "check", refused |-> "kept"]
\* Mutant: what the observer refused is not kept.
ServiceObserveStatsForgets == [resent |-> "idle", refused |-> "forgotten"]
ServiceObserveStats == [resent |-> "idle", refused |-> "kept"]

ObserveStats ==
  [service |-> ServiceObserveStats, http |-> HttpObserveStats,
   http2 |-> Http2ObserveStats, relay |-> RelayObserveStats,
   socks4 |-> Socks4ObserveStats, socks5 |-> Socks5ObserveStats,
   tungo |-> TungoObserveStats, tunnel |-> TunnelObserveStats,
   router |-> RouterObserveStats, masque |-> MasqueObserveStats]

Owners == {"service", "client", "connector", "associate", "udptun", "httpudp", "masque"}

ASSUME StatsAssumption ==
  StatsUses \subseteq [loop : DOMAIN ObserveStats, who : Owners, reset : BOOLEAN,
                       users : SUBSET Users, api : Nat, faults : Nat,
                       cancel : BOOLEAN]

Kinds == {"total", "cur", "bytes", "errs"}
Zero == [k \in Kinds |-> 0]
NewStats == [val |-> Zero, updated |-> FALSE]
NoStats == 0
NoEvent == [k \in Kinds |-> -1]

VARIABLES
  su,       \* the instance: loop, who, reset, users, cancel, and the bounds
            \* api (answers to GET /config) and faults (of the observer)
  heap,     \* counter sets allocated so far
  table,    \* the one registered under the client's name
  user,     \* each connection: pc, its counter set, the Adds left
  obs,      \* observeStats: pc, events (refused), evs (just read)
  told,     \* what the observer received: the last event, the bytes in all,
            \* and the bytes it received in events whose answer was lost
  counted,  \* ghost: bytes added to the counters
  shown     \* ghost: bytes an API answer took out of the counters

statsVars == <<su, heap, table, user, obs, told, counted, shown>>

\* WrapConn, and the two Adds the handlers write out themselves.
Opening == <<<<"total", 1>>, <<"cur", 1>>>>
When(b, s) == IF b THEN s ELSE <<>>

\* The Adds of one connection, which moves one byte, in the order the
\* goroutine makes them.
Adds(w, fails) ==
  When(AddsByHand(w), Opening) \o When(AddsAgain(w), Opening)
  \o When(WrapsConn(w), Opening)
  \o When(CountsBytes(w), <<<<"bytes", 1>>>>) \o When(AddsAgain(w), <<<<"bytes", 1>>>>)
  \o When(ClosesWrapper(w), <<<<"cur", -1>>>>)
  \o When(AddsAgain(w), <<<<"cur", -1>>>>) \o When(AddsByHand(w), <<<<"cur", -1>>>>)
  \o When(fails, <<<<"errs", 1>>>>)

UserMoves(c, s) == user' = [user EXCEPT ![c] = s]
UserMovesTo(c, pc) == UserMoves(c, [user[c] EXCEPT !.pc = pc])

\* HandlerStats.Stats: the lookup under the read lock.
Look(c) ==
  /\ user[c].pc = "look"
  /\ UserMoves(c, IF table = NoStats THEN [user[c] EXCEPT !.pc = "make"]
                  ELSE [user[c] EXCEPT !.pc = "count", !.at = table])
  /\ UNCHANGED <<su, heap, table, obs, told, counted, shown>>

\* HandlerStats.Stats: the second lookup and the creation, under the lock.
Make(c) ==
  /\ user[c].pc = "make"
  /\ heap' = IF table = NoStats THEN Append(heap, NewStats) ELSE heap
  /\ table' = IF table = NoStats THEN Len(heap') ELSE table
  /\ UserMoves(c, [user[c] EXCEPT !.pc = "count", !.at = table'])
  /\ UNCHANGED <<su, obs, told, counted, shown>>

\* Stats.Add, first half: the counter.
Count(c) ==
  /\ user[c].pc = "count" /\ user[c].adds # <<>>
  /\ LET add == Head(user[c].adds)
     IN /\ heap' = [heap EXCEPT ![user[c].at].val[add[1]] = @ + add[2]]
        /\ counted' = counted + IF add[1] = "bytes" THEN add[2] ELSE 0
  /\ UserMovesTo(c, "flag")
  /\ UNCHANGED <<su, table, obs, told, shown>>

\* Stats.Add, second half: the flag.
Flag(c) ==
  /\ user[c].pc = "flag"
  /\ heap' = [heap EXCEPT ![user[c].at].updated = TRUE]
  /\ UserMoves(c, [user[c] EXCEPT !.pc = "count", !.adds = Tail(@)])
  /\ UNCHANGED <<su, table, obs, told, counted, shown>>

Reset == su.reset
ObsMoves(s) == obs' = s
ObsMovesTo(pc) == ObsMoves([obs EXCEPT !.pc = pc])
Waiting(events) == [pc |-> "idle", events |-> events, evs |-> NoEvent]

Loop == ObserveStats[su.loop]
ByService == su.who = "service"

\* fillServiceStatus: GET /config reads the service's counters with Get,
\* which takes the bytes out of counters that reset.
FillServiceStatus ==
  /\ ByService /\ su.api > 0
  /\ su' = [su EXCEPT !.api = @ - 1]
  /\ shown' = shown + IF Reset THEN heap[table].val.bytes ELSE 0
  /\ heap' = [heap EXCEPT ![table].val.bytes = IF Reset THEN 0 ELSE @]
  /\ UNCHANGED <<table, user, obs, told, counted>>

\* The ticker fires: what was refused goes first.
ObserverTick ==
  /\ obs.pc = "idle"
  /\ ObsMovesTo(IF obs.events # NoEvent THEN "resend" ELSE "check")
  /\ UNCHANGED <<su, heap, table, user, told, counted, shown>>

\* ctx.Done: the loop returns, with nothing sent first.
Cancelled ==
  /\ obs.pc = "idle" /\ su.cancel
  /\ ObsMovesTo("end")
  /\ UNCHANGED <<su, heap, table, user, told, counted, shown>>

\* An answer of the observer: accepted, refused, or accepted but the answer
\* lost on its way, which looks refused to the loop.
Answers == {"ok"} \cup IF su.faults > 0 THEN {"refused", "lost"} ELSE {}

\* Observer.Observe(ev), answered a.
Observe(ev, a) ==
  /\ su' = IF a = "ok" THEN su ELSE [su EXCEPT !.faults = @ - 1]
  /\ told' = IF a = "refused" THEN told
             ELSE [last |-> ev, bytes |-> told.bytes + ev.bytes,
                   again |-> told.again + IF a = "lost" THEN ev.bytes ELSE 0]
  /\ UNCHANGED <<heap, table, user, counted, shown>>

\* The refused event is sent again.  The service's loop then waits for the
\* next tick; a handler's goes on to what was counted since.
Resend(a) ==
  /\ obs.pc = "resend"
  /\ Observe(obs.events, a)
  /\ ObsMoves(IF a # "ok" THEN [obs EXCEPT !.pc = "idle"]
              ELSE IF Loop.resent = "idle" THEN Waiting(NoEvent)
              ELSE [obs EXCEPT !.pc = "check"])

\* Nothing new: a handler's loop forgets what it has resent.
Nothing == ObsMoves(Waiting(NoEvent))

\* Stats.IsUpdated (and the table of HandlerStats.Events, with one client):
\* the flag is read and cleared before the counters are read.
Check ==
  /\ obs.pc = "check"
  /\ IF table # NoStats /\ heap[table].updated
     THEN /\ heap' = [heap EXCEPT ![table].updated = FALSE]
          /\ ObsMovesTo("read")
     ELSE Nothing /\ UNCHANGED heap
  /\ UNCHANGED <<su, table, user, told, counted, shown>>

\* The counts of connections and errors, which nobody resets.
ReadCounts ==
  /\ obs.pc = "read"
  /\ ObsMoves([obs EXCEPT !.evs = heap[table].val, !.pc = "bytes"])
  /\ UNCHANGED <<su, heap, table, user, told, counted, shown>>

\* Mutant: the flag is cleared once the event has been read.
ReadThenClear ==
  /\ obs.pc = "bytes"
  /\ ObsMoves([obs EXCEPT !.evs.bytes = heap[table].val.bytes, !.pc = "send"])
  /\ heap' = [heap EXCEPT ![table].updated = FALSE,
                          ![table].val.bytes = IF Reset THEN 0 ELSE @]
  /\ UNCHANGED <<su, table, user, told, counted, shown>>

\* The bytes: reading them empties counters that reset.
ReadBytes ==
  /\ obs.pc = "bytes"
  /\ ObsMoves([obs EXCEPT !.evs.bytes = heap[table].val.bytes, !.pc = "send"])
  /\ heap' = [heap EXCEPT ![table].val.bytes = IF Reset THEN 0 ELSE @]
  /\ UNCHANGED <<su, table, user, told, counted, shown>>

\* The event just read is sent, and kept when it is refused.
Send(a) ==
  /\ obs.pc = "send"
  /\ Observe(obs.evs, a)
  /\ IF a = "ok" \/ Loop.refused = "forgotten" THEN Nothing
     ELSE ObsMoves(Waiting(obs.evs))

\* The service's counters exist from the start; a handler's are made by the
\* first connection of the client.
StatsStart(u, fails, pc) ==
  /\ su = u
  /\ heap = IF u.who = "service" THEN <<NewStats>> ELSE <<>>
  /\ table = IF u.who = "service" THEN 1 ELSE NoStats
  /\ user = [c \in Users |->
               [pc |-> IF u.who = "service" \/ c \notin u.users THEN "count" ELSE "look",
                at |-> IF u.who = "service" THEN 1 ELSE NoStats,
                adds |-> When(c \in u.users, Adds(u.who, fails[c]))]]
  /\ obs = [Waiting(NoEvent) EXCEPT !.pc = pc]
  /\ told = [last |-> Zero, bytes |-> 0, again |-> 0]
  /\ counted = 0 /\ shown = 0

\* Only the service counts the handlers' errors.
StatsInit ==
  \E u \in StatsUses : \E fails \in [u.users -> {FALSE, u.who = "service"}] :
    StatsStart(u, fails, "idle")

\* No connections and no observer.
NoUse == [loop |-> "service", who |-> "service", reset |-> FALSE, users |-> {}, api |-> 0,
          faults |-> 0, cancel |-> FALSE]
StatsIdle == StatsStart(NoUse, <<>>, "end")

UserStep(c) == Look(c) \/ Make(c) \/ Count(c) \/ Flag(c)
ObserveStep ==
  \/ ObserverTick \/ Check \/ ReadCounts \/ ReadBytes
  \/ \E a \in Answers : Resend(a) \/ Send(a)

StatsNext ==
  (\E c \in Users : UserStep(c)) \/ ObserveStep \/ Cancelled \/ FillServiceStatus

\* Connections end, and the ticker goes on until the loop returns.
StatsFairness ==
  /\ \A c \in Users : WF_statsVars(UserStep(c))
  /\ WF_statsVars(ObserveStep)

StatsSpec == StatsInit /\ [][StatsNext]_statsVars /\ StatsFairness

InHand ==
  (IF obs.pc = "send" THEN obs.evs.bytes ELSE 0)
  + IF obs.pc \in {"idle", "resend", "end"} /\ obs.events # NoEvent
    THEN obs.events.bytes ELSE 0

\* Where reading resets the counters (observer.resetTraffic), every byte the
\* connections counted is in exactly one place: still in the counters, in the
\* event being read, in the refused event, with the observer, or in the
\* answer to GET /config, which takes it away from the observer.  Only an
\* answer of the observer that was lost makes it receive bytes twice.
NothingUncounted ==
  Reset /\ table # NoStats =>
    heap[table].val.bytes + InHand + told.bytes + shown = counted + told.again


\* The connections whose wrapper nobody closes, those counted twice or three
\* times, and those whose bytes are counted twice or not at all.
NeverLeaves(w) == WrapsConn(w) /\ ~ClosesWrapper(w)
CountedTwice(w) == WrapsConn(w) /\ AddsByHand(w)
MiscountsBytes(w) == AddsAgain(w) \/ ~CountsBytes(w)

\* Every connection moves one byte.
Moved == Cardinality(su.users)

CaughtUp ==
  /\ table # NoStats
  /\ told.last.total = Cardinality(su.users) \/ CountedTwice(su.who)
  /\ told.last.cur = 0 \/ NeverLeaves(su.who)
  /\ told.last.errs = heap[table].val.errs
  /\ counted = Moved \/ MiscountsBytes(su.who)
  /\ IF Reset THEN told.bytes + shown = counted + told.again
     ELSE told.last.bytes = counted

\* Whatever the order of the counters, the flag and the observer's reads, and
\* whatever answers it refused, the observer ends up told the truth: as many
\* connections as there were, none still open once all are gone, every error,
\* and every byte the connections moved.  The exceptions are the code's own:
\* the router's association and SOCKS5's UDP tunnel never close the wrapper,
\* so the count of current connections stays up; MASQUE streams add by hand
\* and wrap as well, so they count twice; SOCKS5's UDP tunnel counts a
\* connection three times and every byte twice (handler/socks/v5/udp_tun.go:
\* 44-50, 150-155), and HTTP's UDP relay counts no byte (handler/http/udp.go:
\* 68-73), and of these two the observer is told what was counted; and a loop
\* whose context ends sends nothing more.
ReportsCatchUp == <>[](obs.pc # "end" => CaughtUp)
=============================================================================
