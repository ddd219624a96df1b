------------------------------ MODULE Resolver ------------------------------
(***************************************************************************)
(* Names and their addresses: the resolver, which asks its nameservers in  *)
(* their order for one family of addresses or for both, and the DNS        *)
(* handler, which answers the queries of clients.  Both keep answers in a  *)
(* cache and may give an expired one while they ask for a new one in the   *)
(* background; the resolver lets only one of its callers ask a question.   *)
(*                                                                         *)
(* All is about one name.  A nameserver's answer is the version of what it *)
(* holds, or empty.  Time is only whether an entry has expired.            *)
(***************************************************************************)
EXTENDS Integers, Sequences, FiniteSets

CONSTANTS Callers,      \* those that ask: 1, 2, ...
          ResolverConfs \* who: resolver or handler; local: the handler ends it
                        \* without the cache; servers: async, ttl ("never" is not
                        \* to cache), only and prefer of each; wants: the
                        \* network each caller asks for; empty: the families
                        \* each server begins with no addresses of; and the
                        \* bound changes: of what the servers hold and do

VARIABLES rs,     \* chosen once
          ns,     \* the nameservers: state, and version and empty by family
          ent,    \* the cache, by family
          flight, \* who asks a question for all that wait for it
          job,    \* the calls, and the goroutines in the background
          moves   \* changes so far

svars == <<rs, ns, ent, flight, job, moves>>

\* Bound: a caller's goroutines in the background are one at a time, -c.
Refreshers == {-c : c \in Callers}

Families46 == {"4", "6"}
Networks == Families46 \cup {""}
NoOne == 0
NoEntry == [from |-> 0, ver |-> 0, empty |-> TRUE, fresh |-> FALSE]
NoAnswer == [from |-> 0, ver |-> 0, fam |-> "none"]
IdleJob == [at |-> "idle", srv |-> 1, f |-> 1, want |-> "", got |-> NoAnswer, val |-> NoEntry]

IsHandler == rs.who = "handler"

ASSUME ResolverAssumption ==
    /\ Callers \subseteq Nat \ {0}
    /\ \A r \in ResolverConfs :
         /\ r.servers \in Seq([async : BOOLEAN, ttl : {"some", "never"},
                              only : Networks, prefer : Networks])
         /\ \A c \in DOMAIN r.wants : r.wants[c] \in Networks
         /\ \A i \in DOMAIN r.servers : r.empty[i] \subseteq Families46

ResolverInit(confs) ==
    /\ rs \in confs
    /\ ns = [s \in DOMAIN rs.servers |->
               [state |-> "up", ver |-> [k \in Families46 |-> 1], empty |-> rs.empty[s]]]
    /\ ent = [k \in Families46 |-> NoEntry]
    /\ flight = [k \in Families46 |-> NoOne]
    /\ job = [p \in Callers \cup Refreshers |-> IdleJob]
    /\ moves = 0

-----------------------------------------------------------------------------
(* What is asked for.                                                      *)

\* resolvePreference and shouldReturn: the families that a server is asked
\* for, in this order, until one has addresses.
Fams(j) ==
    LET s == rs.servers[j.srv]
        pref == IF s.only # "" THEN s.only ELSE IF j.want # "" THEN j.want
                ELSE IF s.prefer # "" THEN s.prefer ELSE "4"
    IN IF IsHandler THEN <<j.want>>
       ELSE IF pref \in {s.only, j.want} THEN <<pref>>
       ELSE <<pref, IF pref = "4" THEN "6" ELSE "4">>

Key(j) == Fams(j)[j.f]
Last(j) == j.f = Len(Fams(j))

\* Resolve: the next server, or the end.
Goto(j, i) ==
    [j EXCEPT !.srv = IF i > Len(rs.servers) THEN 1 ELSE i, !.f = 1, !.val = NoEntry,
              !.at = IF i > Len(rs.servers) THEN "done"
                     ELSE IF rs.servers[i].async THEN "look" ELSE "join"]

Done(j, k, e) ==
    [j EXCEPT !.at = "done", !.srv = 1, !.f = 1, !.val = NoEntry,
              !.got = IF e.empty THEN NoAnswer
                      ELSE [from |-> e.from, ver |-> e.ver, fam |-> k]]

\* What a call does with the answer to its question: addresses end it; none,
\* or an error, makes it ask for the other family and then the next server.
Takes(p, e) ==
    LET j == job[p] IN
    IF p \in Refreshers THEN
        IF ~e.empty \/ Last(j) \/ IsHandler THEN IdleJob ELSE [j EXCEPT !.at = "join", !.f = 2, !.val = NoEntry]
    ELSE IF ~e.empty \/ IsHandler THEN Done(j, Key(j), e)
    ELSE IF Last(j) THEN Goto(j, j.srv + 1)
    ELSE [j EXCEPT !.at = "join", !.f = 2, !.val = NoEntry]

Slack(c) == job[-c].at = "idle"
Spawn(j, at) == [IdleJob EXCEPT !.at = at, !.srv = j.srv, !.want = j.want]

-----------------------------------------------------------------------------
(* Resolver: Resolve, resolveAsync, resolve.                               *)

Ask(c) ==
    /\ c \in DOMAIN rs.wants /\ job[c].at \in {"idle", "done"} /\ ~IsHandler
    /\ job' = [job EXCEPT ![c] = Goto([IdleJob EXCEPT !.want = rs.wants[c]], 1)]
    /\ UNCHANGED <<rs, ns, ent, flight, moves>>

\* lookupCache: an entry of the first family with addresses, or of the last.
Found(c) == job[c].at = "look" /\ ent[Key(job[c])] # NoEntry /\ (~ent[Key(job[c])].empty \/ Last(job[c]))
Used(c) ==
    LET j == job[c]
        e == ent[Key(j)]
    IN IF e.empty THEN Goto(j, j.srv + 1) ELSE Done(j, Key(j), e)

\* resolveAsync: what is found is used, and left as it is when it has expired
\* and there is no room for one more in the background (by the bound, while one
\* of the caller's own is there; by the code, while there are maxAsyncRefresh);
\* what is not found is asked for.
Look(c) ==
    LET j == job[c]
        e == ent[Key(j)]
    IN
    /\ j.at = "look"
    /\ \/ /\ e.empty /\ ~Last(j)
          /\ job' = [job EXCEPT ![c].f = 2]
       \/ /\ e = NoEntry /\ Last(j)
          /\ job' = [job EXCEPT ![c].at = "join", ![c].f = 1]
       \/ /\ Found(c) /\ (e.fresh \/ ~Slack(c))
          /\ job' = [job EXCEPT ![c] = Used(c)]
    /\ UNCHANGED <<rs, ns, ent, flight, moves>>

\* resolveAsync: what has expired is used and asked for anew in the background.
Refresh(c) ==
    /\ Found(c) /\ ~ent[Key(job[c])].fresh /\ Slack(c)
    /\ job' = [job EXCEPT ![c] = Used(c), ![-c] = Spawn(job[c], "join")]
    /\ UNCHANGED <<rs, ns, ent, flight, moves>>

\* Mutant: every caller asks for itself.
JoinAlone(p) ==
    /\ job[p].at = "join"
    /\ job' = [job EXCEPT ![p].at = "check"]
    /\ UNCHANGED <<rs, ns, ent, flight, moves>>
\* singleflight: the first asks for all that come until the answer is there.
Join(p) ==
    LET k == Key(job[p]) IN
    /\ job[p].at = "join"
    /\ IF flight[k] = NoOne
       THEN flight' = [flight EXCEPT ![k] = p] /\ job' = [job EXCEPT ![p].at = "check"]
       ELSE job' = [job EXCEPT ![p].at = "wait"] /\ UNCHANGED flight
    /\ UNCHANGED <<rs, ns, ent, moves>>

\* The answer is for the one that asked and all that wait.
Deliver(p, e) ==
    LET k == Key(job[p])
        all == {q \in DOMAIN job : q = p \/ (job[q].at = "wait" /\ Key(job[q]) = k)}
    IN /\ job' = [q \in DOMAIN job |-> IF q \in all THEN Takes(q, e) ELSE job[q]]
       /\ flight' = [flight EXCEPT ![k] = NoOne]

Check(p) ==
    LET k == Key(job[p]) IN
    /\ job[p].at = "check"
    /\ IF ent[k].fresh THEN Deliver(p, ent[k])
       ELSE job' = [job EXCEPT ![p].at = "ask"] /\ UNCHANGED flight
    /\ UNCHANGED <<rs, ns, ent, moves>>

-----------------------------------------------------------------------------
(* Handler: request.                                                       *)

\* Handle: a query.  What is over the rate or has no question, and what the
\* bypass and the hosts answer, never comes to the cache.
Request(c) ==
    /\ c \in DOMAIN rs.wants /\ job[c].at \in {"idle", "done"} /\ IsHandler
    /\ job' = [job EXCEPT ![c] = [IdleJob EXCEPT !.want = rs.wants[c],
                                                 !.at = IF rs.local THEN "done" ELSE "load"]]
    /\ UNCHANGED <<rs, ns, ent, flight, moves>>

LoadEntry(c) ==
    LET j == job[c]
        e == ent[Key(j)]
    IN
    /\ j.at = "load"
    /\ job' = [job EXCEPT ![c] =
                 IF e.fresh THEN Done(j, Key(j), e)
                 ELSE IF e # NoEntry /\ rs.servers[1].async
                 THEN [j EXCEPT !.at = "refresh", !.val = e] ELSE [j EXCEPT !.at = "ask"]]
    /\ UNCHANGED <<rs, ns, ent, flight, moves>>

\* RefreshTTL: the entry counts as fresh again, before anybody has asked.
\* (There is always room; the bound waits for it.)
RefreshTTL(c) ==
    LET j == job[c] IN
    /\ j.at = "refresh" /\ Slack(c)
    /\ ent' = [ent EXCEPT ![Key(j)].fresh = TRUE]
    /\ job' = [job EXCEPT ![c] = Done(j, Key(j), j.val), ![-c] = Spawn(j, "ask")]
    /\ UNCHANGED <<rs, ns, flight, moves>>

-----------------------------------------------------------------------------
(* Exchange and store, of both.                                            *)

\* The exchanger's Exchange: a reply within the timeout, or an error.
Replies(i) == ns[i].state # "down"

\* exchange: an answer with an error code is an error to the resolver, and an
\* answer without addresses to the handler.
Usable(i) == Replies(i) /\ (ns[i].state = "up" \/ IsHandler)

Exchange(p) ==
    LET j == job[p]
        s == ns[j.srv]
    IN
    /\ j.at = "ask"
    /\ IF Usable(j.srv)
       THEN /\ job' = [job EXCEPT ![p].at = "store",
                                  ![p].val = [from |-> j.srv, ver |-> s.ver[Key(j)], fresh |-> TRUE,
                                              empty |-> s.state # "up" \/ Key(j) \in s.empty]]
            /\ UNCHANGED flight
       ELSE Deliver(p, NoEntry)
    /\ UNCHANGED <<rs, ns, ent, moves>>

\* Mutant: what has an entry keeps it.
StoreOnce(p) ==
    LET j == job[p] IN
    /\ j.at = "store"
    /\ ent' = IF rs.servers[j.srv].ttl = "never" \/ ent[Key(j)] # NoEntry THEN ent
              ELSE [ent EXCEPT ![Key(j)] = j.val]
    /\ Deliver(p, j.val)
    /\ UNCHANGED <<rs, ns, moves>>
StoreAnswer(p) ==
    LET j == job[p] IN
    /\ j.at = "store"
    /\ ent' = IF rs.servers[j.srv].ttl = "never" THEN ent ELSE [ent EXCEPT ![Key(j)] = j.val]
    /\ Deliver(p, j.val)
    /\ UNCHANGED <<rs, ns, moves>>

-----------------------------------------------------------------------------
(* Time, and the nameservers.                                              *)

Expires(k) ==
    /\ ent[k].fresh
    /\ ent' = [ent EXCEPT ![k].fresh = FALSE]
    /\ UNCHANGED <<rs, ns, flight, job, moves>>

ServerChanges(s) ==
    /\ moves < rs.changes /\ moves' = moves + 1
    /\ \/ \E k \in Families46 :
            ns' = [ns EXCEPT ![s].ver[k] = @ + 1]
       \/ \E k \in Families46 :
            ns' = [ns EXCEPT ![s].ver[k] = @ + 1,
                             ![s].empty = IF k \in @ THEN @ \ {k} ELSE @ \cup {k}]
       \/ \E t \in {"up", "down", "refusing"} \ {ns[s].state} : ns' = [ns EXCEPT ![s].state = t]
    /\ UNCHANGED <<rs, ent, flight, job>>

ResolverIdle ==
    ResolverInit({[who |-> "resolver", local |-> FALSE, servers |-> <<>>, wants |-> <<>>,
                   empty |-> <<>>, changes |-> 0]})

ResolverNext ==
    \/ \E c \in Callers : Ask(c) \/ Request(c)
    \/ \E c \in Callers : Look(c) \/ Refresh(c) \/ LoadEntry(c) \/ RefreshTTL(c)
    \/ \E p \in Callers \cup Refreshers : Join(p) \/ Check(p) \/ Exchange(p) \/ StoreAnswer(p)
    \/ \E k \in Families46 : Expires(k)
    \/ \E s \in DOMAIN rs.servers : ServerChanges(s)

ResolverSpec == ResolverInit(ResolverConfs) /\ [][ResolverNext]_svars

\* Exchanges end by their timeouts, time passes, and the callers are such as ask
\* again and again.
ResolverFairness ==
    /\ \A c \in Callers : WF_svars(Ask(c) \/ Request(c))
    /\ \A c \in Callers : WF_svars(Look(c) \/ Refresh(c) \/ LoadEntry(c) \/ RefreshTTL(c))
    /\ \A p \in Callers \cup Refreshers : WF_svars(Join(p) \/ Check(p) \/ Exchange(p) \/ StoreAnswer(p))
    /\ \A k \in Families46 : WF_svars(Expires(k))

-----------------------------------------------------------------------------
(* Properties.                                                             *)

\* NeverBack: an answer in the cache is never replaced by an older one of the
\* same nameserver, however calls, their fallbacks and refreshes in the
\* background overlap: only one of them asks at a time
\* (resolver/resolver.go:292).  The handler has no such order: the later of two
\* answers that overtake each other may be the older.
NeverBack ==
    [][\A k \in Families46 : ent'[k].from = ent[k].from => ent'[k].ver >= ent[k].ver \/ IsHandler]_svars

\* What a caller should be told: by the first server that has addresses, those
\* of the first family that it has any of.
Asking(c, i) == [IdleJob EXCEPT !.srv = i, !.want = rs.wants[c]]
FamsOf(c, i) == LET fs == Fams(Asking(c, i)) IN {fs[n] : n \in DOMAIN fs}
Able(c) == {i \in DOMAIN rs.servers : ns[i].state = "up" /\ FamsOf(c, i) \ ns[i].empty # {}}
FirstAble(c) == CHOOSE i \in Able(c) : \A n \in Able(c) : i <= n
Best(c) ==
    LET i == FirstAble(c)
        fs == Fams(Asking(c, i))
        k == IF fs[1] \in ns[i].empty THEN fs[2] ELSE fs[1]
    IN [from |-> i, ver |-> ns[i].ver[k], fam |-> k]

\* The question that callers share does not name the server either: a call that
\* has come to the next server may get what another gets from the one before
\* it, addresses of the other family or an error (resolver/resolver.go:292).
Mixed(c) == FirstAble(c) > 1 /\ Len(rs.wants) > 1

\* An answer that there are no addresses is cached under the name alone, and
\* taken for that of another server, which is not asked
\* (resolver/resolver.go:306).
Shadowed(c) ==
    \E i \in DOMAIN rs.servers \ {FirstAble(c)} :
       /\ ns[i].state = "up" /\ rs.servers[i].ttl # "never"
       /\ ns[i].empty \cap FamsOf(c, i) \cap FamsOf(c, FirstAble(c)) # {}

\* An earlier server that does not answer is only asked in the background, and
\* what has expired is given for ever (resolver/resolver.go:231).
Outdated(c) ==
    \E i \in 1..(FirstAble(c) - 1) : rs.servers[i].async /\ ns[i].state # "up"

\* With async, what another caller has asked the other family for, none
\* included, is found in the cache, and the preferred family is not asked for
\* (resolver/resolver.go:266).
Unasked(c) ==
    LET fs == Fams(Asking(c, FirstAble(c)))
    IN rs.servers[FirstAble(c)].async /\ Len(fs) = 2 /\ \E d \in DOMAIN rs.wants : rs.wants[d] = fs[2]

\* Settles: every call returns, those that wait for another's question and
\* those that fall back included; and when the nameservers stay as they are,
\* what callers are told is, in the end, what the first server has that has
\* addresses, through the cache, the refreshes and the families.
Settles ==
    \A c \in Callers :
       /\ []<>(job[c].at \in {"idle", "done"})
       /\ <>[](\/ c \notin DOMAIN rs.wants \/ rs.local \/ job[c].at # "done"
               \/ Able(c) = {} \/ Mixed(c) \/ Shadowed(c) \/ Outdated(c) \/ Unasked(c)
               \/ job[c].got = Best(c))
=============================================================================
