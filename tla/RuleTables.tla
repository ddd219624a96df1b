------------------------------ MODULE RuleTables -----------------------------
(***************************************************************************)
(* The tables of rules that bypasses, admissions, host mappers, ingresses, *)
(* routers, authers, limiters and hops are: rules written in the           *)
(* configuration and rules loaded from files, redis and http servers, read *)
(* again every period while requests look rules up.                        *)
(*                                                                         *)
(* A request is about one name; the rules "exact" and "wild" are the ones  *)
(* that match it, "other" does not, and "blank" is a line of a source that *)
(* is no rule (a comment, an empty line).                                  *)
(***************************************************************************)
EXTENDS Naturals, Sequences, FiniteSets, Lists

CONSTANTS TableConfs,  \* kind: a table below; sources: in the order they are
                       \* read; inline: the rules of the configuration;
                       \* spare: room behind them in their array; period;
                       \* closes: the table may be closed; holds: what a
                       \* source may hold
          MaxChanges   \* bound: changes of the sources, failures included

RuleKinds == {"exact", "wild", "other", "blank"}
TableKinds ==
    {"bypass", "admission", "hosts", "ingress", "router", "auther", "rate", "conn", "hop"}

ASSUME TablesAssumption ==
    \A c \in TableConfs :
       /\ c.kind \in TableKinds
       /\ c.sources \in Seq({"file", "string", "set", "list", "hash", "http"})
       /\ c.inline \in Seq(RuleKinds) /\ c.holds \subseteq Seq(RuleKinds)
       /\ c.spare \in Nat

VARIABLES rt,       \* chosen once
          src,      \* the sources: what they hold, and whether they answer
          table,    \* the table in force
          array,    \* what is behind the inline rules in their array
          load,     \* the reload in progress
          look,     \* the lookup in progress
          life,     \* "open", "closed" or "crashed"
          changes

rvars == <<rt, src, table, array, load, look, life, changes>>

-----------------------------------------------------------------------------
(* The kinds of sources.  lists: its lines are handed over one by one;     *)
(* cancels: closing the table makes a read of it fail.                     *)

FileSource == [lists |-> TRUE, cancels |-> FALSE]
RedisString == [lists |-> FALSE, cancels |-> TRUE]
RedisSet == [lists |-> TRUE, cancels |-> TRUE]
RedisList == [lists |-> TRUE, cancels |-> TRUE]
RedisHash == [lists |-> TRUE, cancels |-> TRUE]
HttpSource == [lists |-> FALSE, cancels |-> TRUE]

Source(s) ==
    CASE s = "file" -> FileSource [] s = "string" -> RedisString [] s = "set" -> RedisSet
      [] s = "list" -> RedisList [] s = "hash" -> RedisHash [] s = "http" -> HttpSource

(* The kinds of tables.  begins: what is in force before the first reload; *)
(* first: whether that is over before the table is used; empty: whether no *)
(* rules at all are put in force; shares: whether the loaded rules are put *)
(* behind the inline ones, in an array that may be in use.                 *)

BypassTable == [begins |-> "nothing", first |-> FALSE, empty |-> FALSE, shares |-> FALSE]
AdmissionTable == [begins |-> "nothing", first |-> FALSE, empty |-> TRUE, shares |-> FALSE]
HostsTable == [begins |-> "nothing", first |-> FALSE, empty |-> TRUE, shares |-> FALSE]
IngressTable == [begins |-> "nothing", first |-> FALSE, empty |-> TRUE, shares |-> FALSE]
RouterTable == [begins |-> "nothing", first |-> TRUE, empty |-> TRUE, shares |-> TRUE]
AutherTable == [begins |-> "nothing", first |-> FALSE, empty |-> TRUE, shares |-> FALSE]
RateTable == [begins |-> "nothing", first |-> FALSE, empty |-> TRUE, shares |-> FALSE]
ConnTable == [begins |-> "nothing", first |-> FALSE, empty |-> TRUE, shares |-> FALSE]
HopTable == [begins |-> "inline", first |-> FALSE, empty |-> TRUE, shares |-> TRUE]

(* What loading does.  failing: a source that fails is left out, or keeps  *)
(* the table as it is; blank: a listed line that is no rule is skipped, or *)
(* becomes nil.                                                            *)

BypassLoad == [failing |-> "left out", blank |-> "skipped"]
AdmissionLoad == [failing |-> "left out", blank |-> "skipped"]
HostsLoad == [failing |-> "left out", blank |-> "skipped"]
IngressLoad == [failing |-> "left out", blank |-> "nil"]
RouterLoad == [failing |-> "left out", blank |-> "nil"]
AutherLoad == [failing |-> "keeps", blank |-> "skipped"]
RateLoad == [failing |-> "left out", blank |-> "skipped"]
ConnLoad == [failing |-> "left out", blank |-> "skipped"]
HopLoad == [failing |-> "left out", blank |-> "skipped"]

(* How a rule is found: all at once under the lock, the exact name first   *)
(* and then the wider ones with a lock for each, or rule after rule with   *)
(* no lock.                                                                *)

BypassFind == "once"
AdmissionFind == "once"
HostsFind == "twice"
IngressFind == "twice"
RouterFind == "walk"
AutherFind == "once"
RateFind == "once"
ConnFind == "once"
HopFind == "walk"

Table ==
    CASE rt.kind = "bypass" -> BypassTable [] rt.kind = "admission" -> AdmissionTable
      [] rt.kind = "hosts" -> HostsTable [] rt.kind = "ingress" -> IngressTable
      [] rt.kind = "router" -> RouterTable [] rt.kind = "auther" -> AutherTable
      [] rt.kind = "rate" -> RateTable [] rt.kind = "conn" -> ConnTable
      [] rt.kind = "hop" -> HopTable

Loading ==
    CASE rt.kind = "bypass" -> BypassLoad [] rt.kind = "admission" -> AdmissionLoad
      [] rt.kind = "hosts" -> HostsLoad [] rt.kind = "ingress" -> IngressLoad
      [] rt.kind = "router" -> RouterLoad [] rt.kind = "auther" -> AutherLoad
      [] rt.kind = "rate" -> RateLoad [] rt.kind = "conn" -> ConnLoad
      [] rt.kind = "hop" -> HopLoad

Finding ==
    CASE rt.kind = "bypass" -> BypassFind [] rt.kind = "admission" -> AdmissionFind
      [] rt.kind = "hosts" -> HostsFind [] rt.kind = "ingress" -> IngressFind
      [] rt.kind = "router" -> RouterFind [] rt.kind = "auther" -> AutherFind
      [] rt.kind = "rate" -> RateFind [] rt.kind = "conn" -> ConnFind
      [] rt.kind = "hop" -> HopFind

-----------------------------------------------------------------------------
Ran(s) == {s[i] : i \in DOMAIN s}
Match(rules) == Ran(rules) \cap {"exact", "wild"} # {}
Without(s, x) == Keep(s, Ran(s) \ {x})

\* The rules of a table; those behind the inline ones may be in the array.
Items(t) == t.head \o (IF t.at = "array" THEN SubSeq(array, 1, t.n) ELSE t.own)

\* The loaded rules fit behind the inline ones.
Room == Table.shares /\ rt.inline # <<>> /\ Len(load.got) <= rt.spare

NoTable == [head |-> <<>>, at |-> "own", n |-> 0, own |-> <<>>]
NoLoad == [at |-> "start", left |-> <<>>, got |-> <<>>, failed |-> FALSE, nilmap |-> FALSE]
NoLook == [at |-> "idle", t |-> NoTable, i |-> 0, covered |-> FALSE, torn |-> FALSE,
           overrun |-> FALSE, found |-> FALSE]

RulesInit(confs) ==
    /\ rt \in confs
    /\ src \in [Ran(rt.sources) -> [holds : rt.holds, up : BOOLEAN]]
    /\ table = IF Table.begins = "inline" THEN [NoTable EXCEPT !.head = rt.inline] ELSE NoTable
    /\ array = <<>>
    /\ load = NoLoad /\ look = NoLook /\ life = "open" /\ changes = 0

-----------------------------------------------------------------------------
(* Reload.                                                                 *)

StartLoad ==
    /\ load.at = "start" /\ life # "crashed"
    /\ load' = [NoLoad EXCEPT !.at = "read", !.left = rt.sources]
    /\ UNCHANGED <<rt, src, table, array, look, life, changes>>

\* A source is read: it fails when it does not answer, or when the table has
\* been closed.  An auther takes the map of its file, which is nil when that
\* failed, and adds the others to it.
ReadSource ==
    /\ load.at = "read" /\ load.left # <<>> /\ life # "crashed"
    /\ LET s == Head(load.left)
           fails == ~src[s].up \/ (life = "closed" /\ Source(s).cancels)
           lines == IF fails THEN <<>> ELSE src[s].holds
           rules == IF Source(s).lists /\ Loading.blank = "nil" THEN lines
                    ELSE Without(lines, "blank")
       IN /\ load' = [load EXCEPT !.left = Tail(@), !.got = @ \o rules,
                                  !.failed = @ \/ fails,
                                  !.nilmap = @ \/ (rt.kind = "auther" /\ s = "file" /\ fails)]
          /\ life' = IF load.nilmap /\ rules # <<>> THEN "crashed" ELSE life
    /\ UNCHANGED <<rt, src, table, array, look, changes>>

\* The rules are put together.  A nil rule is looked into: by the ingress, and
\* by the router when it sets the routes of the system.  The rules of a router
\* and of a hop go behind the inline ones when there is room.
Gather ==
    /\ load.at = "read" /\ load.left = <<>> /\ life # "crashed"
    /\ \/ /\ "blank" \in Ran(load.got) /\ life' = "crashed"
          /\ UNCHANGED <<load, array, look>>
       \/ /\ "blank" \in Ran(load.got) => rt.kind = "router"
          /\ load' = [load EXCEPT !.at = "install"]
          /\ array' = IF Room
                      THEN [i \in 1..rt.spare |-> IF i <= Len(load.got) THEN load.got[i]
                                                  ELSE IF i <= Len(array) THEN array[i]
                                                  ELSE "other"]
                      ELSE array
          /\ look' = IF array' # array THEN [look EXCEPT !.overrun = TRUE] ELSE look
          /\ UNCHANGED life
    /\ UNCHANGED <<rt, src, table, changes>>

\* Mutant: the loop ends with the first error.
AfterLoadEnds == IF rt.period /\ life = "open" /\ ~load.failed THEN "start" ELSE "stopped"
\* The loop goes on with the next tick, until the table is closed.
AfterLoad == IF rt.period /\ life = "open" THEN "start" ELSE "stopped"

\* The new table takes the place of the old one, or does not.
Install ==
    /\ load.at = "install" /\ life # "crashed"
    /\ LET keeps == \/ load.failed /\ Loading.failing = "keeps"
                    \/ ~Table.empty /\ rt.inline \o load.got = <<>>
           new == [head |-> rt.inline,
                   at |-> IF Room THEN "array" ELSE "own",
                   n |-> Len(load.got), own |-> load.got]
       IN /\ table' = IF keeps THEN table
                      ELSE IF new.at = "array" THEN [new EXCEPT !.own = <<>>] ELSE new
          /\ look' = [look EXCEPT !.covered = @ /\ Match(Items(table')),
                                  !.torn = ~keeps]
          /\ load' = [NoLoad EXCEPT !.at = AfterLoad]
    /\ UNCHANGED <<rt, src, array, life, changes>>

\* Somebody changes a source, or it fails, or answers again.
ChangeSource ==
    /\ changes < MaxChanges /\ changes' = changes + 1
    /\ \E s \in Ran(rt.sources) :
         \/ \E c \in rt.holds : c # src[s].holds /\ src' = [src EXCEPT ![s].holds = c]
         \/ src' = [src EXCEPT ![s].up = ~@]
    /\ UNCHANGED <<rt, table, array, load, look, life>>

\* Close: no more reloads, and none of redis and http in the one in progress.
\* (The next tick may still win over the end.)  Requests that hold the table go
\* on with it.
CloseTable ==
    /\ rt.closes /\ life = "open"
    /\ life' = "closed"
    /\ UNCHANGED <<rt, src, table, array, load, look, changes>>

-----------------------------------------------------------------------------
(* Lookups.                                                                *)

StartLook ==
    /\ rt.sources # <<>> /\ look.at = "idle" /\ life # "crashed"
    /\ Table.first => table # NoTable
    /\ look' = [NoLook EXCEPT !.at = Finding, !.t = table, !.covered = Match(Items(table)),
                              !.overrun = load.at = "install" /\ Room]
    /\ UNCHANGED <<rt, src, table, array, load, life, changes>>

Ends(found) == look' = [look EXCEPT !.at = "end", !.found = found]

FindOnce ==
    /\ look.at = "once" /\ life # "crashed"
    /\ Ends(Match(Items(table)))
    /\ UNCHANGED <<rt, src, table, array, load, life, changes>>

FindExact ==
    /\ look.at = "twice" /\ life # "crashed"
    /\ IF "exact" \in Ran(Items(table)) THEN Ends(TRUE)
       ELSE look' = [look EXCEPT !.at = "wild", !.torn = FALSE]
    /\ UNCHANGED <<rt, src, table, array, load, life, changes>>

FindWild ==
    /\ look.at = "wild" /\ life # "crashed"
    /\ Ends("wild" \in Ran(Items(table)))
    /\ UNCHANGED <<rt, src, table, array, load, life, changes>>

\* Mutant: the next rule of the table in force now.
WalkLive ==
    /\ look.at = "walk" /\ life # "crashed"
    /\ LET items == Items(table)
           i == look.i + 1
       IN IF i > Len(items) THEN Ends(FALSE)
          ELSE IF items[i] \in {"exact", "wild"} THEN Ends(TRUE)
          ELSE look' = [look EXCEPT !.i = i]
    /\ UNCHANGED <<rt, src, table, array, load, life, changes>>
\* The next rule of the table the lookup began with; a nil route is looked into.
Walk ==
    /\ look.at = "walk" /\ life # "crashed"
    /\ LET items == Items(look.t)
           i == look.i + 1
       IN IF i > Len(items) THEN Ends(FALSE) /\ UNCHANGED life
          ELSE IF items[i] \in {"exact", "wild"} THEN Ends(TRUE) /\ UNCHANGED life
          ELSE IF items[i] = "blank" THEN life' = "crashed" /\ UNCHANGED look
          ELSE look' = [look EXCEPT !.i = i] /\ UNCHANGED life
    /\ UNCHANGED <<rt, src, table, array, load, changes>>

EndLook ==
    /\ look.at = "end"
    /\ look' = NoLook
    /\ UNCHANGED <<rt, src, table, array, load, life, changes>>

-----------------------------------------------------------------------------
\* What RuleTables is when another part of the service is looked at.
RulesIdle ==
    /\ rt = [kind |-> "bypass", sources |-> <<>>, inline |-> <<>>, spare |-> 0,
             period |-> FALSE, closes |-> FALSE, holds |-> {}]
    /\ src = <<>> /\ table = NoTable /\ array = <<>> /\ look = NoLook
    /\ load = [NoLoad EXCEPT !.at = "stopped"] /\ life = "open" /\ changes = 0

LoadStep == StartLoad \/ ReadSource \/ Gather \/ Install
LookStep == StartLook \/ FindOnce \/ FindExact \/ FindWild \/ Walk \/ EndLook

RulesNext == LoadStep \/ LookStep \/ ChangeSource \/ CloseTable

\* The goroutine of the reload runs, and every period passes.
RulesFairness == WF_rvars(LoadStep)

-----------------------------------------------------------------------------
\* CoveredIsFound: a request whose name some rule matches, in every table that
\* was in force while it was looked up, finds a rule, however reloads fall into
\* the lookup: between two looks under the lock (hosts, ingress) or while the
\* rules are gone through without it (router, hop).  Unless the table was
\* replaced between the two looks, by one that has the other rule; and unless
\* the loaded rules were written over those being gone through.
CoveredIsFound ==
    look.at = "end" /\ look.covered /\ ~look.found =>
       \/ Finding = "twice" /\ look.torn
       \/ Finding = "walk" /\ look.overrun

\* What the table should come to hold.
Wanted(ss) ==
    LET W[i \in 0..Len(ss)] ==
          IF i = 0 THEN <<>>
          ELSE W[i - 1]
               \o (IF src[ss[i]].up THEN Without(src[ss[i]].holds, "blank") ELSE <<>>)
    IN W[Len(ss)]

\* CatchesUp: with a period, the table of a source that changes, fails or comes
\* back holds, in the end, what the sources hold that answer, whatever failed
\* before.  An auther waits until all of them answer, and a bypass keeps the
\* last rules it had when none are left.
CatchesUp ==
    <>[](\/ rt.sources = <<>> \/ ~rt.period \/ life # "open"
         \/ Loading.failing = "keeps" /\ \E s \in DOMAIN src : ~src[s].up
         \/ ~Table.empty /\ rt.inline \o Wanted(rt.sources) = <<>>
         \/ Without(Items(table), "blank") = rt.inline \o Wanted(rt.sources))
=============================================================================
