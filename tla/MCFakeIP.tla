------------------------------ MODULE MCFakeIP -------------------------------
(***************************************************************************)
(* Tables that are looked into while they change, in three parts that      *)
(* share no state, so that a behaviour exercises one of them and the       *)
(* others are idle: the pool of fake addresses, RuleTables with every kind *)
(* of table and every kind of source, and Resolver with its cache.         *)
(***************************************************************************)
EXTENDS FakeIP, RuleTables, Resolver

\* Two families: "4" has the prefix 0..3 written by its first address, "6" the
\* prefix 5..8 written by its third; 4 is outside.  "A" is another spelling of
\* the domain "a", and "a.." one of "a.", which is normalized to "a" again.

MCFamilies == {"4", "6"}
MCAddr == 0..8
MCLo == [f \in MCFamilies |-> IF f = "4" THEN 0 ELSE 5]
MCHi == [f \in MCFamilies |-> IF f = "4" THEN 3 ELSE 8]
MCBase == [f \in MCFamilies |-> IF f = "4" THEN 0 ELSE 7]
MCDomains == {"a", "b", "c", "a."}
MCNames == MCDomains \cup {"A", "a..", ""}
MCNorm == [n \in MCNames |-> CASE n \in {"A", "a."} -> "a" [] n = "a.." -> "a." [] OTHER -> n]

\* Snapshots to load: any two entries of a list with every kind of mistake,
\* with and without cursors, and one for other prefixes.
MaxEntries == 2
Entry(n, x) == [name |-> n, addr |-> x]
GivenEntries ==
  {Entry("A", 2), Entry("b", 2), Entry("a", 3), Entry("b", 6), Entry("c", 8),
   Entry("c", 5), Entry("", 3), Entry("c", 4)}
Cursors(x, y) == [f \in MCFamilies |-> IF f = "4" THEN x ELSE y]
MCGiven ==
  {[match |-> TRUE, cur |-> Cursors(x, y), entries |-> es] :
     x \in {-1, 2}, y \in {-1, 6},
     es \in {s \in SUBSET GivenEntries : Cardinality(s) <= MaxEntries}}
  \cup {[match |-> FALSE, cur |-> Cursors(-1, -1), entries |-> {}]}
-----------------------------------------------------------------------------
(* A table of rules: its sources, what the configuration lists, the room   *)
(* left in that slice, and what the sources come to hold.                  *)

Rules(kind, sources, inline, spare, period, closes, holds) ==
    [kind |-> kind, sources |-> sources, inline |-> inline, spare |-> spare,
     period |-> period, closes |-> closes, holds |-> holds]

Wide == {<<>>, <<"exact">>, <<"wild">>, <<"other", "exact">>, <<"blank">>}
Orders == {<<"exact", "other">>, <<"other", "exact">>, <<"wild">>}
Narrow == {<<>>, <<"exact">>, <<"wild">>}

MCTableConfs ==
    {Rules(k, <<"file">>, <<>>, 0, TRUE, FALSE, Wide) :
         k \in {"bypass", "admission", "hosts", "ingress", "router", "auther", "rate", "conn"}}
    \cup {Rules("hop",    <<"http">>, <<"other">>, 2, TRUE, FALSE, Orders),
          Rules("router", <<"set">>,  <<"other">>, 2, TRUE, TRUE, Orders),
          Rules("auther", <<"file", "hash">>,   <<"wild">>,  0, TRUE, FALSE, Narrow),
          Rules("hosts",  <<"string", "http">>, <<"other">>, 0, TRUE, TRUE, Narrow),
          Rules("bypass", <<"list">>, <<"wild">>, 0, FALSE, TRUE, Narrow)}

-----------------------------------------------------------------------------
(* A resolver or DNS handler: its nameservers, the network each caller     *)
(* asks for, the families each server has nothing of, and the bound.       *)

Server(async, ttl, only, prefer) == [async |-> async, ttl |-> ttl, only |-> only, prefer |-> prefer]
Plain == Server(FALSE, "some", "", "")
Handles(local, async, wants, n) ==
    [who |-> "handler", local |-> local, servers |-> <<Server(async, "some", "", "")>>,
     wants |-> wants, empty |-> <<{}>>, changes |-> n]
Resolves(servers, wants, empty, n) ==
    [who |-> "resolver", local |-> FALSE, servers |-> servers, wants |-> wants,
     empty |-> empty, changes |-> n]

MCResolverConfs ==
    {Handles(FALSE, a, <<"4", "4">>, 2) : a \in BOOLEAN}
    \cup {Handles(TRUE, FALSE, <<"4">>, 0),
          Resolves(<<Plain>>, <<"4", "4">>, <<{}>>, 2),
          Resolves(<<Plain, Server(FALSE, "some", "6", "4")>>, <<"">>, <<{}, {}>>, 2),
          Resolves(<<Server(FALSE, "never", "", "6"), Plain>>, <<"", "">>, <<{}, {}>>, 1)}
    \cup {Resolves(<<Server(a, "some", "", "")>>, <<w, "">>, <<{}>>, 1) :
             a \in BOOLEAN, w \in {"4", "6"}}
    \cup {Resolves(<<Server(t # "never", t, "", ""), Plain>>, <<"">>, <<e, {}>>, 2) :
             t \in {"some", "never"}, e \in {{}, {"4"}}}

-----------------------------------------------------------------------------
\* A pool without prefixes, of which nobody asks.
FakeIPIdle == Init /\ configured = {}

MCInit ==
    \/ Init /\ RulesIdle /\ ResolverIdle
    \/ FakeIPIdle /\ RulesInit(TableConfs) /\ ResolverIdle
    \/ FakeIPIdle /\ RulesIdle /\ ResolverInit(ResolverConfs)

MCNext ==
    \/ RulesIdle /\ ResolverIdle /\ Next /\ UNCHANGED <<rvars, svars>>
    \/ RulesNext /\ UNCHANGED <<vars, svars>>
    \/ ResolverNext /\ UNCHANGED <<vars, rvars>>

MCSpec ==
    MCInit /\ [][MCNext]_<<vars, rvars, svars>> /\ RulesFairness /\ ResolverFairness
=============================================================================
