------------------------------ MODULE MCChain ------------------------------
(* Two hops: a1, a2, a3 and then b1, b2; two concurrent calls.             *)
EXTENDS Chain

MCNodes == {"a1", "a2", "a3", "b1", "b2"}

MCHopOf == [n \in MCNodes |-> IF n \in {"a1", "a2", "a3"} THEN 1 ELSE 2]

MCAdmits == [c \in Clients |-> MCNodes]

(* What a probe asks besides the node.                                     *)
MCTest == [n \in MCNodes |-> IF n = "a1" THEN "page" ELSE "command"]

Flat == [n \in MCNodes |-> 0]

(* Equal nodes, one of them a backup; one of each hop may be down.         *)
Equal ==
    [nodes |-> {"a1", "a2", "b1", "b2"}, backup |-> {"b2"}, mux |-> {},
     priority |-> Flat, retries |-> 2, probed |-> {"a1"}, http |-> {}, cmd |-> {},
     unstable |-> {"a1", "b1"}, maxFlips |-> 0]

(* A probed multiplexing node behind two equal ones.                       *)
Muxed ==
    [nodes |-> {"a1", "a2", "b1"}, backup |-> {}, mux |-> {"b1"},
     priority |-> Flat, retries |-> 0, probed |-> {"b1"}, http |-> {}, cmd |-> {},
     unstable |-> {"a1"}, maxFlips |-> 0]

(* A multiplexing node that goes down, or comes back, under a session.     *)
Severed ==
    [nodes |-> {"a1", "b1"}, backup |-> {}, mux |-> {"b1"},
     priority |-> Flat, retries |-> 1, probed |-> {}, http |-> {}, cmd |-> {},
     unstable |-> {"b1"}, maxFlips |-> 1]

(* A preferred backup above two primaries.                                 *)
Tiered ==
    [nodes |-> {"a1", "a2", "a3", "b1"}, backup |-> {"a1"}, mux |-> {},
     priority |-> [Flat EXCEPT !["a1"] = 2], retries |-> 1,
     probed |-> {}, http |-> {}, cmd |-> {},
     unstable |-> {"a2", "a3"}, maxFlips |-> 0]

(* A preferred primary: the selector is skipped.  The target and the       *)
(* resolver may fail, too.                                                 *)
Preferred ==
    [nodes |-> {"a1", "a2", "b1"}, backup |-> {}, mux |-> {},
     priority |-> [Flat EXCEPT !["a1"] = 1], retries |-> 1,
     probed |-> {}, http |-> {}, cmd |-> {},
     unstable |-> {"a1", Target, Resolver}, maxFlips |-> 1]

(* A node that is probed by HTTP: it may answer and the page not.          *)
Paged ==
    [nodes |-> {"a1", "a2", "b1"}, backup |-> {}, mux |-> {},
     priority |-> Flat, retries |-> 1, probed |-> {"a1"}, http |-> {"a1"}, cmd |-> {},
     unstable |-> {"a1", "page"}, maxFlips |-> 0]

(* A node that is probed by a command, which may fail while it answers and *)
(* succeed while it is down.                                               *)
Commanded ==
    [nodes |-> {"a1", "a2", "b1"}, backup |-> {}, mux |-> {},
     priority |-> Flat, retries |-> 1, probed |-> {"a2"}, http |-> {}, cmd |-> {"a2"},
     unstable |-> {"a2", "command"}, maxFlips |-> 0]

MCConfigs == {Equal, Muxed, Severed, Tiered, Preferred, Paged, Commanded}

MuxedOnly == {Muxed}
=============================================================================
