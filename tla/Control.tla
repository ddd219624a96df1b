------------------------------- MODULE Control -------------------------------
(***************************************************************************)
(* The control plane: the web API that creates, updates and deletes the    *)
(* components of a running process (api/config_*.go), the registry they    *)
(* live in (registry), the global configuration that lists them (config),  *)
(* and the reload that replaces all of them (api/config_reload.go and      *)
(* config/loader).                                                         *)
(*                                                                         *)
(* The handlers run concurrently and take no common lock: the registry and *)
(* the configuration are each consistent, the pair is not.  A handler is a *)
(* program, a sequence of steps between which other handlers may run.  The *)
(* eighteen kinds of component have handlers of three shapes; a behaviour  *)
(* follows one kind, whose registry and list no other kind touches.        *)
(*                                                                         *)
(* An object is what a parser returns: it is built with the configuration  *)
(* of its request, numbered 1, 2, ... in the order of the requests.  For a *)
(* service it holds the listening address of its name.                     *)
(***************************************************************************)
EXTENDS Integers, Sequences, FiniteSets, SequencesExt, Lists

CONSTANTS
  NameOrder,   \* names of components, each with an address of its own
  Situations,  \* a kind, the names requests are about, the names the file may
               \* list, and bounds on configurations submitted and reloads
  Slots,       \* API requests served concurrently
  MaxObjs      \* the largest of those bounds on configurations

Names == ToSet(NameOrder)
Objs == 1..MaxObjs
-----------------------------------------------------------------------------
(* The handlers of each kind, as programs.                                 *)

\* Mutant: an update does not unregister the old object.
ManagedNoUnregister(parse) ==
  [create |-> <<"absent", parse, "register", "append">>,
   update |-> <<"present", parse, "register", "replace">>,
   delete |-> <<"present", "unload", "delete", "filter">>]

\* createX, updateX and deleteX of a kind whose parser cannot fail, or can.
Managed(parse) ==
  [create |-> <<"absent", parse, "register", "append">>,
   update |-> <<"present", parse, "unload", "delete", "register", "replace">>,
   delete |-> <<"present", "unload", "delete", "filter">>]

Auther == Managed("parse")
Admission == Managed("parse")
Bypass == Managed("parse")
Hosts == Managed("parse")
Ingress == Managed("parse")
Router == Managed("parse")
SD == Managed("parse")
Observer == Managed("parse")
Recorder == Managed("parse")
Limiter == Managed("parse")
ConnLimiter == Managed("parse")
RateLimiter == Managed("parse")
Quota == Managed("parse")

\* A nil cache is refused like a parser's error.
Cache == Managed("tryparse")
Resolver == Managed("tryparse")
Hop == Managed("tryparse")
Chain == Managed("tryparse")

\* Mutant: an updated service is not served.
ServiceNotServed ==
  [create |-> <<"absent", "build", "registerOrClose", "serve", "append">>,
   update |-> <<"fetch", "close", "build", "unload", "delete",
                "registerOrClose", "replace">>,
   delete |-> <<"fetch", "unload", "delete", "close", "filter">>]

\* Building a service binds its address, so an update closes the old first.
Service ==
  [create |-> <<"absent", "build", "registerOrClose", "serve", "append">>,
   update |-> <<"fetch", "close", "build", "unload", "delete",
                "registerOrClose", "serve", "replace">>,
   delete |-> <<"fetch", "unload", "delete", "close", "filter">>]

API ==
  [auther |-> Auther, admission |-> Admission, bypass |-> Bypass,
   hosts |-> Hosts, ingress |-> Ingress, router |-> Router, sd |-> SD,
   observer |-> Observer, recorder |-> Recorder, limiter |-> Limiter,
   climiter |-> ConnLimiter, rlimiter |-> RateLimiter, quota |-> Quota,
   cache |-> Cache, resolver |-> Resolver, hop |-> Hop, chain |-> Chain,
   service |-> Service]

\* Every kind has the handlers of one that is explored.
ASSUME KindsAssumption ==
  /\ \A t \in Situations : t.kind \in DOMAIN API
  /\ \A k \in DOMAIN API : \E t \in Situations : API[k] = API[t.kind]

ASSUME NamesAssumption ==
  /\ NameOrder \in Seq(Names)
  /\ \A i, j \in 1..Len(NameOrder) : NameOrder[i] = NameOrder[j] => i = j

ASSUME BoundsAssumption ==
  /\ MaxObjs \in Nat
  /\ \A t \in Situations : /\ t.names \cup t.file \subseteq Names
                           /\ t.objs \in 0..MaxObjs
                           /\ t.reloads \in Nat

Step(op, n) == [op |-> op, name |-> n]

Steps(program, n) == [i \in DOMAIN program |-> Step(program[i], n)]

\* For each of the names, the steps in turn.
ForEach(names, ops) ==
  [i \in 1..(Len(names) * Len(ops)) |->
     Step(ops[((i - 1) % Len(ops)) + 1], names[((i - 1) \div Len(ops)) + 1])]

NoName == "none"

\* The order in which a map is ranged over, and a file lists its entries.
Ordered(S) == Keep(NameOrder, S)

\* registerGroup: parse every entry, unregister all, register every entry.
LoadGroup(parse, names) ==
  ForEach(names, <<parse>>) \o <<Step("snapshot", NoName)>>
    \o ForEach(names, <<"register">>)

\* Services are unregistered before the first is built.
LoadServices(names) ==
  <<Step("snapshot", NoName)>> \o ForEach(names, <<"build", "register">>)

Load(k, names) ==
  <<Step("set", NoName), Step("groups", NoName)>>
    \o (IF k = "service" THEN LoadServices(names)
        ELSE IF k = "cache" THEN LoadGroup("parse", names)
        ELSE LoadGroup(API[k].create[2], names))
    \o <<Step("serveAll", NoName)>>
-----------------------------------------------------------------------------
VARIABLES
  sit,       \* the situation of this behaviour
  next,      \* the number of the next configuration
  nameOf,    \* the name each configuration is for
  obj,       \* objects: none, open, closed, or leaked: open with no holder
  loops,     \* Serve loops running on each service
  registry,  \* the object registered under each name; 0 for none
  list,      \* the global configuration: names and configurations, in order
  req,       \* the request of each slot
  reloads,   \* how many reloads so far
  raced,     \* names that two requests have worked on at the same time
  spoiled,   \* names whose service was closed by an update that then failed
  broken     \* a reload has failed

data == <<next, nameOf, obj, loops, registry, list, reloads>>
kind == sit.kind
history == <<raced, spoiled, broken>>
vars == <<sit, data, req, history>>

Entry(o) == [name |-> nameOf[o], conf |-> o]
NoObjs == [n \in Names |-> 0]
NoRequest == [op |-> "none", todo |-> <<>>, new |-> NoObjs, old |-> 0]

ControlInit(sits) ==
  /\ sit \in sits
  /\ next = 1
  /\ nameOf = [o \in Objs |-> NoName]
  /\ obj = [o \in Objs |-> "none"]
  /\ loops = [o \in Objs |-> 0]
  /\ registry = NoObjs
  /\ list = <<>>
  /\ req = [s \in Slots |-> NoRequest]
  /\ reloads = 0
  /\ raced = {} /\ spoiled = {} /\ broken = FALSE

Init == ControlInit(Situations)

-----------------------------------------------------------------------------
(* A request arrives.                                                      *)

Busy(s) == req[s].todo # <<>>

\* A reload works on every name.
Touches(s, n) ==
  Busy(s) /\ (req[s].op = "reload" \/ Head(req[s].todo).name = n)

Overlapping(names) == {n \in names : \E s \in Slots : Touches(s, n)}

\* The body of a create or an update, or the file of a reload, is parsed.
Submit(names) ==
  /\ next + Len(names) <= sit.objs + 1
  /\ next' = next + Len(names)
  /\ nameOf' = [o \in Objs |-> IF o \in next..(next + Len(names) - 1)
                               THEN names[o - next + 1] ELSE nameOf[o]]

Numbered(names) ==
  [n \in Names |-> IF n \in ToSet(names)
                   THEN next + (CHOOSE i \in DOMAIN names : names[i] = n) - 1
                   ELSE 0]

Request(s, op, n) ==
  /\ ~Busy(s)
  /\ Submit(IF op = "delete" THEN <<>> ELSE <<n>>)
  /\ req' = [req EXCEPT ![s] =
               [op |-> op, todo |-> Steps(API[kind][op], n), old |-> 0,
                new |-> Numbered(IF op = "delete" THEN <<>> ELSE <<n>>)]]
  /\ raced' = raced \cup Overlapping({n})
  /\ UNCHANGED <<sit, obj, loops, registry, list, reloads, spoiled, broken>>

\* reloadConfig: the file lists some of the names, each once.
ReloadConfig(s, names) ==
  /\ ~Busy(s)
  /\ reloads < sit.reloads
  /\ reloads' = reloads + 1
  /\ Submit(names)
  /\ req' = [req EXCEPT ![s] = [op |-> "reload", todo |-> Load(kind, names),
                                new |-> Numbered(names), old |-> 0]]
  /\ raced' = raced \cup Overlapping(Names)
  /\ UNCHANGED <<sit, obj, loops, registry, list, spoiled, broken>>
-----------------------------------------------------------------------------
(* The steps.                                                              *)

At(s, op) == Busy(s) /\ Head(req[s].todo).op = op
Name(s) == Head(req[s].todo).name
New(s) == req[s].new[Name(s)]

\* What remains of request s after r, its record; the last step answers it.
Remaining(r) == IF r.todo = <<>> THEN NoRequest ELSE r

Advance(s) == [req EXCEPT ![s] = Remaining([@ EXCEPT !.todo = Tail(@)])]

\* writeError and return.
Fail(s) ==
  /\ req' = [req EXCEPT ![s] = NoRequest]
  /\ spoiled' = IF req[s].op = "update" /\ req[s].old # 0
                THEN spoiled \cup {Name(s)} ELSE spoiled
  /\ broken' = (broken \/ req[s].op = "reload")

\* registry.IsRegistered, before a create and before an update or delete.
CheckAbsent(s) ==
  /\ At(s, "absent")
  /\ \/ registry[Name(s)] = 0 /\ req' = Advance(s) /\ UNCHANGED <<spoiled, broken>>
     \/ registry[Name(s)] # 0 /\ Fail(s)
  /\ UNCHANGED <<sit, data, raced>>

CheckPresent(s) ==
  /\ At(s, "present")
  /\ \/ registry[Name(s)] # 0 /\ req' = Advance(s) /\ UNCHANGED <<spoiled, broken>>
     \/ registry[Name(s)] = 0 /\ Fail(s)
  /\ UNCHANGED <<sit, data, raced>>

\* registry.Get: the service to be closed.
Fetch(s) ==
  /\ At(s, "fetch")
  /\ \/ /\ registry[Name(s)] # 0
        /\ req' = [req EXCEPT ![s] = [@ EXCEPT !.old = registry[Name(s)],
                                               !.todo = Tail(@)]]
        /\ UNCHANGED <<spoiled, broken>>
     \/ registry[Name(s)] = 0 /\ Fail(s)
  /\ UNCHANGED <<sit, data, raced>>

Closed(o) == [obj EXCEPT ![o] = "closed"]

\* old.Close() in updateService, svc.Close() in deleteService.
CloseFetched(s) ==
  /\ At(s, "close")
  /\ obj' = Closed(req[s].old)
  /\ req' = Advance(s)
  /\ UNCHANGED <<sit, reloads, next, nameOf, loops, registry, list, history>>

Open(s) ==
  /\ obj' = [obj EXCEPT ![New(s)] = "open"]
  /\ req' = Advance(s)
  /\ UNCHANGED <<spoiled, broken>>

\* The parser of a kind other than service.
Parse(s) ==
  /\ At(s, "parse") \/ At(s, "tryparse")
  /\ \/ Open(s)
     \/ At(s, "tryparse") /\ Fail(s) /\ UNCHANGED obj
  /\ UNCHANGED <<sit, reloads, next, nameOf, loops, registry, list, raced>>

InUse(n) == \E o \in Objs : nameOf[o] = n /\ obj[o] \in {"open", "leaked"}

\* ParseService fails on the listener's configuration, before it binds.
RejectedEarly(s) == Fail(s) /\ UNCHANGED obj

\* The listener cannot bind.
AddressTaken(s) ==
  /\ InUse(Name(s))
  /\ Fail(s)
  /\ UNCHANGED obj

\* ParseService fails on the handler's configuration, its forwarder or its
\* Init: the deferred function closes the routers, not the bound listener.
RejectedLate(s) ==
  /\ ~InUse(Name(s))
  /\ Fail(s)
  /\ obj' = [obj EXCEPT ![New(s)] = "leaked"]

Build(s) ==
  /\ At(s, "build")
  /\ \/ ~InUse(Name(s)) /\ Open(s)
     \/ RejectedEarly(s) \/ AddressTaken(s) \/ RejectedLate(s)
  /\ UNCHANGED <<sit, reloads, next, nameOf, loops, registry, list, raced>>

\* registry.Unregister: load and close what is there ...
Unload(s) ==
  /\ At(s, "unload")
  /\ \/ /\ registry[Name(s)] # 0
        /\ obj' = Closed(registry[Name(s)])
        /\ req' = Advance(s)
     \/ /\ registry[Name(s)] = 0
        /\ req' = [req EXCEPT ![s] = Remaining([@ EXCEPT !.todo = Tail(Tail(@))])]
        /\ UNCHANGED obj
  /\ UNCHANGED <<sit, reloads, next, nameOf, loops, registry, list, history>>

\* ... and delete the name, whatever it holds by now.
Delete(s) ==
  /\ At(s, "delete")
  /\ registry' = [registry EXCEPT ![Name(s)] = 0]
  /\ req' = Advance(s)
  /\ UNCHANGED <<sit, reloads, next, nameOf, obj, loops, list, history>>

\* registry.Register; only the service handlers close what was refused.
Register(s) ==
  /\ At(s, "register") \/ At(s, "registerOrClose")
  /\ \/ /\ registry[Name(s)] = 0
        /\ registry' = [registry EXCEPT ![Name(s)] = New(s)]
        /\ req' = Advance(s)
        /\ spoiled' = spoiled \ {Name(s)}
        /\ UNCHANGED <<obj, broken>>
     \/ /\ registry[Name(s)] # 0
        /\ Fail(s)
        /\ obj' = IF At(s, "registerOrClose") THEN Closed(New(s)) ELSE obj
        /\ UNCHANGED registry
  /\ UNCHANGED <<sit, reloads, next, nameOf, loops, list, raced>>

\* config.OnUpdate of a create, an update and a delete.
Append1(s) == Append(list, Entry(New(s)))
\* Mutant: an update appends.
ReplacedAppended(s) == Append(list, Entry(New(s)))

Replaced(s) ==
  LET at == {i \in DOMAIN list : list[i].name = Name(s)}
  IN IF at = {} THEN list ELSE [list EXCEPT ![Min(at)] = Entry(New(s))]
Filtered(s) == Keep(list, {e \in ToSet(list) : e.name # Name(s)})

OnUpdate(s) ==
  /\ \/ At(s, "append") /\ list' = Append1(s)
     \/ At(s, "replace") /\ list' = Replaced(s)
     \/ At(s, "filter") /\ list' = Filtered(s)
  /\ req' = Advance(s)
  /\ UNCHANGED <<sit, reloads, next, nameOf, obj, loops, registry, history>>

\* go svc.Serve()
Serve(s) ==
  /\ At(s, "serve")
  /\ loops' = [loops EXCEPT ![New(s)] = @ + 1]
  /\ req' = Advance(s)
  /\ UNCHANGED <<sit, reloads, next, nameOf, obj, registry, list, history>>

\* config.Set, before anything is loaded.
SetConfig(s) ==
  /\ At(s, "set")
  /\ list' = LET names == Ordered({n \in Names : req[s].new[n] # 0})
             IN [i \in DOMAIN names |-> Entry(req[s].new[names[i]])]
  /\ req' = Advance(s)
  /\ UNCHANGED <<sit, reloads, next, nameOf, obj, loops, registry, history>>

\* The TLS settings and the groups loaded before this kind: one may fail.
LoadOthers(s) ==
  /\ At(s, "groups")
  /\ \/ req' = Advance(s) /\ UNCHANGED <<spoiled, broken>>
     \/ Fail(s)
  /\ UNCHANGED <<sit, data, raced>>

\* unregisterAll: one Unregister for each name GetAll returned.
UnregisterAll(s) ==
  /\ At(s, "snapshot")
  /\ LET names == Ordered({n \in Names : registry[n] # 0})
     IN req' = [req EXCEPT ![s].todo =
                  ForEach(names, <<"unload", "delete">>) \o Tail(@)]
  /\ UNCHANGED <<sit, data, history>>

\* The last loop of reloadConfig: serve whatever services are registered.
ServeAll(s) ==
  /\ At(s, "serveAll")
  /\ loops' = [o \in Objs |->
                 IF kind = "service" /\ \E n \in Names : registry[n] = o
                 THEN loops[o] + 1 ELSE loops[o]]
  /\ req' = Advance(s)
  /\ UNCHANGED <<sit, reloads, next, nameOf, obj, registry, list, history>>
-----------------------------------------------------------------------------
(* Outside the handlers.                                                   *)

\* Serve: the listener is closed, Accept fails and the loop returns.
ServeReturns(o) ==
  /\ loops[o] > 0
  /\ obj[o] = "closed"
  /\ loops' = [loops EXCEPT ![o] = @ - 1]
  /\ UNCHANGED <<sit, reloads, next, nameOf, obj, registry, list, req, history>>

\* A service that refers to an observer is closed, and closes with it the
\* observer registered under that name, which other services share.
CloseShared(n) ==
  /\ kind = "observer"
  /\ registry[n] # 0
  /\ obj' = Closed(registry[n])
  /\ UNCHANGED <<sit, reloads, next, nameOf, loops, registry, list, req, history>>

Handle(s) ==
  \/ CheckAbsent(s) \/ CheckPresent(s) \/ Fetch(s) \/ CloseFetched(s)
  \/ Parse(s) \/ Build(s) \/ Unload(s) \/ Delete(s) \/ Register(s)
  \/ OnUpdate(s) \/ Serve(s)
  \/ SetConfig(s) \/ LoadOthers(s) \/ UnregisterAll(s) \/ ServeAll(s)

Next ==
  \/ \E s \in Slots, op \in {"create", "update", "delete"}, n \in sit.names :
       Request(s, op, n)
  \/ \E s \in Slots, S \in SUBSET sit.file : ReloadConfig(s, Ordered(S))
  \/ \E s \in Slots : Handle(s)
  \/ \E o \in Objs : ServeReturns(o)
  \/ \E n \in Names : CloseShared(n)

Spec == Init /\ [][Next]_vars

\* A handler that has been started runs; so does an accept loop.
Fairness ==
  /\ \A s \in Slots : WF_vars(Handle(s))
  /\ \A o \in Objs : WF_vars(ServeReturns(o))

FairSpec == Spec /\ Fairness
-----------------------------------------------------------------------------
(* Properties.                                                             *)

Quiet(n) == \A s \in Slots : ~Touches(s, n)

\* Names the API has been used on one request at a time.
Orderly == Names \ raced

ConfOf(n) == {list[i].conf : i \in {j \in DOMAIN list : list[j].name = n}}

\* The configuration the API returns, and writes to a file on request, is the
\* one that is running: between requests a name is listed exactly when it is
\* registered, once, with the configuration of the registered object.  The
\* registry and config.OnUpdate are separate critical sections, so this needs
\* that no two requests overlapped on the name and that no reload failed
\* (config.Set comes before loader.Load).
ListMatchesRegistry ==
  \A n \in Orderly : Quiet(n) /\ ~broken =>
    /\ ConfOf(n) = {registry[n]} \ {0}
    /\ Cardinality({i \in DOMAIN list : list[i].name = n}) <= 1

Held(o) == \E s \in Slots : Touches(s, nameOf[o]) /\ o \in Range(req[s].new)

\* What is open is registered and what is registered is open: no object the API
\* builds, with its goroutines and its listening address, is lost, and no request
\* leaves a closed one behind.  An object may also be in the hands of a running
\* request.  Exempt are names two requests overlapped on, where Unregister can
\* delete the registration of another; a failed reload, which drops what it had
\* parsed; a service whose update failed after old.Close(); and an observer,
\* which any service that uses it closes.
RegisteredIffOpen ==
  /\ \A o \in Objs : obj[o] = "open" =>
       registry[nameOf[o]] = o \/ Held(o) \/ nameOf[o] \in raced \/ broken
  /\ \A n \in Orderly : Quiet(n) /\ registry[n] # 0 =>
       obj[registry[n]] = "open" \/ n \in spoiled \/ kind = "observer"

\* A registered service is served, or replaced, or closed, or the reload that
\* registered it failed before its last loop.
RegisteredIsServed ==
  \A o \in Objs :
    (kind = "service" /\ o \in Range(registry) /\ obj[o] = "open")
      ~> (loops[o] > 0 \/ o \notin Range(registry) \/ obj[o] # "open" \/ broken)
=============================================================================
