-------------------------------- MODULE Quota --------------------------------
(***************************************************************************)
(* A named, persisted traffic quota (limiter/quota), shared by services    *)
(* through the registry, and everything that touches it concurrently:      *)
(*   - the accept loops parked by quotaListener.Accept;                    *)
(*   - the connections counted by quotaConn.Read / Write;                  *)
(*   - the limiter's own goroutine, Limiter.run;                           *)
(*   - the API handlers that reset, replace, create and delete the quota;  *)
(*   - a restart of the process, which keeps only the store's file, whose  *)
(*     last write may have failed.                                         *)
(*                                                                         *)
(* One quota name is modelled.  A Limiter is heap-allocated, so replacing  *)
(* the quota makes a new generation g while goroutines still hold the old  *)
(* one.  Each action is a stretch of code between two accesses to shared   *)
(* state that another goroutine can observe.  The only caller of           *)
(* Limiter.Update passes the field Used alone, so the limit, window and    *)
(* direction of a generation (lim[g].conf) never change.                   *)
(***************************************************************************)
EXTENDS Integers, FiniteSets

CONSTANTS
  Services,     \* accept loops whose listener is wrapped with this quota
  Conns,        \* connections wrapped with this quota
  Admins,       \* concurrent API requests
  Configs,      \* quota configurations an API request may install
  InitConfig,   \* the quota configured when the process starts
  ResetValues,  \* values a reset request may write to the counter
  MaxChunk,     \* most bytes one Read or Write moves
  MaxGen,       \* bound: limiters allocated by one process
  MaxTime,      \* bound: the clock
  MaxUsed,      \* bound: the byte counter
  MaxOps,       \* bound: API requests
  MaxRestarts,  \* bound: restarts of the process
  MaxFailures   \* bound: writes of the store's file that fail

Gens == 1..MaxGen
Config == [limit : Nat, startsAt : Nat, expiresAt : Nat,
           direction : {"total", "in", "out"}]

ASSUME ConstantsAssumption ==
  /\ InitConfig \in Config
  /\ Configs \subseteq Config
  /\ ResetValues \subseteq Nat
  /\ IsFiniteSet(Conns)
  /\ MaxChunk \in Nat \ {0} /\ MaxGen \in Nat \ {0} /\ MaxTime \in Nat
  /\ MaxUsed \in Nat /\ MaxOps \in Nat /\ MaxRestarts \in Nat
  /\ MaxFailures \in Nat

VARIABLES
  now,       \* the clock
  nextGen,   \* the next Limiter to be allocated
  lim,       \* Limiter, by generation; waitCh counts the channels replaced
  registry,  \* the limiter registered under the name; 0 for none
  store,     \* the record in the memory of the file store
  disk,      \* the record in its file
  run,       \* Limiter.run: pc, wasActive, the value and record in flight
  acc,       \* quotaListener.Accept: pc, lim, ch; done is ln.done
  conn,      \* quotaConn.Read/Write and Limiter.add: pc, lim, bytes or sum
  adm,       \* an API request: pc, old and new limiter, values in flight
  ops, restarts, failures   \* API requests, restarts and failed writes so far

procs == <<run, acc, conn, adm>>
bounds == <<ops, restarts>>
file == <<disk, failures>>
vars == <<now, nextGen, lim, registry, store, procs, bounds, file>>

Record == [used : Nat, startsAt : Int, expiresAt : Int]
NoRecord == [used |-> 0, startsAt |-> -1, expiresAt |-> -1]
Limiter == [conf : Config, used : Nat, dirty : BOOLEAN, closed : BOOLEAN,
            waitCh : Nat, blocked : BOOLEAN]
Runner == [pc : {"none", "start", "loop", "store", "notify", "read", "save",
                 "done"},
           was : BOOLEAN, val : BOOLEAN, rec : Record]
Acceptor == [pc : {"idle", "waitchan", "check", "parked", "inner", "closed"},
             lim : 0..MaxGen, ch : Nat, done : BOOLEAN]
Connection == [pc : {"idle", "io", "count", "dirty", "block"},
               lim : 0..MaxGen, sum : Nat]
Request == [pc : {"idle", "reset", "eval", "store", "notify", "flush", "read",
                  "save", "unregister", "cnotify", "delete", "register"},
            lim : 0..MaxGen, new : 0..MaxGen, val : BOOLEAN, rec : Record,
            closing : BOOLEAN]
-----------------------------------------------------------------------------
(* Limiter: what its methods evaluate.                                     *)

\* Limiter.active at time t: the window [startsAt, expiresAt), 0 when unset.
InWindow(c, t) ==
  /\ c.startsAt # 0 => t >= c.startsAt
  /\ c.expiresAt # 0 => t < c.expiresAt

Active(g) == InWindow(lim[g].conf, now)

Enforcing(g) == lim[g].conf.limit > 0 /\ Active(g)

Exhausted(g) == Enforcing(g) /\ lim[g].used >= lim[g].conf.limit

Blocked(g) == ~lim[g].closed /\ lim[g].blocked /\ Enforcing(g)

\* The direction filter of Limiter.add.
Counts(g, dir) == lim[g].conf.direction \in {"total", dir}

\* Limiter.persist: the record it builds.
RecordOf(g) == [used |-> lim[g].used, startsAt |-> lim[g].conf.startsAt,
                expiresAt |-> lim[g].conf.expiresAt]

\* NewLimiter: the counter is restored only within the same window.
Restored(c, rec) ==
  IF rec.startsAt = c.startsAt /\ rec.expiresAt = c.expiresAt
  THEN rec.used ELSE 0

\* Mutant: the restored counter is not compared with the limit.
NewLimiterOpen(c, rec, t) ==
  [conf |-> c, used |-> Restored(c, rec), dirty |-> FALSE, closed |-> FALSE,
   waitCh |-> 0, blocked |-> FALSE]

\* NewLimiter at time t, the store holding rec.
NewLimiter(c, rec, t) ==
  LET u == Restored(c, rec) IN
  [conf |-> c, used |-> u, dirty |-> FALSE, closed |-> FALSE, waitCh |-> 0,
   blocked |-> c.limit > 0 /\ InWindow(c, t) /\ u >= c.limit]

\* A handler allocates generation nextGen; "go l.run()" starts its goroutine.
Allocate(c) ==
  /\ nextGen <= MaxGen
  /\ nextGen' = nextGen + 1
  /\ lim' = [lim EXCEPT ![nextGen] = NewLimiter(c, store, now)]
  /\ run' = [run EXCEPT ![nextGen].pc = "start"]

\* Limiter.notify: close the channel and replace it.
Notify(g) == lim' = [lim EXCEPT ![g].waitCh = @ + 1]

\* Limiter.block: no wakeup, parking only happens on the next Accept.
Block(g) == lim' = [lim EXCEPT ![g].blocked = TRUE]
-----------------------------------------------------------------------------
(* Limiter.run, the goroutine of generation g.                             *)

RunStart(g) ==
  /\ run[g].pc = "start"
  /\ run' = [run EXCEPT ![g] = [@ EXCEPT !.pc = "loop", !.was = Active(g)]]
  /\ UNCHANGED <<now, nextGen, lim, registry, store, acc, conn, adm, bounds, file>>

\* case <-flushT.C: swap the dirty flag, persist if it was set.
RunFlushTick(g) ==
  /\ run[g].pc = "loop"
  /\ lim[g].dirty
  /\ lim' = [lim EXCEPT ![g].dirty = FALSE]
  /\ run' = [run EXCEPT ![g].pc = "read"]
  /\ UNCHANGED <<now, nextGen, registry, store, acc, conn, adm, bounds, file>>

\* case <-boundT.C: act when the window opened or closed since the last tick.
RunBoundTick(g) ==
  /\ run[g].pc = "loop"
  /\ Active(g) # run[g].was
  /\ run' = [run EXCEPT ![g] = [@ EXCEPT !.pc = "store", !.was = Active(g),
                                         !.val = Exhausted(g)]]
  /\ UNCHANGED <<now, nextGen, lim, registry, store, acc, conn, adm, bounds, file>>

RunBlockedStore(g) ==
  /\ run[g].pc = "store"
  /\ lim' = [lim EXCEPT ![g].blocked = run[g].val]
  /\ run' = [run EXCEPT ![g] = [@ EXCEPT !.pc = "notify", !.val = FALSE]]
  /\ UNCHANGED <<now, nextGen, registry, store, acc, conn, adm, bounds, file>>

RunNotify(g) ==
  /\ run[g].pc = "notify"
  /\ Notify(g)
  /\ run' = [run EXCEPT ![g].pc = "read"]
  /\ UNCHANGED <<now, nextGen, registry, store, acc, conn, adm, bounds, file>>

\* Limiter.persist: read the counter, then save the record under the store's
\* lock.  Another goroutine may persist in between.
RunPersistRead(g) ==
  /\ run[g].pc = "read"
  /\ run' = [run EXCEPT ![g] = [@ EXCEPT !.pc = "save", !.rec = RecordOf(g)]]
  /\ UNCHANGED <<now, nextGen, lim, registry, store, acc, conn, adm, bounds, file>>

\* fileStore.Save: the record is in the store's memory, and in its file unless
\* writeLocked fails, which persist only logs.
Save(rec) ==
  /\ store' = rec
  /\ \/ disk' = rec /\ UNCHANGED failures
     \/ /\ failures < MaxFailures /\ failures' = failures + 1
        /\ UNCHANGED disk

\* Mutant: dirty is cleared after the save, not before the read.
RunPersistSaveClean(g) ==
  /\ run[g].pc = "save"
  /\ Save(run[g].rec)
  /\ run' = [run EXCEPT ![g] = [@ EXCEPT !.pc = "loop", !.rec = NoRecord]]
  /\ lim' = [lim EXCEPT ![g].dirty = FALSE]
  /\ UNCHANGED <<now, nextGen, registry, acc, conn, adm, bounds>>

RunPersistSave(g) ==
  /\ run[g].pc = "save"
  /\ Save(run[g].rec)
  /\ run' = [run EXCEPT ![g] = [@ EXCEPT !.pc = "loop", !.rec = NoRecord]]
  /\ UNCHANGED <<now, nextGen, lim, registry, acc, conn, adm, bounds>>

\* case <-l.done: closed right after the closed flag is set.
RunDone(g) ==
  /\ run[g].pc = "loop"
  /\ lim[g].closed
  /\ run' = [run EXCEPT ![g].pc = "done"]
  /\ UNCHANGED <<now, nextGen, lim, registry, store, acc, conn, adm, bounds, file>>
-----------------------------------------------------------------------------
(* quotaListener.Accept and Close.                                         *)

\* The locals lim and ch are dead once Accept no longer waits on them.
AcceptMove(s, pc) ==
  /\ acc' = [acc EXCEPT ![s] =
               IF pc = "parked" THEN [@ EXCEPT !.pc = pc]
               ELSE [pc |-> pc, lim |-> 0, ch |-> 0, done |-> acc[s].done]]
  /\ UNCHANGED <<now, nextGen, lim, registry, store, run, conn, adm, bounds, file>>

AcceptGet(s) ==
  /\ acc[s].pc = "idle"
  /\ acc' = [acc EXCEPT ![s].lim = registry,
               ![s].pc = IF registry = 0 THEN "inner" ELSE "waitchan"]
  /\ UNCHANGED <<now, nextGen, lim, registry, store, run, conn, adm, bounds, file>>

\* ch := lim.WaitChan(), fetched before Blocked is evaluated.
AcceptWaitChan(s) ==
  /\ acc[s].pc = "waitchan"
  /\ acc' = [acc EXCEPT ![s].pc = "check", ![s].ch = lim[acc[s].lim].waitCh]
  /\ UNCHANGED <<now, nextGen, lim, registry, store, run, conn, adm, bounds, file>>

AcceptCheck(s) ==
  /\ acc[s].pc = "check"
  /\ AcceptMove(s, IF Blocked(acc[s].lim) THEN "parked" ELSE "inner")

\* The parked select: the channel it holds was closed, or ln.done was.
AcceptWake(s) ==
  /\ acc[s].pc = "parked"
  /\ lim[acc[s].lim].waitCh # acc[s].ch
  /\ AcceptMove(s, "idle")

AcceptAbort(s) ==
  /\ acc[s].pc = "parked"
  /\ acc[s].done
  /\ AcceptMove(s, "closed")

\* The wrapped listener returns a connection, or its error once closed.
AcceptInner(s) ==
  /\ acc[s].pc = "inner"
  /\ AcceptMove(s, IF acc[s].done THEN "closed" ELSE "idle")

ListenerClose(s) ==
  /\ ~acc[s].done
  /\ acc' = [acc EXCEPT ![s].done = TRUE]
  /\ UNCHANGED <<now, nextGen, lim, registry, store, run, conn, adm, bounds, file>>
-----------------------------------------------------------------------------
(* quotaConn.Read / Write, then Limiter.add for the bytes moved.           *)

\* Between two calls a connection has no locals.
IdleConn == [pc |-> "idle", lim |-> 0, sum |-> 0]

\* The limiter is looked up and does not block: the I/O goes ahead.  (Without
\* a limiter, or with a blocked one, the call leaves no trace.)
ConnCheck(c) ==
  /\ conn[c].pc = "idle"
  /\ registry # 0
  /\ ~Blocked(registry)
  /\ conn' = [conn EXCEPT ![c].pc = "io", ![c].lim = registry]
  /\ UNCHANGED <<now, nextGen, lim, registry, store, run, acc, adm, bounds, file>>

\* The I/O moved n bytes; add returns at once for none, for a closed limiter,
\* for the other direction and outside the window.
ConnIO(c, n, dir) ==
  LET g == conn[c].lim
      counted == n > 0 /\ ~lim[g].closed /\ Counts(g, dir) /\ Active(g) IN
  /\ conn[c].pc = "io"
  /\ conn' = [conn EXCEPT ![c] =
                 IF counted THEN [pc |-> "count", lim |-> g, sum |-> n]
                 ELSE IdleConn]
  /\ UNCHANGED <<now, nextGen, lim, registry, store, run, acc, adm, bounds, file>>

\* used := l.used.Add(uint64(n)): sum holds n before and the result after.
ConnCount(c) ==
  LET g == conn[c].lim
      u == lim[g].used + conn[c].sum IN
  /\ conn[c].pc = "count"
  /\ u <= MaxUsed
  /\ lim' = [lim EXCEPT ![g].used = u]
  /\ conn' = [conn EXCEPT ![c].pc = "dirty", ![c].sum = u]
  /\ UNCHANGED <<now, nextGen, registry, store, run, acc, adm, bounds, file>>

\* Mutant: the limit itself is still allowed.
ConnDirtyPast(c) ==
  LET g == conn[c].lim
      over == lim[g].conf.limit > 0 /\ conn[c].sum > lim[g].conf.limit IN
  /\ conn[c].pc = "dirty"
  /\ lim' = [lim EXCEPT ![g].dirty = TRUE]
  /\ conn' = [conn EXCEPT ![c] =
                 IF over THEN [@ EXCEPT !.pc = "block"] ELSE IdleConn]
  /\ UNCHANGED <<now, nextGen, registry, store, run, acc, adm, bounds, file>>

\* Mark the counter dirty and compare the sum with the limit.
ConnDirty(c) ==
  LET g == conn[c].lim
      over == lim[g].conf.limit > 0 /\ conn[c].sum >= lim[g].conf.limit IN
  /\ conn[c].pc = "dirty"
  /\ lim' = [lim EXCEPT ![g].dirty = TRUE]
  /\ conn' = [conn EXCEPT ![c] =
                 IF over THEN [@ EXCEPT !.pc = "block"] ELSE IdleConn]
  /\ UNCHANGED <<now, nextGen, registry, store, run, acc, adm, bounds, file>>

ConnBlock(c) ==
  /\ conn[c].pc = "block"
  /\ Block(conn[c].lim)
  /\ conn' = [conn EXCEPT ![c] = IdleConn]
  /\ UNCHANGED <<now, nextGen, registry, store, run, acc, adm, bounds, file>>
-----------------------------------------------------------------------------
(* The API handlers.  An idle request slot may start any of them.          *)

IdleAdmin == [pc |-> "idle", lim |-> 0, new |-> 0, val |-> FALSE,
              rec |-> NoRecord, closing |-> FALSE]

AdminStart(a, pc, old, new) ==
  /\ adm[a].pc = "idle"
  /\ ops < MaxOps
  /\ ops' = ops + 1
  /\ adm' = [adm EXCEPT ![a] = [@ EXCEPT !.pc = pc, !.lim = old, !.new = new]]
  /\ UNCHANGED <<now, registry, store, acc, conn, restarts, file>>

\* resetQuota: the limiter is looked up...
ResetQuota(a) ==
  /\ registry # 0
  /\ AdminStart(a, "reset", registry, 0)
  /\ UNCHANGED <<nextGen, lim, run>>

\* createQuota of a name that is free: parse (NewLimiter), then Register.
CreateQuota(a, c) ==
  /\ registry = 0
  /\ Allocate(c)
  /\ AdminStart(a, "register", 0, nextGen)

\* updateQuota: parse (NewLimiter, which loads the store), then Unregister the
\* old limiter, then Register the new one.
UpdateQuota(a, c) ==
  /\ registry # 0
  /\ Allocate(c)
  /\ AdminStart(a, "unregister", 0, nextGen)

DeleteQuota(a) ==
  /\ registry # 0
  /\ AdminStart(a, "unregister", 0, 0)
  /\ UNCHANGED <<nextGen, lim, run>>

\* ... and Limiter.Update overwrites the counter, then calls reevaluate.
ResetUsed(a, v) ==
  /\ adm[a].pc = "reset"
  /\ lim' = [lim EXCEPT ![adm[a].lim].used = v]
  /\ adm' = [adm EXCEPT ![a].pc = "eval"]
  /\ UNCHANGED <<now, nextGen, registry, store, run, acc, conn, bounds, file>>

\* Limiter.reevaluate: compute shouldBlock, store it, notify if it is false,
\* flush.
Reevaluate(a) ==
  /\ adm[a].pc = "eval"
  /\ adm' = [adm EXCEPT ![a] = [@ EXCEPT !.pc = "store",
                                         !.val = Exhausted(adm[a].lim)]]
  /\ UNCHANGED <<now, nextGen, lim, registry, store, run, acc, conn, bounds, file>>

\* Mutant: no notify when the flag is cleared.
ReevaluateStoreQuiet(a) ==
  /\ adm[a].pc = "store"
  /\ lim' = [lim EXCEPT ![adm[a].lim].blocked = adm[a].val]
  /\ adm' = [adm EXCEPT ![a] = [@ EXCEPT !.pc = "flush", !.val = FALSE]]
  /\ UNCHANGED <<now, nextGen, registry, store, run, acc, conn, bounds, file>>

ReevaluateStore(a) ==
  /\ adm[a].pc = "store"
  /\ lim' = [lim EXCEPT ![adm[a].lim].blocked = adm[a].val]
  /\ adm' = [adm EXCEPT ![a] =
               [@ EXCEPT !.pc = IF adm[a].val THEN "flush" ELSE "notify",
                         !.val = FALSE]]
  /\ UNCHANGED <<now, nextGen, registry, store, run, acc, conn, bounds, file>>

ReevaluateNotify(a) ==
  /\ adm[a].pc = "notify"
  /\ Notify(adm[a].lim)
  /\ adm' = [adm EXCEPT ![a].pc = "flush"]
  /\ UNCHANGED <<now, nextGen, registry, store, run, acc, conn, bounds, file>>

\* Limiter.flushNow, called by reevaluate and by Close: clear dirty, persist.
FlushNow(a) ==
  /\ adm[a].pc = "flush"
  /\ lim' = [lim EXCEPT ![adm[a].lim].dirty = FALSE]
  /\ adm' = [adm EXCEPT ![a].pc = "read"]
  /\ UNCHANGED <<now, nextGen, registry, store, run, acc, conn, bounds, file>>

PersistRead(a) ==
  /\ adm[a].pc = "read"
  /\ adm' = [adm EXCEPT ![a] = [@ EXCEPT !.pc = "save",
                                         !.rec = RecordOf(adm[a].lim)]]
  /\ UNCHANGED <<now, nextGen, lim, registry, store, run, acc, conn, bounds, file>>

PersistSave(a) ==
  /\ adm[a].pc = "save"
  /\ Save(adm[a].rec)
  /\ adm' = [adm EXCEPT ![a] =
               IF adm[a].closing
               THEN [@ EXCEPT !.pc = "cnotify", !.rec = NoRecord]
               ELSE IdleAdmin]
  /\ UNCHANGED <<now, nextGen, lim, registry, run, acc, conn, bounds>>

\* Where a handler goes when Unregister returns.
AfterUnregister(a) ==
  IF adm[a].new = 0 THEN IdleAdmin ELSE [adm[a] EXCEPT !.pc = "register"]

\* registry.Unregister finds nothing to remove.
UnregisterNone(a) ==
  /\ adm[a].pc = "unregister"
  /\ registry = 0
  /\ adm' = [adm EXCEPT ![a] = AfterUnregister(a)]
  /\ UNCHANGED <<now, nextGen, lim, registry, store, run, acc, conn, bounds, file>>

\* registry.Unregister calls Limiter.Close, whose body runs once: closed is
\* set, then flushNow, then notify.
Close(a) ==
  /\ adm[a].pc = "unregister"
  /\ registry # 0
  /\ ~lim[registry].closed
  /\ lim' = [lim EXCEPT ![registry].closed = TRUE]
  /\ adm' = [adm EXCEPT ![a] = [@ EXCEPT !.pc = "flush", !.lim = registry,
                                         !.closing = TRUE]]
  /\ UNCHANGED <<now, nextGen, registry, store, run, acc, conn, bounds, file>>

\* A second caller of closeOnce.Do waits for the first to return.
CloseAgain(a) ==
  /\ adm[a].pc = "unregister"
  /\ registry # 0
  /\ lim[registry].closed
  /\ \A b \in Admins : adm[b].closing => adm[b].lim # registry
  /\ adm' = [adm EXCEPT ![a] = [@ EXCEPT !.pc = "delete", !.lim = registry]]
  /\ UNCHANGED <<now, nextGen, lim, registry, store, run, acc, conn, bounds, file>>

\* Mutant: Close does not notify.
CloseQuiet(a) ==
  /\ adm[a].pc = "cnotify"
  /\ adm' = [adm EXCEPT ![a] = [@ EXCEPT !.pc = "delete", !.closing = FALSE]]
  /\ UNCHANGED <<now, nextGen, lim, registry, store, run, acc, conn, bounds, file>>

CloseNotify(a) ==
  /\ adm[a].pc = "cnotify"
  /\ Notify(adm[a].lim)
  /\ adm' = [adm EXCEPT ![a] = [@ EXCEPT !.pc = "delete", !.closing = FALSE]]
  /\ UNCHANGED <<now, nextGen, registry, store, run, acc, conn, bounds, file>>

\* r.m.Delete(name): whatever is registered by now goes.
UnregisterDelete(a) ==
  /\ adm[a].pc = "delete"
  /\ registry' = 0
  /\ adm' = [adm EXCEPT ![a] = AfterUnregister(a)]
  /\ UNCHANGED <<now, nextGen, lim, store, run, acc, conn, bounds, file>>

\* registry.Register: LoadOrStore; ErrDup drops the new limiter unclosed.
Register(a) ==
  /\ adm[a].pc = "register"
  /\ registry' = IF registry = 0 THEN adm[a].new ELSE registry
  /\ adm' = [adm EXCEPT ![a] = IdleAdmin]
  /\ UNCHANGED <<now, nextGen, lim, store, run, acc, conn, bounds, file>>
-----------------------------------------------------------------------------
Tick ==
  /\ now < MaxTime
  /\ now' = now + 1
  /\ UNCHANGED <<nextGen, lim, registry, store, procs, bounds, file>>

\* The memory of a process that has just loaded its configuration at time t
\* with record rec in the store: one limiter, parsed and registered, and no
\* goroutine under way.  Generations not yet allocated hold a placeholder.
Memory(t, rec) ==
  [lim  |-> [g \in Gens |-> NewLimiter(InitConfig, rec, t)],
   run  |-> [g \in Gens |-> [pc |-> IF g = 1 THEN "start" ELSE "none",
                             was |-> FALSE, val |-> FALSE, rec |-> NoRecord]],
   acc  |-> [s \in Services |-> [pc |-> "idle", lim |-> 0, ch |-> 0,
                                 done |-> FALSE]],
   conn |-> [c \in Conns |-> IdleConn],
   adm  |-> [a \in Admins |-> IdleAdmin]]

Init ==
  /\ now = 0 /\ nextGen = 2 /\ registry = 1
  /\ store = NoRecord /\ disk = NoRecord
  /\ lim = Memory(0, NoRecord).lim
  /\ run = Memory(0, NoRecord).run
  /\ acc = Memory(0, NoRecord).acc
  /\ conn = Memory(0, NoRecord).conn
  /\ adm = Memory(0, NoRecord).adm
  /\ ops = 0 /\ restarts = 0 /\ failures = 0

\* The process dies at any point and starts again: only the file survives.
Restart ==
  /\ restarts < MaxRestarts
  /\ restarts' = restarts + 1
  /\ nextGen' = 2 /\ registry' = 1
  /\ lim' = Memory(now, disk).lim
  /\ run' = Memory(now, disk).run
  /\ acc' = Memory(now, disk).acc
  /\ conn' = Memory(now, disk).conn
  /\ adm' = Memory(now, disk).adm
  /\ store' = disk
  /\ UNCHANGED <<now, ops, file>>

RunStep(g) ==
  \/ RunStart(g) \/ RunFlushTick(g) \/ RunBoundTick(g) \/ RunBlockedStore(g)
  \/ RunNotify(g) \/ RunPersistRead(g) \/ RunPersistSave(g) \/ RunDone(g)

AcceptStep(s) ==
  \/ AcceptGet(s) \/ AcceptWaitChan(s) \/ AcceptCheck(s)
  \/ AcceptWake(s) \/ AcceptAbort(s)

\* Limiter.add, once past its guards, runs to its end.
AddStep(c) == ConnCount(c) \/ ConnDirty(c) \/ ConnBlock(c)

\* What a started request does next; only starting one is up to the client.
AdminStep(a) ==
  \/ \E v \in ResetValues : ResetUsed(a, v)
  \/ Reevaluate(a) \/ ReevaluateStore(a) \/ ReevaluateNotify(a)
  \/ FlushNow(a) \/ PersistRead(a) \/ PersistSave(a)
  \/ UnregisterNone(a) \/ Close(a) \/ CloseAgain(a) \/ CloseNotify(a)
  \/ UnregisterDelete(a) \/ Register(a)

Next ==
  \/ Tick
  \/ Restart
  \/ \E g \in Gens : RunStep(g)
  \/ \E s \in Services : AcceptStep(s) \/ AcceptInner(s) \/ ListenerClose(s)
  \/ \E c \in Conns : ConnCheck(c) \/ AddStep(c)
  \/ \E c \in Conns, n \in 0..MaxChunk, dir \in {"in", "out"} :
       ConnIO(c, n, dir)
  \/ \E a \in Admins : ResetQuota(a) \/ DeleteQuota(a) \/ AdminStep(a)
  \/ \E a \in Admins, c \in Configs : CreateQuota(a, c) \/ UpdateQuota(a, c)

\* The Go scheduler runs every runnable goroutine and the tickers keep ticking.
\* No fairness for clients: traffic, accepts and requests may never come.
Fairness ==
  /\ \A g \in Gens : WF_vars(RunStep(g))
  /\ \A s \in Services : WF_vars(AcceptStep(s))
  /\ \A c \in Conns : WF_vars(AddStep(c))
  /\ \A a \in Admins : WF_vars(AdminStep(a))

Spec == Init /\ [][Next]_vars
FairSpec == Spec /\ Fairness
-----------------------------------------------------------------------------
TypeOK ==
  /\ now \in Nat /\ nextGen \in Nat /\ registry \in 0..MaxGen
  /\ store \in Record /\ disk \in Record
  /\ lim \in [Gens -> Limiter]
  /\ run \in [Gens -> Runner]
  /\ acc \in [Services -> Acceptor]
  /\ conn \in [Conns -> Connection]
  /\ adm \in [Admins -> Request]
  /\ ops \in Nat /\ restarts \in Nat /\ failures \in Nat

ParkedOn(s, g) == acc[s].pc = "parked" /\ acc[s].lim = g

\* Some goroutine is past a change that unblocks g and before its notify.
NotifyPending(g) ==
  \/ run[g].pc = "notify"
  \/ \E a \in Admins : /\ adm[a].lim = g
                       /\ adm[a].closing \/ adm[a].pc = "notify"

\* "WaitChan must be fetched before checking Blocked to avoid a missed
\* wakeup" (Limiter.WaitChan): an accept loop parked on the limiter's current
\* channel is parked on an open limiter whose blocked flag is set, or the
\* goroutine that cleared the flag or closed the limiter has yet to notify.
NoMissedWakeup ==
  \A s \in Services : \A g \in Gens :
    /\ ParkedOn(s, g)
    /\ acc[s].ch = lim[g].waitCh
    => (lim[g].blocked /\ ~lim[g].closed) \/ NotifyPending(g)

\* While no API request interferes and the quota is enforced from the start,
\* a counter at its limit is blocked, or an add that saw the limit reached is
\* about to block it (Limiter.add, NewLimiter after a restart, and the
\* boundary tick of Limiter.run).
StopsAtLimit ==
  ops = 0 /\ InitConfig.startsAt = 0 /\ Exhausted(1) =>
    \/ lim[1].blocked
    \/ \E c \in Conns : /\ conn[c].lim = 1
                        /\ conn[c].pc \in {"dirty", "block"}
                        /\ conn[c].sum >= lim[1].conf.limit

\* The hot path takes no lock, so connections that were let through before the
\* limit was reached still add their bytes, but each at most once: the
\* counter overshoots by less than one chunk per connection, restarts included.
BoundedOvershoot ==
  ops = 0 /\ InitConfig.startsAt = 0 /\ InitConfig.limit > 0 =>
    lim[1].used < InitConfig.limit + Cardinality(Conns) * MaxChunk

\* No counted byte is forgotten by the flush ticker: when the file does not
\* hold the counter, the limiter is dirty, is about to be, or is being
\* persisted (Limiter.add sets dirty after adding; run clears it before
\* reading); or the last write of the file failed, after which nothing but
\* another byte makes it try again.
FlushPending ==
  ops = 0 /\ lim[1].used # disk.used =>
    \/ lim[1].dirty
    \/ run[1].pc \in {"read", "save"}
    \/ \E c \in Conns : conn[c].lim = 1 /\ conn[c].pc = "dirty"
    \/ store # disk

\* A parked Accept is always released: by the limiter's Close ("deleting a
\* shared quota releases the referencing services"), and by the listener's own
\* ("ln.done wakes it on listener close", quotaListener.Accept).
ParkedReturns ==
  \A s \in Services :
    /\ \A g \in Gens : (ParkedOn(s, g) /\ lim[g].closed) ~> ~ParkedOn(s, g)
    /\ (acc[s].pc = "parked" /\ acc[s].done) ~> acc[s].pc # "parked"

\* updateQuota: "The cumulative counter is preserved across the update as long
\* as the window is unchanged."  When the new limiter is about to be
\* registered, it has counted at least what the closed one had.
CounterPreserved ==
  \A a \in Admins :
    LET old == adm[a].lim
        new == adm[a].new IN
    /\ adm[a].pc = "register"
    /\ old # 0
    /\ lim[old].conf.startsAt = lim[new].conf.startsAt
    /\ lim[old].conf.expiresAt = lim[new].conf.expiresAt
    => lim[new].used >= lim[old].used

\* resetQuota: "if the quota was blocking, services resume once the value is
\* below the limit."
ResumesBelowLimit ==
  \A s \in Services : \A g \in Gens :
    (ParkedOn(s, g) /\ lim[g].used < lim[g].conf.limit) ~> ~ParkedOn(s, g)
=============================================================================
