----------------------------- MODULE QuotaProofs -----------------------------
(***************************************************************************)
(* Proofs about Quota for every number of services, connections, requests  *)
(* and limiters and every bound: type correctness, that no accept loop     *)
(* misses the notification that releases it, and what the quota does with  *)
(* traffic while no API request is made.                                   *)
(***************************************************************************)
EXTENDS Quota, FiniteSetTheorems, TLAPS

\* Where a goroutine uses a limiter, it holds one.
HoldsOK ==
  /\ \A s \in Services :
       acc[s].pc \in {"waitchan", "check", "parked"} => acc[s].lim \in Gens
  /\ \A c \in Conns : conn[c].pc # "idle" => conn[c].lim \in Gens
  /\ \A a \in Admins :
       /\ adm[a].pc \in {"reset", "eval", "store", "notify", "flush", "read",
                         "save", "cnotify", "delete"} => adm[a].lim \in Gens
       /\ adm[a].pc = "register" => adm[a].new \in Gens

\* References point at allocated limiters, so a new one is known to nobody.
RefsOK ==
  /\ nextGen > 1
  /\ registry < nextGen
  /\ \A s \in Services : acc[s].lim < nextGen
  /\ \A a \in Admins : adm[a].lim < nextGen /\ adm[a].new < nextGen

\* The body of Close is under way from setting closed to its notify.
ClosingOK ==
  \A a \in Admins :
    /\ adm[a].closing => adm[a].pc \in {"flush", "read", "save", "cnotify"}
    /\ adm[a].pc = "cnotify" => adm[a].closing

\* A channel once fetched is the current one or an earlier, closed one.
ChannelsOK ==
  \A s \in Services :
    acc[s].pc \in {"check", "parked"} => acc[s].ch <= lim[acc[s].lim].waitCh

\* The inductive strengthening of NoMissedWakeup.
IInv == /\ TypeOK /\ HoldsOK /\ RefsOK /\ ClosingOK /\ ChannelsOK
        /\ NoMissedWakeup
-----------------------------------------------------------------------------
(* Types of the values the actions compute.                                *)

\* The window and limit predicates of Limiter are Boolean.
LEMMA BooleanValues ==
  ASSUME NEW g \in Gens
  PROVE  Active(g) \in BOOLEAN /\ Exhausted(g) \in BOOLEAN
BY Zenon DEF Active, InWindow, Exhausted, Enforcing

\* NewLimiter makes a well-formed limiter from any configuration and record.
LEMMA NewLimiterType ==
  ASSUME NEW c \in Config, NEW rec \in Record, NEW t \in Nat
  PROVE  NewLimiter(c, rec, t) \in Limiter
BY Zenon DEF NewLimiter, Restored, InWindow, Config, Record, Limiter

\* Setting a flag of a limiter leaves it a limiter.
LEMMA LimiterUpdates ==
  ASSUME NEW l \in Limiter, NEW b \in BOOLEAN
  PROVE  /\ [l EXCEPT !.dirty = b] \in Limiter
         /\ [l EXCEPT !.blocked = b] \in Limiter
         /\ [l EXCEPT !.closed = b] \in Limiter
BY Zenon DEF Limiter

\* persist builds a well-formed record.
LEMMA RecordOfType ==
  ASSUME TypeOK, NEW g \in Gens
  PROVE  RecordOf(g) \in Record
BY DEF TypeOK, RecordOf, Record, Config, Limiter

\* The empty record is well formed.
LEMMA NoRecordType == NoRecord \in Record
BY DEF NoRecord, Record

\* A process that has just started has well-formed memory.
LEMMA MemoryType ==
  ASSUME NEW t \in Nat, NEW rec \in Record
  PROVE  /\ Memory(t, rec).lim \in [Gens -> Limiter]
         /\ Memory(t, rec).run \in [Gens -> Runner]
         /\ Memory(t, rec).acc \in [Services -> Acceptor]
         /\ Memory(t, rec).conn \in [Conns -> Connection]
         /\ Memory(t, rec).adm \in [Admins -> Request]
<1>1. 0 \in 0..MaxGen /\ 1 \in 0..MaxGen
  BY ConstantsAssumption
<1>2. Memory(t, rec).lim \in [Gens -> Limiter]
  BY Zenon, NewLimiterType, ConstantsAssumption DEF Memory
<1>3. Memory(t, rec).run \in [Gens -> Runner]
  BY Zenon, NoRecordType DEF Memory, Runner
<1>4. Memory(t, rec).acc \in [Services -> Acceptor]
  BY Zenon, <1>1 DEF Memory, Acceptor
<1>5. Memory(t, rec).conn \in [Conns -> Connection]
  BY Zenon, <1>1 DEF Memory, Connection, IdleConn
<1>6. Memory(t, rec).adm \in [Admins -> Request]
  BY Zenon, <1>1, NoRecordType DEF Memory, Request, IdleAdmin
<1> QED BY Zenon, <1>2, <1>3, <1>4, <1>5, <1>6

\* Allocating a limiter keeps the memory well formed.
LEMMA AllocateType ==
  ASSUME TypeOK, RefsOK, NEW c \in Configs, Allocate(c)
  PROVE  /\ nextGen \in Gens /\ nextGen' = nextGen + 1
         /\ lim' = [lim EXCEPT ![nextGen] = NewLimiter(c, store, now)]
         /\ lim' \in [Gens -> Limiter]
         /\ run' \in [Gens -> Runner]
<1>1. nextGen \in Gens
  BY SMTT(30), ConstantsAssumption DEF TypeOK, RefsOK, Allocate, Gens
<1>2. NewLimiter(c, store, now) \in Limiter
  BY Zenon, NewLimiterType, ConstantsAssumption DEF TypeOK
<1>3. lim' \in [Gens -> Limiter]
  BY Zenon, <1>1, <1>2 DEF TypeOK, Allocate
<1>4. run' \in [Gens -> Runner]
  BY Zenon, <1>1 DEF TypeOK, Allocate, Runner
<1> QED BY Zenon, <1>1, <1>3, <1>4 DEF Allocate
-----------------------------------------------------------------------------
(* Type correctness, one lemma per goroutine.                              *)

\* Limiter.run.
LEMMA RunType ==
  ASSUME TypeOK, NEW g \in Gens, RunStep(g)
  PROVE  TypeOK'
<1> USE DEF TypeOK, bounds, file
<1>1. CASE RunStart(g)
  <2>1. Active(g) \in BOOLEAN
    BY Zenon, BooleanValues
  <2>2. [run[g] EXCEPT !.pc = "loop", !.was = Active(g)] \in Runner
    BY Zenon, <2>1 DEF Runner
  <2>3. run' \in [Gens -> Runner]
    BY Zenon, <1>1, <2>2 DEF RunStart
  <2> QED BY Zenon, <1>1, <2>3 DEF RunStart
<1>2. CASE RunFlushTick(g)
  <2>1. run' \in [Gens -> Runner]
    BY Zenon, <1>2 DEF RunFlushTick, Runner
  <2>2. lim' \in [Gens -> Limiter]
    BY Zenon, <1>2 DEF RunFlushTick, Limiter
  <2> QED BY Zenon, <1>2, <2>1, <2>2 DEF RunFlushTick
<1>3. CASE RunBoundTick(g)
  <2>1. Active(g) \in BOOLEAN /\ Exhausted(g) \in BOOLEAN
    BY Zenon, BooleanValues
  <2>2. [run[g] EXCEPT !.pc = "store", !.was = Active(g), !.val = Exhausted(g)]
          \in Runner
    BY Zenon, <2>1 DEF Runner
  <2>3. run' \in [Gens -> Runner]
    BY Zenon, <1>3, <2>2 DEF RunBoundTick
  <2> QED BY Zenon, <1>3, <2>3 DEF RunBoundTick
<1>4. CASE RunBlockedStore(g)
  <2>0. [run[g] EXCEPT !.pc = "notify", !.val = FALSE] \in Runner
    BY Zenon DEF Runner
  <2>1. run' \in [Gens -> Runner]
    BY Zenon, <1>4, <2>0 DEF RunBlockedStore
  <2>2. run[g].val \in BOOLEAN
    BY Zenon DEF Runner
  <2>3. lim' \in [Gens -> Limiter]
    BY Zenon, <1>4, <2>2 DEF RunBlockedStore, Limiter
  <2> QED BY Zenon, <1>4, <2>1, <2>3 DEF RunBlockedStore
<1>5. CASE RunNotify(g)
  <2>1. run' \in [Gens -> Runner]
    BY Zenon, <1>5 DEF RunNotify, Runner
  <2>2. lim' \in [Gens -> Limiter]
    BY <1>5 DEF RunNotify, Notify, Limiter
  <2> QED BY Zenon, <1>5, <2>1, <2>2 DEF RunNotify
<1>6. CASE RunPersistRead(g)
  <2>1. RecordOf(g) \in Record
    BY Zenon, RecordOfType
  <2>2. [run[g] EXCEPT !.pc = "save", !.rec = RecordOf(g)] \in Runner
    BY Zenon, <2>1 DEF Runner
  <2>3. run' \in [Gens -> Runner]
    BY Zenon, <1>6, <2>2 DEF RunPersistRead
  <2> QED BY Zenon, <1>6, <2>3 DEF RunPersistRead
<1>7. CASE RunPersistSave(g)
  <2>1. [run[g] EXCEPT !.pc = "loop", !.rec = NoRecord] \in Runner
    BY Zenon, NoRecordType DEF Runner
  <2>2. run' \in [Gens -> Runner] /\ run[g].rec \in Record
    BY Zenon, <1>7, <2>1 DEF RunPersistSave, Runner
  <2>3. store' \in Record /\ disk' \in Record /\ failures' \in Nat
    BY <1>7, <2>2 DEF RunPersistSave, Save
  <2> QED BY Zenon, <1>7, <2>2, <2>3 DEF RunPersistSave
<1>8. CASE RunDone(g)
  BY Zenon, <1>8 DEF RunDone, Runner
<1> QED BY Zenon, <1>1, <1>2, <1>3, <1>4, <1>5, <1>6, <1>7, <1>8 DEF RunStep

\* quotaListener.Accept and Close.
LEMMA AcceptType ==
  ASSUME TypeOK, HoldsOK, NEW s \in Services,
         AcceptStep(s) \/ AcceptInner(s) \/ ListenerClose(s)
  PROVE  TypeOK'
<1>0. 0 \in 0..MaxGen
  BY ConstantsAssumption
<1>1. ASSUME NEW pc \in {"idle", "parked", "inner", "closed"},
             AcceptMove(s, pc)
      PROVE  TypeOK'
  <2>1. CASE pc = "parked"
    BY Zenon, <1>1, <2>1 DEF TypeOK, bounds, file, AcceptMove, Acceptor
  <2>2. CASE pc # "parked"
    BY Zenon, <1>0, <1>1, <2>2 DEF TypeOK, bounds, file, AcceptMove, Acceptor
  <2> QED BY Zenon, <2>1, <2>2
<1>2. CASE AcceptGet(s)
  BY <1>2 DEF TypeOK, bounds, file, AcceptGet, Acceptor
<1>3. CASE AcceptWaitChan(s)
  <2>1. lim[acc[s].lim].waitCh \in Nat
    BY Zenon, <1>3 DEF TypeOK, HoldsOK, AcceptWaitChan, Limiter
  <2> QED BY Zenon, <1>3, <2>1 DEF TypeOK, bounds, file, AcceptWaitChan, Acceptor
<1>4. CASE AcceptCheck(s)
  BY Zenon, <1>1, <1>4 DEF AcceptCheck
<1>5. CASE AcceptWake(s)
  BY Zenon, <1>1, <1>5 DEF AcceptWake
<1>6. CASE AcceptAbort(s)
  BY Zenon, <1>1, <1>6 DEF AcceptAbort
<1>7. CASE AcceptInner(s)
  BY Zenon, <1>1, <1>7 DEF AcceptInner
<1>8. CASE ListenerClose(s)
  BY Zenon, <1>8 DEF TypeOK, bounds, file, ListenerClose, Acceptor
<1> QED BY Zenon, <1>2, <1>3, <1>4, <1>5, <1>6, <1>7, <1>8 DEF AcceptStep

\* quotaConn.Read / Write and Limiter.add.
LEMMA ConnType ==
  ASSUME TypeOK, HoldsOK, NEW c \in Conns,
         \/ ConnCheck(c) \/ AddStep(c)
         \/ \E n \in 0..MaxChunk, dir \in {"in", "out"} : ConnIO(c, n, dir)
  PROVE  TypeOK'
<1>0. 0 \in 0..MaxGen /\ IdleConn \in Connection
  BY ConstantsAssumption DEF IdleConn, Connection
<1>1. CASE ConnCheck(c)
  BY Zenon, <1>1 DEF TypeOK, bounds, file, ConnCheck, Connection
<1>2. ASSUME NEW n \in 0..MaxChunk, NEW dir \in {"in", "out"},
             ConnIO(c, n, dir)
      PROVE  TypeOK'
  <2>1. n \in Nat /\ conn[c].lim \in 0..MaxGen
    BY ConstantsAssumption DEF TypeOK, Connection
  <2>2. [pc |-> "count", lim |-> conn[c].lim, sum |-> n] \in Connection
    BY Zenon, <2>1 DEF Connection
  <2>3. conn' \in [Conns -> Connection]
    BY Zenon, <1>0, <1>2, <2>2 DEF TypeOK, ConnIO
  <2> QED BY Zenon, <1>2, <2>3 DEF TypeOK, bounds, file, ConnIO
<1>3. CASE ConnCount(c)
  <2>1. conn[c].lim \in Gens /\ lim[conn[c].lim].used + conn[c].sum \in Nat
    BY <1>3 DEF TypeOK, HoldsOK, ConnCount, Limiter, Connection
  <2>2. lim' \in [Gens -> Limiter]
    BY <1>3, <2>1 DEF TypeOK, ConnCount, Limiter
  <2>3. conn' \in [Conns -> Connection]
    BY Zenon, <1>3, <2>1 DEF TypeOK, ConnCount, Connection
  <2> QED BY Zenon, <1>3, <2>2, <2>3 DEF TypeOK, bounds, file, ConnCount
<1>4. CASE ConnDirty(c)
  <2>1. conn[c].lim \in Gens
    BY Zenon, <1>4 DEF HoldsOK, ConnDirty
  <2>2. lim' \in [Gens -> Limiter]
    <3>1. [lim[conn[c].lim] EXCEPT !.dirty = TRUE] \in Limiter
      BY Zenon, <2>1, LimiterUpdates DEF TypeOK
    <3> QED BY Zenon, <1>4, <2>1, <3>1 DEF TypeOK, ConnDirty
  <2>3. [conn[c] EXCEPT !.pc = "block"] \in Connection
    BY Zenon DEF TypeOK, Connection
  <2>4. conn' \in [Conns -> Connection]
    BY Zenon, <1>0, <1>4, <2>3 DEF TypeOK, ConnDirty
  <2> QED BY Zenon, <1>4, <2>2, <2>4 DEF TypeOK, bounds, file, ConnDirty
<1>5. CASE ConnBlock(c)
  <2>1. conn[c].lim \in Gens
    BY Zenon, <1>5 DEF HoldsOK, ConnBlock
  <2>2. lim' \in [Gens -> Limiter]
    <3>1. [lim[conn[c].lim] EXCEPT !.blocked = TRUE] \in Limiter
      BY Zenon, <2>1, LimiterUpdates DEF TypeOK
    <3> QED BY Zenon, <1>5, <2>1, <3>1 DEF TypeOK, ConnBlock, Block
  <2> QED BY Zenon, <1>0, <1>5, <2>2 DEF TypeOK, bounds, file, ConnBlock
<1> QED BY Zenon, <1>1, <1>2, <1>3, <1>4, <1>5 DEF AddStep

\* The start of an API request.
LEMMA StartType ==
  ASSUME TypeOK, RefsOK, NEW a \in Admins,
         \/ ResetQuota(a) \/ DeleteQuota(a)
         \/ \E c \in Configs : CreateQuota(a, c) \/ UpdateQuota(a, c)
  PROVE  TypeOK'
<1>0. 0 \in 0..MaxGen
  BY ConstantsAssumption
<1>1. ASSUME NEW pc \in {"reset", "register", "unregister"},
             NEW old \in 0..MaxGen, NEW new \in 0..MaxGen,
             AdminStart(a, pc, old, new),
             nextGen' \in Nat, lim' \in [Gens -> Limiter],
             run' \in [Gens -> Runner]
      PROVE  TypeOK'
  <2>1. adm' \in [Admins -> Request]
    <3>1. [adm[a] EXCEPT !.pc = pc, !.lim = old, !.new = new] \in Request
      BY Zenon, <1>1 DEF TypeOK, Request
    <3> QED BY Zenon, <1>1, <3>1 DEF TypeOK, AdminStart
  <2> QED BY <1>1, <2>1 DEF TypeOK, AdminStart, file
<1>2. CASE ResetQuota(a)
  BY Zenon, <1>0, <1>1, <1>2 DEF TypeOK, ResetQuota
<1>3. CASE DeleteQuota(a)
  BY Zenon, <1>0, <1>1, <1>3 DEF TypeOK, DeleteQuota
<1>4. ASSUME NEW c \in Configs, CreateQuota(a, c) \/ UpdateQuota(a, c)
      PROVE  TypeOK'
  <2>1. Allocate(c)
    BY Zenon, <1>4 DEF CreateQuota, UpdateQuota
  <2>2. /\ nextGen \in 0..MaxGen /\ nextGen' \in Nat
        /\ lim' \in [Gens -> Limiter] /\ run' \in [Gens -> Runner]
    BY <2>1, AllocateType, ConstantsAssumption DEF Gens
  <2> QED BY Zenon, <1>0, <1>1, <1>4, <2>2 DEF CreateQuota, UpdateQuota
<1> QED BY Zenon, <1>2, <1>3, <1>4

\* The rest of an API request.
LEMMA AdminType ==
  ASSUME TypeOK, HoldsOK, NEW a \in Admins, AdminStep(a)
  PROVE  TypeOK'
<1>0. 0 \in 0..MaxGen /\ IdleAdmin \in Request
  BY ConstantsAssumption, NoRecordType DEF IdleAdmin, Request
<1>1. ASSUME NEW v \in ResetValues, ResetUsed(a, v)
      PROVE  TypeOK'
  <2>1. adm[a].lim \in Gens /\ v \in Nat
    BY Zenon, <1>1, ConstantsAssumption DEF HoldsOK, ResetUsed
  <2>2. lim' \in [Gens -> Limiter]
    BY Zenon, <1>1, <2>1 DEF TypeOK, ResetUsed, Limiter
  <2>3. adm' \in [Admins -> Request]
    BY <1>1 DEF TypeOK, ResetUsed, Request
  <2> QED BY Zenon, <1>1, <2>2, <2>3 DEF TypeOK, bounds, file, ResetUsed
<1>2. CASE Reevaluate(a)
  <2>1. Exhausted(adm[a].lim) \in BOOLEAN
    BY Zenon, <1>2, BooleanValues DEF HoldsOK, Reevaluate
  <2>2. [adm[a] EXCEPT !.pc = "store", !.val = Exhausted(adm[a].lim)]
          \in Request
    BY Zenon, <2>1 DEF TypeOK, Request
  <2>3. adm' \in [Admins -> Request]
    BY Zenon, <1>2, <2>2 DEF TypeOK, Reevaluate
  <2> QED BY Zenon, <1>2, <2>3 DEF TypeOK, bounds, file, Reevaluate
<1>3. CASE ReevaluateStore(a)
  <2>1. adm[a].lim \in Gens /\ adm[a].val \in BOOLEAN
    BY Zenon, <1>3 DEF TypeOK, HoldsOK, ReevaluateStore, Request
  <2>2. lim' \in [Gens -> Limiter]
    BY Zenon, <1>3, <2>1 DEF TypeOK, ReevaluateStore, Limiter
  <2>3. adm' \in [Admins -> Request]
    <3>1. \A p \in {"flush", "notify"} :
            [adm[a] EXCEPT !.pc = p, !.val = FALSE] \in Request
      BY Zenon DEF TypeOK, Request
    <3> QED BY Zenon, <1>3, <3>1 DEF TypeOK, ReevaluateStore
  <2> QED BY Zenon, <1>3, <2>2, <2>3 DEF TypeOK, bounds, file, ReevaluateStore
<1>4. CASE ReevaluateNotify(a)
  <2>1. adm[a].lim \in Gens
    BY Zenon, <1>4 DEF HoldsOK, ReevaluateNotify
  <2>2. lim' \in [Gens -> Limiter]
    BY <1>4, <2>1 DEF TypeOK, ReevaluateNotify, Notify, Limiter
  <2>3. adm' \in [Admins -> Request]
    BY <1>4 DEF TypeOK, ReevaluateNotify, Request
  <2> QED BY Zenon, <1>4, <2>2, <2>3 DEF TypeOK, bounds, file, ReevaluateNotify
<1>5. CASE FlushNow(a)
  <2>1. adm[a].lim \in Gens
    BY Zenon, <1>5 DEF HoldsOK, FlushNow
  <2>2. lim' \in [Gens -> Limiter]
    BY Zenon, <1>5, <2>1 DEF TypeOK, FlushNow, Limiter
  <2>3. adm' \in [Admins -> Request]
    BY <1>5 DEF TypeOK, FlushNow, Request
  <2> QED BY Zenon, <1>5, <2>2, <2>3 DEF TypeOK, bounds, file, FlushNow
<1>6. CASE PersistRead(a)
  <2>1. RecordOf(adm[a].lim) \in Record
    BY Zenon, <1>6, RecordOfType DEF HoldsOK, PersistRead
  <2>2. [adm[a] EXCEPT !.pc = "save", !.rec = RecordOf(adm[a].lim)]
          \in Request
    BY Zenon, <2>1 DEF TypeOK, Request
  <2>3. adm' \in [Admins -> Request]
    BY Zenon, <1>6, <2>2 DEF TypeOK, PersistRead
  <2> QED BY Zenon, <1>6, <2>3 DEF TypeOK, bounds, file, PersistRead
<1>7. CASE PersistSave(a)
  <2>1. adm[a].rec \in Record
    BY Zenon DEF TypeOK, Request
  <2>2. [adm[a] EXCEPT !.pc = "cnotify", !.rec = NoRecord] \in Request
    BY Zenon, NoRecordType DEF TypeOK, Request
  <2>3. adm' \in [Admins -> Request]
    BY Zenon, <1>0, <1>7, <2>2 DEF TypeOK, PersistSave
  <2>4. store' \in Record /\ disk' \in Record /\ failures' \in Nat
    BY <1>7, <2>1 DEF TypeOK, PersistSave, Save
  <2> QED BY Zenon, <1>7, <2>3, <2>4 DEF TypeOK, bounds, PersistSave
<1>8. AfterUnregister(a) \in Request
  <2>1. [adm[a] EXCEPT !.pc = "register"] \in Request
    BY Zenon DEF TypeOK, Request
  <2> QED BY Zenon, <1>0, <2>1 DEF AfterUnregister
<1>9. CASE UnregisterNone(a)
  BY Zenon, <1>8, <1>9 DEF TypeOK, bounds, file, UnregisterNone
<1>10. CASE Close(a)
  <2>1. registry \in Gens
    BY <1>10, ConstantsAssumption DEF TypeOK, Close, Gens
  <2>2. lim' \in [Gens -> Limiter]
    BY Zenon, <1>10, <2>1 DEF TypeOK, Close, Limiter
  <2>3. adm' \in [Admins -> Request]
    <3>1. [adm[a] EXCEPT !.pc = "flush", !.lim = registry, !.closing = TRUE]
            \in Request
      BY Zenon DEF TypeOK, Request
    <3> QED BY Zenon, <1>10, <3>1 DEF TypeOK, Close
  <2> QED BY Zenon, <1>10, <2>2, <2>3 DEF TypeOK, bounds, file, Close
<1>11. CASE CloseAgain(a)
  <2>1. [adm[a] EXCEPT !.pc = "delete", !.lim = registry] \in Request
    BY Zenon DEF TypeOK, Request
  <2>2. adm' \in [Admins -> Request]
    BY Zenon, <1>11, <2>1 DEF TypeOK, CloseAgain
  <2> QED BY Zenon, <1>11, <2>2 DEF TypeOK, bounds, file, CloseAgain
<1>12. CASE CloseNotify(a)
  <2>1. adm[a].lim \in Gens
    BY Zenon, <1>12 DEF HoldsOK, CloseNotify
  <2>2. lim' \in [Gens -> Limiter]
    BY <1>12, <2>1 DEF TypeOK, CloseNotify, Notify, Limiter
  <2>3. adm' \in [Admins -> Request]
    <3>1. [adm[a] EXCEPT !.pc = "delete", !.closing = FALSE] \in Request
      BY Zenon DEF TypeOK, Request
    <3> QED BY Zenon, <1>12, <3>1 DEF TypeOK, CloseNotify
  <2> QED BY Zenon, <1>12, <2>2, <2>3 DEF TypeOK, bounds, file, CloseNotify
<1>13. CASE UnregisterDelete(a)
  BY Zenon, <1>0, <1>8, <1>13 DEF TypeOK, bounds, file, UnregisterDelete
<1>14. CASE Register(a)
  <2>1. adm[a].new \in 0..MaxGen
    BY Zenon DEF TypeOK, Request
  <2> QED BY Zenon, <1>0, <1>14, <2>1 DEF TypeOK, bounds, file, Register
<1> QED
  BY Zenon, <1>1, <1>2, <1>3, <1>4, <1>5, <1>6, <1>7, <1>9, <1>10, <1>11, <1>12,
     <1>13, <1>14 DEF AdminStep
-----------------------------------------------------------------------------
(* The wakeup argument.  A parked accept loop is justified while its       *)
(* limiter is open and blocked, or a notify is still to come.              *)

Justified(g) == (lim[g].blocked /\ ~lim[g].closed) \/ NotifyPending(g)

\* Steps of everyone but the accept loops: for each limiter someone waits on,
\* either the channel is replaced, or a justification is not taken away.
LEMMA WakeupFrame ==
  ASSUME TypeOK, HoldsOK, ChannelsOK, NoMissedWakeup, acc' = acc,
         \A g \in Gens : (\E s \in Services : acc[s].lim = g) =>
           \/ lim'[g].waitCh = lim[g].waitCh + 1
           \/ /\ lim'[g].waitCh = lim[g].waitCh
              /\ Justified(g) => Justified(g)'
  PROVE  ChannelsOK' /\ NoMissedWakeup'
<1>1. ASSUME NEW s \in Services, acc[s].pc \in {"check", "parked"}
      PROVE  /\ acc[s].lim \in Gens /\ acc[s].ch \in Nat
             /\ lim[acc[s].lim].waitCh \in Nat
             /\ acc[s].ch <= lim[acc[s].lim].waitCh
  BY Zenon, <1>1 DEF TypeOK, HoldsOK, ChannelsOK, Acceptor, Limiter
<1>2. ChannelsOK'
  BY <1>1 DEF ChannelsOK
<1>3. ASSUME NEW s \in Services, NEW g \in Gens, ParkedOn(s, g),
             acc[s].ch = lim'[g].waitCh
      PROVE  Justified(g)'
  <2>1. acc[s].lim = g /\ acc[s].pc = "parked"
    BY Zenon, <1>3 DEF ParkedOn
  <2>2. lim'[g].waitCh = lim[g].waitCh /\ (Justified(g) => Justified(g)')
    BY <1>1, <1>3, <2>1
  <2>3. Justified(g)
    BY Zenon, <1>3, <2>2 DEF NoMissedWakeup, Justified
  <2> QED BY Zenon, <2>2, <2>3
<1>4. NoMissedWakeup'
  BY Zenon, <1>3 DEF NoMissedWakeup, ParkedOn, Justified
<1> QED BY Zenon, <1>2, <1>4

\* Limiter.run clears blocked only with its own notify still to come.
LEMMA RunWakeup ==
  ASSUME IInv, NEW g \in Gens, RunStep(g)
  PROVE  ChannelsOK' /\ NoMissedWakeup'
<1> USE DEF RunStart, RunFlushTick, RunBoundTick, RunBlockedStore, RunNotify,
            RunPersistRead, RunPersistSave, RunDone
<1>1. acc' = acc /\ adm' = adm
  BY Zenon DEF RunStep
<1>2. ASSUME NEW h \in Gens, h # g
      PROVE  lim'[h] = lim[h] /\ run'[h] = run[h]
  BY Zenon, <1>2 DEF RunStep, Notify, IInv, TypeOK
<1>3. CASE RunBlockedStore(g)
  <2>1. lim'[g].waitCh = lim[g].waitCh /\ run'[g].pc = "notify"
    BY Zenon, <1>3 DEF IInv, TypeOK, Limiter, Runner
  <2> QED BY Zenon, <1>1, <1>2, <2>1, WakeupFrame
          DEF IInv, Justified, NotifyPending
<1>4. CASE RunNotify(g)
  <2>1. lim'[g].waitCh = lim[g].waitCh + 1
    BY Zenon, <1>4 DEF Notify, IInv, TypeOK, Limiter
  <2> QED BY Zenon, <1>1, <1>2, <2>1, WakeupFrame
          DEF IInv, Justified, NotifyPending
<1>5. CASE ~RunBlockedStore(g) /\ ~RunNotify(g)
  <2>1. /\ lim'[g].waitCh = lim[g].waitCh
        /\ lim'[g].blocked = lim[g].blocked
        /\ lim'[g].closed = lim[g].closed
    BY <1>5 DEF RunStep, IInv, TypeOK, Limiter
  <2>2. run[g].pc # "notify"
    BY Zenon, <1>5 DEF RunStep
  <2> QED BY Zenon, <1>1, <1>2, <2>1, <2>2, WakeupFrame
          DEF IInv, Justified, NotifyPending
<1> QED BY Zenon, <1>3, <1>4, <1>5

\* Accept parks only after reading blocked, on a channel fetched before.
LEMMA AcceptWakeup ==
  ASSUME IInv, NEW s \in Services,
         AcceptStep(s) \/ AcceptInner(s) \/ ListenerClose(s)
  PROVE  ChannelsOK' /\ NoMissedWakeup'
<1> USE DEF AcceptGet, AcceptWaitChan, AcceptCheck, AcceptWake, AcceptAbort,
            AcceptInner, ListenerClose, AcceptMove
<1>1. lim' = lim /\ adm' = adm /\ run' = run
  BY Zenon DEF AcceptStep
<1>2. ASSUME NEW r \in Services, r # s
      PROVE  acc'[r] = acc[r]
  BY Zenon, <1>2 DEF AcceptStep, IInv, TypeOK
<1>3. acc'[s].pc = "check" => acc'[s].ch <= lim[acc'[s].lim].waitCh
  <2>1. CASE AcceptWaitChan(s)
    <3>1. lim[acc[s].lim].waitCh \in Nat
      BY Zenon, <2>1 DEF IInv, TypeOK, HoldsOK, Limiter
    <3>2. acc'[s].ch = lim[acc[s].lim].waitCh /\ acc'[s].lim = acc[s].lim
      BY Zenon, <2>1 DEF IInv, TypeOK, Acceptor
    <3> QED BY <3>1, <3>2
  <2>2. CASE ListenerClose(s)
    <3>1. /\ acc'[s].pc = acc[s].pc /\ acc'[s].ch = acc[s].ch
          /\ acc'[s].lim = acc[s].lim
      BY Zenon, <2>2 DEF IInv, TypeOK, Acceptor
    <3> QED BY Zenon, <3>1 DEF IInv, ChannelsOK
  <2>3. CASE ~AcceptWaitChan(s) /\ ~ListenerClose(s)
    BY <2>3 DEF AcceptStep, IInv, TypeOK, Acceptor
  <2> QED BY Zenon, <2>1, <2>2, <2>3
<1>4. acc'[s].pc = "parked" =>
        /\ acc'[s].ch = acc[s].ch /\ acc'[s].lim = acc[s].lim
        /\ \/ acc[s].pc = "parked"
           \/ acc[s].pc = "check" /\ Blocked(acc[s].lim)
  BY DEF AcceptStep, IInv, TypeOK, Acceptor
<1>5. ChannelsOK'
  BY Zenon, <1>1, <1>2, <1>3, <1>4 DEF IInv, ChannelsOK
<1>6. NoMissedWakeup'
  BY <1>1, <1>2, <1>4
     DEF IInv, NoMissedWakeup, ParkedOn, NotifyPending, Blocked
<1> QED BY Zenon, <1>5, <1>6

\* Connections only ever set blocked.
LEMMA ConnWakeup ==
  ASSUME IInv, NEW c \in Conns,
         \/ ConnCheck(c) \/ AddStep(c)
         \/ \E n \in 0..MaxChunk, dir \in {"in", "out"} : ConnIO(c, n, dir)
  PROVE  ChannelsOK' /\ NoMissedWakeup'
<1>1. acc' = acc /\ adm' = adm /\ run' = run
  BY Zenon DEF AddStep, ConnCheck, ConnIO, ConnCount, ConnDirty, ConnBlock
<1>2. ASSUME NEW g \in Gens
      PROVE  /\ lim'[g].waitCh = lim[g].waitCh
             /\ lim'[g].closed = lim[g].closed
             /\ lim[g].blocked => lim'[g].blocked
  <2>0. lim \in [Gens -> Limiter] /\ lim[g] \in Limiter
    BY Zenon DEF IInv, TypeOK
  <2>1. CASE lim' = lim
    BY Zenon, <2>1
  <2>2. CASE ConnCount(c)
    BY Zenon, <2>0, <2>2 DEF ConnCount, Limiter
  <2>3. CASE ConnDirty(c)
    BY Zenon, <2>0, <2>3 DEF ConnDirty, Limiter
  <2>4. CASE ConnBlock(c)
    BY Zenon, <2>0, <2>4 DEF ConnBlock, Block, Limiter
  <2> QED BY Zenon, <2>1, <2>2, <2>3, <2>4 DEF AddStep, ConnCheck, ConnIO
<1> QED BY Zenon, <1>1, <1>2, WakeupFrame DEF IInv, Justified, NotifyPending

\* Starting a request touches no limiter that anyone waits on.
LEMMA StartWakeup ==
  ASSUME IInv, NEW a \in Admins,
         \/ ResetQuota(a) \/ DeleteQuota(a)
         \/ \E c \in Configs : CreateQuota(a, c) \/ UpdateQuota(a, c)
  PROVE  ChannelsOK' /\ NoMissedWakeup'
<1>1. acc' = acc
  BY Zenon DEF ResetQuota, DeleteQuota, CreateQuota, UpdateQuota, AdminStart
<1>2. /\ ~adm[a].closing /\ adm[a].pc # "notify"
      /\ \A b \in Admins : b # a => adm'[b] = adm[b]
  BY Zenon DEF ResetQuota, DeleteQuota, CreateQuota, UpdateQuota, AdminStart, IInv,
         TypeOK, ClosingOK
<1>3. ASSUME NEW g \in Gens, g < nextGen
      PROVE  lim'[g] = lim[g] /\ run'[g] = run[g]
  <2>1. CASE ResetQuota(a) \/ DeleteQuota(a)
    BY Zenon, <2>1 DEF ResetQuota, DeleteQuota
  <2>2. ASSUME NEW c \in Configs, Allocate(c)
        PROVE  lim'[g] = lim[g] /\ run'[g] = run[g]
    <3>1. g # nextGen
      BY <1>3 DEF IInv, TypeOK, Gens
    <3> QED BY Zenon, <2>2, <3>1 DEF Allocate, IInv, TypeOK
  <2> QED BY Zenon, <2>1, <2>2 DEF CreateQuota, UpdateQuota
<1>4. ASSUME NEW g \in Gens, g < nextGen, Justified(g)
      PROVE  Justified(g)'
  BY Zenon, <1>2, <1>3, <1>4 DEF Justified, NotifyPending
<1> QED BY Zenon, <1>1, <1>3, <1>4, WakeupFrame DEF IInv, RefsOK

\* A request that clears blocked or sets closed has its notify to come.
LEMMA AdminWakeup ==
  ASSUME IInv, NEW a \in Admins, AdminStep(a)
  PROVE  ChannelsOK' /\ NoMissedWakeup'
<1> DEFINE Pending(b, g) == /\ adm[b].lim = g
                            /\ adm[b].closing \/ adm[b].pc = "notify"
<1>1. acc' = acc /\ run' = run
  BY Zenon DEF AdminStep, ResetUsed, Reevaluate, ReevaluateStore, ReevaluateNotify,
         FlushNow, PersistRead, PersistSave, UnregisterNone, Close, CloseAgain,
         CloseNotify, UnregisterDelete, Register
<1>2. \A b \in Admins : b # a => adm'[b] = adm[b]
  BY Zenon DEF AdminStep, ResetUsed, Reevaluate, ReevaluateStore, ReevaluateNotify,
         FlushNow, PersistRead, PersistSave, UnregisterNone, Close, CloseAgain,
         CloseNotify, UnregisterDelete, Register, IInv, TypeOK
<1>3. ASSUME NEW g \in Gens,
             lim'[g].waitCh = lim[g].waitCh,
             \/ Pending(a, g)'
             \/ /\ ~Pending(a, g)
                /\ lim'[g].blocked = lim[g].blocked
                /\ lim'[g].closed = lim[g].closed
      PROVE  /\ lim'[g].waitCh = lim[g].waitCh
             /\ Justified(g) => Justified(g)'
  BY Zenon, <1>1, <1>2, <1>3 DEF Justified, NotifyPending
<1>4. ASSUME lim' = lim, \A g \in Gens : Pending(a, g) => Pending(a, g)'
      PROVE  ChannelsOK' /\ NoMissedWakeup'
  BY Zenon, <1>1, <1>2, <1>4, WakeupFrame DEF IInv, Justified, NotifyPending
<1>5. CASE \E v \in ResetValues : ResetUsed(a, v)
  <2>1. ASSUME NEW g \in Gens
        PROVE  /\ lim'[g].waitCh = lim[g].waitCh /\ ~Pending(a, g)
               /\ lim'[g].blocked = lim[g].blocked
               /\ lim'[g].closed = lim[g].closed
    BY <1>5 DEF ResetUsed, IInv, TypeOK, HoldsOK, ClosingOK, Limiter
  <2> QED BY Zenon, <1>1, <1>3, <2>1, WakeupFrame DEF IInv
<1>6. CASE Reevaluate(a)
  <2>1. lim' = lim /\ \A g \in Gens : ~Pending(a, g)
    BY Zenon, <1>6 DEF Reevaluate, IInv, ClosingOK
  <2> QED BY Zenon, <1>4, <2>1
<1>7. CASE ReevaluateStore(a)
  <2>1. adm[a].lim \in Gens /\ ~adm[a].closing /\ adm[a].pc = "store"
    BY Zenon, <1>7 DEF ReevaluateStore, IInv, HoldsOK, ClosingOK
  <2>2. ASSUME NEW g \in Gens
        PROVE  /\ lim'[g].waitCh = lim[g].waitCh
               /\ lim'[g].closed = lim[g].closed
               /\ g # adm[a].lim => lim'[g].blocked = lim[g].blocked
               /\ g = adm[a].lim => lim'[g].blocked = adm[a].val
    BY Zenon, <1>7, <2>1 DEF ReevaluateStore, IInv, TypeOK, Limiter
  <2>3. /\ adm'[a].lim = adm[a].lim
        /\ ~adm[a].val => adm'[a].pc = "notify"
    BY Zenon, <1>7 DEF ReevaluateStore, IInv, TypeOK, Request
  <2>4. adm[a].val \in BOOLEAN
    BY Zenon DEF IInv, TypeOK, Request
  <2>5. ASSUME NEW g \in Gens
        PROVE  Justified(g) => Justified(g)'
    BY Zenon, <1>1, <1>2, <2>1, <2>2, <2>3, <2>4 DEF Justified, NotifyPending
  <2> QED BY Zenon, <1>1, <2>2, <2>5, WakeupFrame DEF IInv
<1>8. ASSUME adm[a].lim \in Gens, Notify(adm[a].lim)
      PROVE  ChannelsOK' /\ NoMissedWakeup'
  <2>1. ASSUME NEW g \in Gens
        PROVE  IF g = adm[a].lim THEN lim'[g].waitCh = lim[g].waitCh + 1
               ELSE lim'[g] = lim[g]
    BY Zenon, <1>8 DEF Notify, IInv, TypeOK, Limiter
  <2> QED BY Zenon, <1>1, <1>3, <2>1, WakeupFrame DEF IInv
<1>9. CASE ReevaluateNotify(a) \/ CloseNotify(a)
  BY Zenon, <1>8, <1>9 DEF ReevaluateNotify, CloseNotify, IInv, HoldsOK
<1>10. CASE FlushNow(a)
  <2>1. ASSUME NEW g \in Gens
        PROVE  /\ lim'[g].waitCh = lim[g].waitCh
               /\ lim'[g].blocked = lim[g].blocked
               /\ lim'[g].closed = lim[g].closed
    BY Zenon, <1>10 DEF FlushNow, IInv, TypeOK, HoldsOK, Limiter
  <2>2. /\ adm[a].pc = "flush" /\ adm'[a].lim = adm[a].lim
        /\ adm'[a].closing = adm[a].closing
    BY Zenon, <1>10 DEF FlushNow, IInv, TypeOK, Request
  <2> QED BY Zenon, <1>1, <1>3, <2>1, <2>2, WakeupFrame DEF IInv
<1>11. CASE PersistRead(a) \/ PersistSave(a)
  <2>1. /\ lim' = lim /\ adm[a].pc # "notify"
        /\ adm[a].closing => /\ adm'[a].lim = adm[a].lim
                             /\ adm'[a].closing
    <3>1. adm \in [Admins -> Request] /\ adm[a] \in Request
      BY Zenon DEF IInv, TypeOK
    <3>2. CASE PersistRead(a)
      BY Zenon, <3>1, <3>2 DEF PersistRead, Request
    <3>3. CASE PersistSave(a)
      BY Zenon, <3>1, <3>3 DEF PersistSave, Request
    <3> QED BY Zenon, <1>11, <3>2, <3>3
  <2> QED BY Zenon, <1>4, <2>1
<1>12. CASE UnregisterNone(a) \/ CloseAgain(a) \/ UnregisterDelete(a)
            \/ Register(a)
  <2>1. lim' = lim /\ \A g \in Gens : ~Pending(a, g)
    BY Zenon, <1>12 DEF UnregisterNone, CloseAgain, UnregisterDelete, Register, IInv,
                 ClosingOK
  <2> QED BY Zenon, <1>4, <2>1
<1>13. CASE Close(a)
  <2>0. registry \in Gens
    BY <1>13, ConstantsAssumption DEF Close, IInv, TypeOK, Gens
  <2>1. ~adm[a].closing /\ adm[a].pc = "unregister"
    BY Zenon, <1>13 DEF Close, IInv, ClosingOK
  <2>2. adm'[a].lim = registry /\ adm'[a].closing
    BY Zenon, <1>13 DEF Close, IInv, TypeOK, Request
  <2>3. ASSUME NEW g \in Gens
        PROVE  /\ lim'[g].waitCh = lim[g].waitCh
               /\ g # registry => lim'[g] = lim[g]
    BY Zenon, <1>13 DEF Close, IInv, TypeOK, Limiter
  <2> QED BY Zenon, <1>1, <1>3, <2>0, <2>1, <2>2, <2>3, WakeupFrame DEF IInv
<1> QED
  BY Zenon, <1>5, <1>6, <1>7, <1>9, <1>10, <1>11, <1>12, <1>13 DEF AdminStep
-----------------------------------------------------------------------------
(* The bookkeeping invariants.                                             *)

\* A goroutine's record is replaced only by its own steps; the others keep
\* what they hold.
LEMMA RunBooks ==
  ASSUME IInv, NEW g \in Gens, RunStep(g)
  PROVE  HoldsOK' /\ RefsOK' /\ ClosingOK'
<1>1. UNCHANGED <<acc, conn, adm, registry, nextGen>>
  BY Zenon DEF RunStep, RunStart, RunFlushTick, RunBoundTick, RunBlockedStore,
         RunNotify, RunPersistRead, RunPersistSave, RunDone
<1> QED BY Zenon, <1>1 DEF IInv, HoldsOK, RefsOK, ClosingOK

\* Accept changes its own locals only, and takes its limiter from the registry.
LEMMA AcceptBooks ==
  ASSUME IInv, NEW s \in Services,
         AcceptStep(s) \/ AcceptInner(s) \/ ListenerClose(s)
  PROVE  HoldsOK' /\ RefsOK' /\ ClosingOK'
<1> USE DEF AcceptGet, AcceptWaitChan, AcceptCheck, AcceptWake, AcceptAbort,
            AcceptInner, ListenerClose, AcceptMove
<1>1. UNCHANGED <<conn, adm, registry, nextGen>>
  BY Zenon DEF AcceptStep
<1>2. \A r \in Services : r # s => acc'[r] = acc[r]
  BY Zenon DEF AcceptStep, IInv, TypeOK
<1>3. \/ acc'[s].lim = 0 /\ acc'[s].pc \in {"idle", "inner", "closed"}
      \/ acc'[s].lim = acc[s].lim /\ acc'[s].pc = acc[s].pc
      \/ acc'[s].lim = acc[s].lim /\ acc[s].pc \in {"waitchan", "check"}
      \/ acc'[s].lim = registry /\ acc'[s].pc = "waitchan" /\ registry # 0
      \/ acc'[s].lim = registry /\ acc'[s].pc = "inner"
  <2>1. CASE AcceptGet(s)
    BY Zenon, <2>1 DEF IInv, TypeOK, Acceptor
  <2>2. CASE AcceptWaitChan(s)
    BY Zenon, <2>2 DEF IInv, TypeOK, Acceptor
  <2>3. CASE AcceptCheck(s)
    BY Zenon, <2>3 DEF IInv, TypeOK, Acceptor
  <2>4. CASE AcceptWake(s) \/ AcceptAbort(s) \/ AcceptInner(s)
    BY <2>4 DEF IInv, TypeOK, Acceptor
  <2>5. CASE ListenerClose(s)
    BY Zenon, <2>5 DEF IInv, TypeOK, Acceptor
  <2> QED BY Zenon, <2>1, <2>2, <2>3, <2>4, <2>5 DEF AcceptStep
<1>4. registry # 0 => registry \in Gens
  BY ConstantsAssumption DEF IInv, TypeOK, Gens
<1>5. acc'[s].pc \in {"waitchan", "check", "parked"} => acc'[s].lim \in Gens
  BY Zenon, <1>3, <1>4 DEF IInv, HoldsOK
<1>6. acc'[s].lim < nextGen
  BY <1>3 DEF IInv, RefsOK, TypeOK
<1>7. HoldsOK'
  BY Zenon, <1>1, <1>2, <1>5 DEF IInv, HoldsOK
<1>8. RefsOK'
  BY Zenon, <1>1, <1>2, <1>6 DEF IInv, RefsOK
<1> QED BY Zenon, <1>1, <1>7, <1>8 DEF IInv, ClosingOK

\* A connection takes its limiter from the registry.
LEMMA ConnBooks ==
  ASSUME IInv, NEW c \in Conns,
         \/ ConnCheck(c) \/ AddStep(c)
         \/ \E n \in 0..MaxChunk, dir \in {"in", "out"} : ConnIO(c, n, dir)
  PROVE  HoldsOK' /\ RefsOK' /\ ClosingOK'
<1> USE DEF AddStep, ConnCheck, ConnIO, ConnCount, ConnDirty, ConnBlock
<1>1. UNCHANGED <<acc, adm, registry, nextGen>>
  BY Zenon
<1>2. \A d \in Conns : d # c => conn'[d] = conn[d]
  BY Zenon DEF IInv, TypeOK
<1>3. \/ conn'[c].pc = "idle"
      \/ conn[c].pc # "idle" /\ conn'[c].lim = conn[c].lim
      \/ registry # 0 /\ conn'[c].lim = registry
  BY DEF IInv, TypeOK, Connection, IdleConn
<1>4. registry # 0 => registry \in Gens
  BY SMTT(30), ConstantsAssumption DEF IInv, TypeOK, Gens
<1>5. conn'[c].pc # "idle" => conn'[c].lim \in Gens
  BY Zenon, <1>3, <1>4 DEF IInv, HoldsOK
<1> QED BY Zenon, <1>1, <1>2, <1>5 DEF IInv, HoldsOK, RefsOK, ClosingOK

\* A request starts with the registered limiter, a new one, or none.
LEMMA StartBooks ==
  ASSUME IInv, NEW a \in Admins,
         \/ ResetQuota(a) \/ DeleteQuota(a)
         \/ \E c \in Configs : CreateQuota(a, c) \/ UpdateQuota(a, c)
  PROVE  HoldsOK' /\ RefsOK' /\ ClosingOK'
<1>0. registry \in 0..MaxGen /\ (registry # 0 => registry \in Gens)
      /\ registry < nextGen /\ nextGen \in Nat /\ nextGen > 1
  BY ConstantsAssumption DEF IInv, TypeOK, RefsOK, Gens
<1>1. ASSUME NEW pc \in {"reset", "register", "unregister"},
             NEW old \in Int, NEW new \in Int,
             AdminStart(a, pc, old, new), nextGen' \in Int,
             nextGen <= nextGen', old < nextGen', new < nextGen',
             pc = "reset" => old \in Gens,
             pc = "register" => new \in Gens
      PROVE  HoldsOK' /\ RefsOK' /\ ClosingOK'
  <2>1. UNCHANGED <<acc, conn, registry>>
    BY Zenon, <1>1 DEF AdminStart
  <2>2. /\ adm[a].pc = "idle" /\ adm'[a].pc = pc
        /\ adm'[a].lim = old /\ adm'[a].new = new
        /\ adm'[a].closing = adm[a].closing
        /\ \A b \in Admins : b # a => adm'[b] = adm[b]
    BY Zenon, <1>1 DEF AdminStart, IInv, TypeOK, Request
  <2>3. HoldsOK'
    BY Zenon, <1>1, <2>1, <2>2 DEF IInv, HoldsOK
  <2>4. ClosingOK'
    BY Zenon, <1>1, <2>2 DEF IInv, ClosingOK
  <2>5. ASSUME NEW s \in Services PROVE acc'[s].lim < nextGen'
    BY SMTT(30), <1>0, <1>1, <2>1 DEF IInv, TypeOK, RefsOK, Acceptor
  <2>6. ASSUME NEW b \in Admins
        PROVE  adm'[b].lim < nextGen' /\ adm'[b].new < nextGen'
    <3>1. adm[b].lim \in Int /\ adm[b].new \in Int
      BY DEF IInv, TypeOK, Request
    <3> QED BY <1>0, <1>1, <2>2, <3>1 DEF IInv, RefsOK
  <2>7. nextGen' > 1 /\ registry' < nextGen'
    BY <1>0, <1>1, <2>1
  <2>8. RefsOK'
    BY Zenon, <2>5, <2>6, <2>7 DEF RefsOK
  <2> QED BY Zenon, <2>3, <2>4, <2>8
<1>2. CASE ResetQuota(a)
  BY <1>0, <1>1, <1>2 DEF ResetQuota
<1>3. CASE DeleteQuota(a)
  BY <1>0, <1>1, <1>3 DEF DeleteQuota
<1>4. ASSUME NEW c \in Configs, CreateQuota(a, c) \/ UpdateQuota(a, c)
      PROVE  HoldsOK' /\ RefsOK' /\ ClosingOK'
  <2>1. nextGen \in Gens /\ nextGen' = nextGen + 1
    BY Zenon, <1>4, AllocateType DEF CreateQuota, UpdateQuota, IInv
  <2> QED BY <1>0, <1>1, <1>4, <2>1 DEF CreateQuota, UpdateQuota
<1> QED BY Zenon, <1>2, <1>3, <1>4

\* A request under way keeps its limiter, or takes the registered one to close.
LEMMA AdminBooks ==
  ASSUME IInv, NEW a \in Admins, AdminStep(a)
  PROVE  HoldsOK' /\ RefsOK' /\ ClosingOK'
<1> USE DEF ResetUsed, Reevaluate, ReevaluateStore, ReevaluateNotify,
            FlushNow, PersistRead, PersistSave, UnregisterNone, Close,
            CloseAgain, CloseNotify, UnregisterDelete, Register
<1>0. /\ registry # 0 => registry \in Gens
      /\ adm[a].new # 0 => adm[a].new \in Gens
      /\ nextGen \in Nat /\ nextGen > 1 /\ registry < nextGen
      /\ adm[a].lim < nextGen /\ adm[a].new < nextGen
  BY ConstantsAssumption DEF IInv, TypeOK, RefsOK, Request, Gens
<1>1. UNCHANGED <<acc, conn, nextGen>>
  BY Zenon DEF AdminStep
<1>2. \A b \in Admins : b # a => adm'[b] = adm[b]
  BY Zenon DEF AdminStep, IInv, TypeOK
<1>3. registry' < nextGen
  <2>1. registry' \in {registry, 0, adm[a].new}
    BY Zenon DEF AdminStep
  <2> QED BY <1>0, <2>1
<1> DEFINE Held == {"reset", "eval", "store", "notify", "flush", "read",
                    "save", "cnotify", "delete"}
<1>4. /\ adm'[a].lim \in {0, registry, adm[a].lim}
      /\ adm'[a].new \in {0, adm[a].new}
      /\ adm'[a].pc \in Held => \/ adm[a].pc \in Held
                                   /\ adm'[a].lim = adm[a].lim
                                \/ registry # 0 /\ adm'[a].lim = registry
      /\ adm'[a].pc = "register" => adm[a].new # 0 /\ adm'[a].new = adm[a].new
      /\ adm'[a].closing => adm'[a].pc \in {"flush", "read", "save", "cnotify"}
      /\ adm'[a].pc = "cnotify" => adm'[a].closing
  <2> USE DEF IInv, TypeOK, Request, ClosingOK
  <2>1. CASE \E v \in ResetValues : ResetUsed(a, v)
    BY <2>1
  <2>2. CASE Reevaluate(a)
    BY Zenon, <2>2
  <2>3. CASE ReevaluateStore(a)
    BY Zenon, <2>3
  <2>4. CASE ReevaluateNotify(a)
    BY Zenon, <2>4
  <2>5. CASE FlushNow(a)
    BY Zenon, <2>5
  <2>6. CASE PersistRead(a)
    BY Zenon, <2>6
  <2>7. CASE PersistSave(a)
    BY Zenon, <2>7 DEF IdleAdmin
  <2>8. CASE UnregisterNone(a) \/ UnregisterDelete(a)
    BY <2>8 DEF AfterUnregister, IdleAdmin
  <2>9. CASE Close(a)
    BY Zenon, <2>9
  <2>10. CASE CloseAgain(a)
    BY Zenon, <2>10
  <2>11. CASE CloseNotify(a)
    BY Zenon, <2>11
  <2>12. CASE Register(a)
    BY Zenon, <2>12 DEF IdleAdmin
  <2> QED BY Zenon, <2>1, <2>2, <2>3, <2>4, <2>5, <2>6, <2>7, <2>8, <2>9, <2>10,
             <2>11, <2>12 DEF AdminStep
<1>5. HoldsOK'
  BY Zenon, <1>0, <1>1, <1>2, <1>4 DEF IInv, HoldsOK
<1>6. RefsOK'
  BY <1>0, <1>1, <1>2, <1>3, <1>4 DEF IInv, RefsOK
<1>7. ClosingOK'
  BY Zenon, <1>2, <1>4 DEF IInv, ClosingOK
<1> QED BY Zenon, <1>5, <1>6, <1>7
-----------------------------------------------------------------------------
\* A process that has just started is parked nowhere and holds no limiter.
LEMMA FreshMemory ==
  ASSUME NEW t \in Nat, NEW rec \in Record
  PROVE  /\ \A s \in Services : /\ Memory(t, rec).acc[s].pc = "idle"
                                /\ Memory(t, rec).acc[s].lim = 0
         /\ \A c \in Conns : Memory(t, rec).conn[c] = IdleConn
         /\ \A a \in Admins : Memory(t, rec).adm[a] = IdleAdmin
<1>1. /\ Memory(t, rec).acc =
           [s \in Services |-> [pc |-> "idle", lim |-> 0, ch |-> 0,
                                done |-> FALSE]]
      /\ Memory(t, rec).conn = [c \in Conns |-> IdleConn]
      /\ Memory(t, rec).adm = [a \in Admins |-> IdleAdmin]
  BY Zenon DEF Memory
<1> QED BY <1>1

\* The invariant holds when the process starts.
LEMMA InitIInv == Init => IInv
<1> SUFFICES ASSUME Init PROVE IInv
  BY Zenon
<1>1. TypeOK
  <2>1. /\ lim \in [Gens -> Limiter] /\ run \in [Gens -> Runner]
        /\ acc \in [Services -> Acceptor] /\ conn \in [Conns -> Connection]
        /\ adm \in [Admins -> Request]
    BY Zenon, MemoryType, NoRecordType DEF Init
  <2>2. /\ now \in Nat /\ nextGen \in Nat /\ registry \in 0..MaxGen
        /\ ops \in Nat /\ restarts \in Nat /\ failures \in Nat
    BY ConstantsAssumption DEF Init
  <2>3. store \in Record /\ disk \in Record
    BY Zenon, NoRecordType DEF Init
  <2> QED BY Zenon, <2>1, <2>2, <2>3 DEF TypeOK
<1>2. /\ \A s \in Services : acc[s].pc = "idle" /\ acc[s].lim = 0
      /\ \A c \in Conns : conn[c] = IdleConn
      /\ \A a \in Admins : adm[a] = IdleAdmin
  BY Zenon, FreshMemory, NoRecordType DEF Init
<1>3. HoldsOK /\ ClosingOK
  BY <1>2 DEF HoldsOK, ClosingOK, IdleConn, IdleAdmin
<1>4. RefsOK
  BY <1>2 DEF Init, RefsOK, IdleAdmin
<1>5. ChannelsOK /\ NoMissedWakeup
  BY Zenon, <1>2 DEF ChannelsOK, NoMissedWakeup, ParkedOn
<1> QED BY Zenon, <1>1, <1>3, <1>4, <1>5 DEF IInv

\* A restart starts over from whatever the file holds.
LEMMA RestartPreserves ==
  ASSUME IInv, Restart
  PROVE  IInv'
<1>1. TypeOK'
  <2>1. /\ now \in Nat /\ disk \in Record
        /\ restarts' \in Nat /\ failures' \in Nat
    BY DEF IInv, TypeOK, Restart, file
  <2>2. /\ lim' \in [Gens -> Limiter] /\ run' \in [Gens -> Runner]
        /\ acc' \in [Services -> Acceptor] /\ conn' \in [Conns -> Connection]
        /\ adm' \in [Admins -> Request]
    BY Zenon, <2>1, MemoryType DEF Restart
  <2>3. /\ now' \in Nat /\ nextGen' \in Nat /\ registry' \in 0..MaxGen
        /\ ops' \in Nat
    BY <2>1, ConstantsAssumption DEF Restart, IInv, TypeOK
  <2>4. store' \in Record /\ disk' \in Record
    BY Zenon, <2>1 DEF Restart, file
  <2> QED BY Zenon, <2>1, <2>2, <2>3, <2>4 DEF TypeOK
<1>2. /\ \A s \in Services : acc'[s].pc = "idle" /\ acc'[s].lim = 0
      /\ \A c \in Conns : conn'[c] = IdleConn
      /\ \A a \in Admins : adm'[a] = IdleAdmin
  BY Zenon, FreshMemory DEF Restart, IInv, TypeOK
<1>3. HoldsOK' /\ ClosingOK'
  BY <1>2 DEF HoldsOK, ClosingOK, IdleConn, IdleAdmin
<1>4. RefsOK'
  <2>1. nextGen' = 2 /\ registry' = 1
    BY Zenon DEF Restart
  <2>2. \A a \in Admins : adm'[a].lim = 0 /\ adm'[a].new = 0
    BY <1>2 DEF IdleAdmin
  <2> QED BY <1>2, <2>1, <2>2 DEF RefsOK
<1>5. ChannelsOK' /\ NoMissedWakeup'
  BY Zenon, <1>2 DEF ChannelsOK, NoMissedWakeup, ParkedOn
<1> QED BY Zenon, <1>1, <1>3, <1>4, <1>5 DEF IInv

\* Every step of every goroutine keeps the invariant.
LEMMA NextIInv == IInv /\ [Next]_vars => IInv'
<1> SUFFICES ASSUME IInv, [Next]_vars PROVE IInv'
  BY Zenon
<1>1. CASE UNCHANGED vars
  BY <1>1 DEF vars, procs, bounds, file, IInv, TypeOK, HoldsOK, RefsOK, ClosingOK,
     ChannelsOK, NoMissedWakeup, ParkedOn, NotifyPending
<1>2. CASE Tick
  <2>1. TypeOK'
    BY SMTT(30), <1>2 DEF Tick, procs, bounds, file, IInv, TypeOK
  <2>2. HoldsOK' /\ RefsOK' /\ ClosingOK'
    BY Zenon, <1>2 DEF Tick, procs, IInv, HoldsOK, RefsOK, ClosingOK
  <2>3. ChannelsOK' /\ NoMissedWakeup'
    BY Zenon, <1>2 DEF Tick, procs, IInv, ChannelsOK, NoMissedWakeup, ParkedOn,
       NotifyPending
  <2> QED BY Zenon, <2>1, <2>2, <2>3 DEF IInv
<1>3. CASE Restart
  BY Zenon, <1>3, RestartPreserves
<1>4. CASE \E g \in Gens : RunStep(g)
  BY Zenon, <1>4, RunType, RunBooks, RunWakeup DEF IInv
<1>5. CASE \E s \in Services :
             AcceptStep(s) \/ AcceptInner(s) \/ ListenerClose(s)
  BY Zenon, <1>5, AcceptType, AcceptBooks, AcceptWakeup DEF IInv
<1>6. CASE \E c \in Conns :
             \/ ConnCheck(c) \/ AddStep(c)
             \/ \E n \in 0..MaxChunk, dir \in {"in", "out"} : ConnIO(c, n, dir)
  BY Zenon, <1>6, ConnType, ConnBooks, ConnWakeup DEF IInv
<1>7. CASE \E a \in Admins :
             \/ ResetQuota(a) \/ DeleteQuota(a)
             \/ \E c \in Configs : CreateQuota(a, c) \/ UpdateQuota(a, c)
  BY Zenon, <1>7, StartType, StartBooks, StartWakeup DEF IInv
<1>8. CASE \E a \in Admins : AdminStep(a)
  BY Zenon, <1>8, AdminType, AdminBooks, AdminWakeup DEF IInv
<1> QED BY Zenon, <1>1, <1>2, <1>3, <1>4, <1>5, <1>6, <1>7, <1>8 DEF Next

\* Type correctness of the quota, its goroutines and its requests.
THEOREM TypeCorrect == Spec => []TypeOK
<1>1. IInv => TypeOK
  BY Zenon DEF IInv
<1> QED BY InitIInv, NextIInv, <1>1, PTL DEF Spec

\* An accept loop parked on a limiter's current channel has not missed the
\* notification: quotaListener.Accept fetches the channel before it reads
\* Blocked, and whoever clears blocked or closes the limiter notifies after.
THEOREM WakeupNotMissed == Spec => []NoMissedWakeup
<1>1. IInv => NoMissedWakeup
  BY Zenon DEF IInv
<1> QED BY InitIInv, NextIInv, <1>1, PTL DEF Spec

-----------------------------------------------------------------------------
(* While no API request is made: the limit stops the service, no counted   *)
(* byte escapes the flush, and the limit is passed by less than a chunk    *)
(* for each connection.                                                    *)


\* Somebody has yet to flush what was added: the flag is set, or is about to be.
Marked == lim[1].dirty \/ \E c \in Conns : conn[c].lim = 1 /\ conn[c].pc = "dirty"

\* Somebody is about to block the quota.
Blocking ==
  \E c \in Conns : /\ conn[c].lim = 1
                   /\ conn[c].pc \in {"dirty", "block"}
                   /\ conn[c].sum >= lim[1].conf.limit

SameWindow(rec) ==
  rec.startsAt = InitConfig.startsAt /\ rec.expiresAt = InitConfig.expiresAt

\* Only the first limiter is in use.
OneLimiter ==
  /\ \A a \in Admins : adm[a].pc = "idle"
  /\ registry = 1
  /\ lim[1].conf = InitConfig /\ ~lim[1].closed
  /\ \A g \in Gens : g # 1 => run[g].pc = "none"
  /\ \A c \in Conns : conn[c].pc # "idle" => conn[c].lim = 1

\* The store and its file hold nothing or a record of this window, and what the
\* store does not hold yet, or will not after the save under way, is marked.
StoreFollows ==
  /\ store = NoRecord \/ SameWindow(store)
  /\ disk = NoRecord \/ SameWindow(disk)
  /\ run[1].pc = "save" => SameWindow(run[1].rec)
  /\ run[1].pc = "save" /\ run[1].rec.used # lim[1].used => Marked
  /\ store.used # lim[1].used => Marked \/ run[1].pc \in {"read", "save"}

\* With a window that is open from the start, the boundary tick finds that it
\* closed and nothing else, so it never lifts a block that is enforced.
BlockFollows ==
  InitConfig.startsAt = 0 =>
    /\ run[1].pc # "start" /\ ~run[1].was => ~Active(1)
    /\ run[1].pc = "store" => ~Active(1)
    /\ Exhausted(1) => lim[1].blocked \/ Blocking

TInv == IInv /\ (ops = 0 => OneLimiter /\ StoreFollows /\ BlockFollows)

\* There is a first limiter.
LEMMA FirstGen == 1 \in Gens
BY ConstantsAssumption DEF Gens

\* A process that starts with a record of this window, or none, has counted
\* what the record says, and blocks at once if that is the limit.
LEMMA FreshTraffic ==
  ASSUME NEW t \in Nat, NEW rec \in Record, rec = NoRecord \/ SameWindow(rec)
  PROVE  LET l == Memory(t, rec).lim[1] IN
         /\ l.conf = InitConfig /\ ~l.closed /\ l.used = rec.used
         /\ l.conf.limit > 0 /\ InWindow(l.conf, t) /\ l.used >= l.conf.limit => l.blocked
<1>1. Memory(t, rec).lim[1] = NewLimiter(InitConfig, rec, t)
  BY Zenon, FirstGen DEF Memory
<1>2. Restored(InitConfig, rec) = rec.used
  BY ConstantsAssumption DEF Restored, NoRecord, SameWindow, Config
<1> DEFINE b == /\ InitConfig.limit > 0 /\ InWindow(InitConfig, t)
                /\ rec.used >= InitConfig.limit
<1>3. NewLimiter(InitConfig, rec, t) =
        [conf |-> InitConfig, used |-> rec.used, dirty |-> FALSE,
         closed |-> FALSE, waitCh |-> 0, blocked |-> b]
  BY Zenon, <1>2 DEF NewLimiter
<1>4. b \in BOOLEAN
  BY Zenon DEF InWindow
<1> HIDE DEF b
<1>5. LET l == NewLimiter(InitConfig, rec, t) IN
      l.conf = InitConfig /\ l.closed = FALSE /\ l.used = rec.used /\ l.blocked = b
  BY <1>3, <1>4
<1> QED BY Zenon, <1>1, <1>5 DEF b

\* The process has just started, for the first time or again.
LEMMA FreshKeeps ==
  ASSUME NEW t \in Nat, NEW rec \in Record, rec = NoRecord \/ SameWindow(rec),
         now' = t, store' = rec, disk' = rec, registry' = 1,
         lim' = Memory(t, rec).lim, run' = Memory(t, rec).run,
         conn' = Memory(t, rec).conn, adm' = Memory(t, rec).adm
  PROVE  OneLimiter' /\ StoreFollows' /\ BlockFollows'
<1>1. /\ lim'[1].conf = InitConfig /\ ~lim'[1].closed /\ lim'[1].used = rec.used
      /\ lim'[1].conf.limit > 0 /\ InWindow(lim'[1].conf, t)
           /\ lim'[1].used >= lim'[1].conf.limit => lim'[1].blocked
  <2> DEFINE l == Memory(t, rec).lim[1]
  <2>1. /\ l.conf = InitConfig /\ ~l.closed /\ l.used = rec.used
        /\ l.conf.limit > 0 /\ InWindow(l.conf, t) /\ l.used >= l.conf.limit => l.blocked
    BY Zenon, FreshTraffic
  <2>2. lim'[1] = l
    BY Zenon
  <2> HIDE DEF l
  <2> QED BY Zenon, <2>1, <2>2
<1>2. /\ run'[1].pc = "start"
      /\ \A g \in Gens : g # 1 => run'[g].pc = "none"
      /\ \A c \in Conns : conn'[c].pc = "idle"
      /\ \A a \in Admins : adm'[a].pc = "idle"
  BY Zenon, FirstGen DEF Memory, IdleConn, IdleAdmin
<1>3. OneLimiter'
  BY Zenon, <1>1, <1>2 DEF OneLimiter
<1>4. StoreFollows'
  BY Zenon, <1>1, <1>2 DEF StoreFollows, SameWindow
<1>5. BlockFollows'
  BY Zenon, <1>1, <1>2 DEF BlockFollows, Exhausted, Enforcing, Active
<1> QED BY Zenon, <1>3, <1>4, <1>5

\* The first start.
LEMMA InitTInv == Init => TInv
<1> SUFFICES ASSUME Init PROVE TInv
  BY Zenon
<1>1. IInv
  BY Zenon, InitIInv
<1>2. /\ lim[1].conf = InitConfig /\ ~lim[1].closed /\ lim[1].used = NoRecord.used
      /\ lim[1].conf.limit > 0 /\ InWindow(lim[1].conf, 0)
           /\ lim[1].used >= lim[1].conf.limit => lim[1].blocked
  BY FreshTraffic, NoRecordType DEF Init
<1>3. /\ run[1].pc = "start"
      /\ \A g \in Gens : g # 1 => run[g].pc = "none"
      /\ \A c \in Conns : conn[c].pc = "idle"
      /\ \A a \in Admins : adm[a].pc = "idle"
  BY Zenon, FirstGen DEF Init, Memory, IdleConn, IdleAdmin
<1>4. OneLimiter
  BY Zenon, <1>2, <1>3 DEF OneLimiter, Init
<1>5. StoreFollows
  BY Zenon, <1>2, <1>3 DEF StoreFollows, Init
<1>6. BlockFollows
  BY Zenon, <1>2, <1>3 DEF BlockFollows, Exhausted, Enforcing, Active, Init
<1> QED BY Zenon, <1>1, <1>4, <1>5, <1>6 DEF TInv

\* Limiter.run: a flush takes the mark with it, a boundary tick unblocks only
\* outside the window.
LEMMA RunTraffic ==
  ASSUME TypeOK, OneLimiter, StoreFollows, BlockFollows, NEW g \in Gens, RunStep(g)
  PROVE  OneLimiter' /\ StoreFollows' /\ BlockFollows'
<1> USE FirstGen
<1>0. /\ lim \in [Gens -> Limiter] /\ lim[1] \in Limiter
      /\ run \in [Gens -> Runner] /\ run[1] \in Runner
  BY Zenon DEF TypeOK
<1>1. g = 1
  BY Zenon DEF OneLimiter, RunStep, RunStart, RunFlushTick, RunBoundTick,
     RunBlockedStore, RunNotify, RunPersistRead, RunPersistSave, RunDone
<1>2. UNCHANGED <<now, registry, acc, conn, adm>>
  BY Zenon DEF RunStep, RunStart, RunFlushTick, RunBoundTick,
     RunBlockedStore, RunNotify, RunPersistRead, RunPersistSave, RunDone
<1>3. /\ run' = [run EXCEPT ![1] = run'[1]]
      /\ lim' = [lim EXCEPT ![1] = lim'[1]]
  BY Zenon, <1>0, <1>1 DEF RunStep, RunStart, RunFlushTick, RunBoundTick, Notify,
     RunBlockedStore, RunNotify, RunPersistRead, RunPersistSave, RunDone
<1>4. \A h \in Gens : h # 1 => run'[h] = run[h]
  BY Zenon, <1>0, <1>3
<1>6. CASE RunStart(g)
  <2>1. /\ lim' = lim /\ UNCHANGED <<store, disk>> /\ run'[1].pc = "loop"
        /\ run'[1].was = Active(1)
    BY Zenon, <1>0, <1>1, <1>6 DEF RunStart, file, Runner
  <2>2. OneLimiter'
    BY Zenon, <1>2, <1>4, <2>1 DEF OneLimiter
  <2>3. StoreFollows'
    BY Zenon, <1>1, <1>2, <1>6, <2>1 DEF StoreFollows, Marked, RunStart
  <2>4. BlockFollows'
    BY Zenon, <1>2, <2>1 DEF BlockFollows, Active, Exhausted, Enforcing, Blocking
  <2> QED BY Zenon, <2>2, <2>3, <2>4
<1>7. CASE RunFlushTick(g)
  <2>1. /\ lim'[1] = [lim[1] EXCEPT !.dirty = FALSE] /\ UNCHANGED <<store, disk>>
        /\ run'[1] = [run[1] EXCEPT !.pc = "read"]
    BY Zenon, <1>0, <1>1, <1>7 DEF RunFlushTick, file
  <2>2. /\ run'[1].pc = "read" /\ run'[1].was = run[1].was /\ run[1].pc = "loop"
        /\ lim'[1].conf = lim[1].conf /\ lim'[1].closed = lim[1].closed
        /\ lim'[1].used = lim[1].used /\ lim'[1].blocked = lim[1].blocked
    BY Zenon, <1>0, <1>1, <1>7, <2>1 DEF RunFlushTick, Runner, Limiter
  <2>3. OneLimiter'
    BY <1>2, <1>4, <2>2 DEF OneLimiter
  <2>4. StoreFollows'
    BY Zenon, <2>1, <2>2 DEF StoreFollows
  <2>5. BlockFollows'
    BY Zenon, <1>2, <2>2 DEF BlockFollows, Active, Exhausted, Enforcing, Blocking
  <2> QED BY Zenon, <2>3, <2>4, <2>5
<1>8. CASE RunBoundTick(g)
  <2>1. /\ lim' = lim /\ UNCHANGED <<store, disk>> /\ run[1].pc = "loop"
        /\ run'[1].pc = "store" /\ run'[1].was = Active(1) /\ Active(1) # run[1].was
    BY Zenon, <1>0, <1>1, <1>8 DEF RunBoundTick, file, Runner
  <2>2. OneLimiter'
    BY Zenon, <1>2, <1>4, <2>1 DEF OneLimiter
  <2>3. StoreFollows'
    BY Zenon, <1>2, <2>1 DEF StoreFollows, Marked
  <2>4. BlockFollows'
    <3>1. Active(1) \in BOOLEAN /\ run[1].was \in BOOLEAN
      BY Zenon, <1>0, BooleanValues DEF Runner
    <3>2. InitConfig.startsAt = 0 => ~Active(1)
      BY Zenon, <2>1, <3>1 DEF BlockFollows
    <3>3. Active(1)' = Active(1) /\ Exhausted(1)' = Exhausted(1)
      BY Zenon, <1>2, <2>1 DEF Active, Exhausted, Enforcing
    <3> QED BY Zenon, <3>2, <3>3 DEF BlockFollows, Exhausted, Enforcing
  <2> QED BY Zenon, <2>2, <2>3, <2>4
<1>9. CASE RunBlockedStore(g)
  <2>1. /\ lim'[1] = [lim[1] EXCEPT !.blocked = run[1].val] /\ UNCHANGED <<store, disk>>
        /\ run'[1].pc = "notify" /\ run'[1].was = run[1].was /\ run[1].pc = "store"
    BY Zenon, <1>0, <1>1, <1>9 DEF RunBlockedStore, file, Runner
  <2>2. /\ lim'[1].conf = lim[1].conf /\ lim'[1].closed = lim[1].closed
        /\ lim'[1].used = lim[1].used /\ lim'[1].dirty = lim[1].dirty
    BY Zenon, <1>0, <2>1 DEF Limiter
  <2>3. OneLimiter'
    BY <1>2, <1>4, <2>1, <2>2 DEF OneLimiter
  <2>4. StoreFollows'
    BY Zenon, <1>2, <2>1, <2>2 DEF StoreFollows, Marked
  <2>5. BlockFollows'
    BY Zenon, <1>2, <2>1, <2>2 DEF BlockFollows, Active, Exhausted, Enforcing
  <2> QED BY Zenon, <2>3, <2>4, <2>5
<1>10. CASE RunNotify(g)
  <2>1. /\ lim'[1] = [lim[1] EXCEPT !.waitCh = @ + 1] /\ UNCHANGED <<store, disk>>
        /\ run'[1].pc = "read" /\ run'[1].was = run[1].was /\ run[1].pc = "notify"
    BY Zenon, <1>0, <1>1, <1>10 DEF RunNotify, file, Notify, Runner
  <2>2. /\ lim'[1].conf = lim[1].conf /\ lim'[1].closed = lim[1].closed
        /\ lim'[1].used = lim[1].used /\ lim'[1].blocked = lim[1].blocked
    BY Zenon, <1>0, <2>1 DEF Limiter
  <2>3. OneLimiter'
    BY <1>2, <1>4, <2>1, <2>2 DEF OneLimiter
  <2>4. StoreFollows'
    BY Zenon, <2>1 DEF StoreFollows
  <2>5. BlockFollows'
    BY Zenon, <1>2, <2>1, <2>2 DEF BlockFollows, Active, Exhausted, Enforcing, Blocking
  <2> QED BY Zenon, <2>3, <2>4, <2>5
<1>11. CASE RunPersistRead(g)
  <2>1. /\ lim' = lim /\ UNCHANGED <<store, disk>> /\ run[1].pc = "read"
        /\ run'[1].pc = "save" /\ run'[1].was = run[1].was /\ run'[1].rec = RecordOf(1)
    BY Zenon, <1>0, <1>1, <1>11 DEF RunPersistRead, file, Runner
  <2>2. OneLimiter'
    BY Zenon, <1>2, <1>4, <2>1 DEF OneLimiter
  <2>3. StoreFollows'
    BY <2>1 DEF StoreFollows, RecordOf, SameWindow, OneLimiter
  <2>4. BlockFollows'
    BY Zenon, <1>2, <2>1 DEF BlockFollows, Active, Exhausted, Enforcing, Blocking
  <2> QED BY Zenon, <2>2, <2>3, <2>4
<1>12. CASE RunPersistSave(g)
  <2>1. /\ lim' = lim /\ store' = run[1].rec /\ run[1].pc = "save"
        /\ run'[1].pc = "loop" /\ run'[1].was = run[1].was
    BY Zenon, <1>0, <1>1, <1>12 DEF RunPersistSave, Save, Runner
  <2>2. OneLimiter'
    BY Zenon, <1>2, <1>4, <2>1 DEF OneLimiter
  <2>3. StoreFollows'
    <3>1. disk' \in {run[1].rec, disk}
      BY Zenon, <1>1, <1>12 DEF RunPersistSave, Save
    <3> QED BY Zenon, <1>2, <2>1, <3>1 DEF StoreFollows, Marked, SameWindow
  <2>4. BlockFollows'
    BY Zenon, <1>2, <2>1 DEF BlockFollows, Active, Exhausted, Enforcing, Blocking
  <2> QED BY Zenon, <2>2, <2>3, <2>4
<1>13. CASE RunDone(g)
  BY Zenon, <1>1, <1>13 DEF RunDone, OneLimiter
<1> QED BY Zenon, <1>6, <1>7, <1>8, <1>9, <1>10, <1>11, <1>12, <1>13 DEF RunStep

\* A connection: Limiter.add marks what it added, and blocks when its own sum
\* says that the limit is reached.
LEMMA ConnTraffic ==
  ASSUME TypeOK, OneLimiter, StoreFollows, BlockFollows, NEW c \in Conns,
         \/ ConnCheck(c) \/ AddStep(c)
         \/ \E n \in 0..MaxChunk, dir \in {"in", "out"} : ConnIO(c, n, dir)
  PROVE  OneLimiter' /\ StoreFollows' /\ BlockFollows'
<1> USE FirstGen
<1>0. /\ lim \in [Gens -> Limiter] /\ lim[1] \in Limiter
      /\ conn \in [Conns -> Connection] /\ conn[c] \in Connection
  BY Zenon DEF TypeOK
<1>1. UNCHANGED <<now, registry, store, disk, run, acc, adm>>
  BY Zenon DEF ConnCheck, ConnIO, AddStep, ConnCount, ConnDirty, ConnBlock, file
<1>2. conn' = [conn EXCEPT ![c] = conn'[c]]
  BY Zenon, <1>0 DEF ConnCheck, ConnIO, AddStep, ConnCount, ConnDirty, ConnBlock
<1>3. \A d \in Conns : d # c => conn'[d] = conn[d]
  BY Zenon, <1>0, <1>2
<1>4. CASE ConnCheck(c) \/ \E n \in 0..MaxChunk, dir \in {"in", "out"} : ConnIO(c, n, dir)
  <2>1. /\ lim' = lim /\ conn[c].pc \in {"idle", "io"}
        /\ conn'[c].pc \in {"idle", "io", "count"}
        /\ conn'[c].pc # "idle" => conn'[c].lim = 1
    <3>1. CASE ConnCheck(c)
      BY Zenon, <1>0, <3>1 DEF ConnCheck, OneLimiter, Connection
    <3>2. ASSUME NEW n \in 0..MaxChunk, NEW dir \in {"in", "out"}, ConnIO(c, n, dir)
          PROVE  /\ lim' = lim /\ conn[c].pc = "io"
                 /\ conn'[c].pc \in {"idle", "io", "count"}
                 /\ conn'[c].pc # "idle" => conn'[c].lim = 1
      BY Zenon, <1>0, <3>2 DEF ConnIO, OneLimiter, IdleConn
    <3> QED BY Zenon, <1>4, <3>1, <3>2
  <2>2. OneLimiter'
    BY Zenon, <1>1, <1>3, <2>1 DEF OneLimiter
  <2>3. Marked => Marked'
    BY Zenon, <1>3, <2>1 DEF Marked
  <2>4. StoreFollows'
    BY Zenon, <1>1, <2>1, <2>3 DEF StoreFollows
  <2>5. Blocking => Blocking'
    BY Zenon, <1>3, <2>1 DEF Blocking
  <2>6. BlockFollows'
    BY Zenon, <1>1, <2>1, <2>5 DEF BlockFollows, Active, Exhausted, Enforcing
  <2> QED BY Zenon, <2>2, <2>4, <2>6
<1>5. CASE ConnCount(c)
  <2>1. conn[c].lim = 1 /\ conn[c].pc = "count" /\ conn[c].sum \in Nat
    BY Zenon, <1>0, <1>5 DEF ConnCount, OneLimiter, Connection
  <2>2. /\ lim'[1] = [lim[1] EXCEPT !.used = lim[1].used + conn[c].sum]
        /\ conn'[c] = [conn[c] EXCEPT !.pc = "dirty", !.sum = lim[1].used + conn[c].sum]
    BY Zenon, <1>0, <1>5, <2>1 DEF ConnCount
  <2>3. /\ lim'[1].conf = lim[1].conf /\ lim'[1].closed = lim[1].closed
        /\ lim'[1].blocked = lim[1].blocked
        /\ lim'[1].used = lim[1].used + conn[c].sum
    BY Zenon, <1>0, <2>2 DEF Limiter
  <2>4. conn'[c].pc = "dirty" /\ conn'[c].lim = 1 /\ conn'[c].sum = lim'[1].used
    BY Zenon, <1>0, <2>1, <2>2, <2>3 DEF Connection
  <2>5. OneLimiter'
    BY Zenon, <1>1, <1>3, <2>3, <2>4 DEF OneLimiter
  <2>6. Marked'
    BY Zenon, <2>4 DEF Marked
  <2>7. StoreFollows'
    BY Zenon, <1>1, <2>6 DEF StoreFollows
  <2>8. Exhausted(1)' => Blocking'
    BY Zenon, <2>4 DEF Exhausted, Blocking
  <2>9. Active(1)' = Active(1)
    BY Zenon, <1>1, <2>3 DEF Active
  <2>10. BlockFollows'
    BY Zenon, <1>1, <2>8, <2>9 DEF BlockFollows
  <2> QED BY Zenon, <2>5, <2>7, <2>10
<1>6. CASE ConnDirty(c)
  <2>1. conn[c].lim = 1 /\ conn[c].pc = "dirty"
    BY Zenon, <1>6 DEF ConnDirty, OneLimiter
  <2> DEFINE over == lim[1].conf.limit > 0 /\ conn[c].sum >= lim[1].conf.limit
  <2>2. /\ lim'[1] = [lim[1] EXCEPT !.dirty = TRUE]
        /\ conn'[c] = IF over THEN [conn[c] EXCEPT !.pc = "block"] ELSE IdleConn
    BY Zenon, <1>0, <1>6, <2>1 DEF ConnDirty
  <2>3. /\ lim'[1].conf = lim[1].conf /\ lim'[1].closed = lim[1].closed
        /\ lim'[1].blocked = lim[1].blocked /\ lim'[1].used = lim[1].used
        /\ lim'[1].dirty
    BY Zenon, <1>0, <2>2 DEF Limiter
  <2>4. /\ over => conn'[c].pc = "block" /\ conn'[c].lim = 1 /\ conn'[c].sum = conn[c].sum
        /\ ~over => conn'[c].pc = "idle"
    BY <1>0, <2>1, <2>2 DEF Connection, IdleConn
  <2>5. OneLimiter'
    BY <1>1, <1>3, <2>3, <2>4 DEF OneLimiter
  <2>6. StoreFollows'
    BY Zenon, <1>1, <2>3 DEF StoreFollows, Marked
  <2>7. lim[1].conf.limit > 0 /\ Blocking => Blocking'
    <3> SUFFICES ASSUME lim[1].conf.limit > 0, Blocking PROVE Blocking'
      BY Zenon
    <3>1. PICK d \in Conns : /\ conn[d].lim = 1 /\ conn[d].pc \in {"dirty", "block"}
                             /\ conn[d].sum >= lim[1].conf.limit
      BY Zenon DEF Blocking
    <3>2. CASE d = c
      <4>1. over
        BY Zenon, <3>1, <3>2
      <4> QED BY Zenon, <2>3, <2>4, <3>1, <3>2, <4>1 DEF Blocking
    <3>3. CASE d # c
      BY Zenon, <1>3, <2>3, <3>1, <3>3 DEF Blocking
    <3> QED BY Zenon, <3>2, <3>3
  <2>8. Active(1)' = Active(1) /\ Exhausted(1)' = Exhausted(1)
    BY Zenon, <1>1, <2>3 DEF Active, Exhausted, Enforcing
  <2>9. BlockFollows'
    BY Zenon, <1>1, <2>3, <2>7, <2>8 DEF BlockFollows, Exhausted, Enforcing
  <2> QED BY Zenon, <2>5, <2>6, <2>9
<1>7. CASE ConnBlock(c)
  <2>1. conn[c].lim = 1 /\ conn[c].pc = "block"
    BY Zenon, <1>7 DEF ConnBlock, OneLimiter
  <2>2. lim'[1] = [lim[1] EXCEPT !.blocked = TRUE] /\ conn'[c] = IdleConn
    BY Zenon, <1>0, <1>7, <2>1 DEF ConnBlock, Block
  <2>3. /\ lim'[1].conf = lim[1].conf /\ lim'[1].closed = lim[1].closed
        /\ lim'[1].blocked /\ lim'[1].used = lim[1].used
        /\ lim'[1].dirty = lim[1].dirty /\ conn'[c].pc = "idle"
    BY SMTT(30), <1>0, <2>2 DEF Limiter, IdleConn
  <2>4. OneLimiter'
    BY <1>1, <1>3, <2>3 DEF OneLimiter
  <2>5. Marked => Marked'
    BY Zenon, <1>3, <2>1, <2>3 DEF Marked
  <2>6. StoreFollows'
    BY Zenon, <1>1, <2>3, <2>5 DEF StoreFollows
  <2>7. Active(1)' = Active(1)
    BY Zenon, <1>1, <2>3 DEF Active
  <2>8. BlockFollows'
    BY Zenon, <1>1, <2>3, <2>7 DEF BlockFollows
  <2> QED BY Zenon, <2>4, <2>6, <2>8
<1> QED BY Zenon, <1>4, <1>5, <1>6, <1>7 DEF AddStep

\* Time passes: a window that is open from the start only closes.
LEMMA TickTraffic ==
  ASSUME TypeOK, OneLimiter, StoreFollows, BlockFollows, Tick
  PROVE  OneLimiter' /\ StoreFollows' /\ BlockFollows'
<1>1. now' = now + 1 /\ UNCHANGED <<lim, registry, store, disk, run, conn, adm>> /\ now \in Nat
  BY Zenon DEF Tick, procs, file, TypeOK
<1>2. InitConfig.expiresAt \in Nat
  BY Zenon, ConstantsAssumption DEF Config
<1>3. InitConfig.startsAt = 0 /\ Active(1)' => Active(1)
  BY <1>1, <1>2 DEF Active, InWindow, OneLimiter
<1>4. OneLimiter' /\ StoreFollows'
  BY Zenon, <1>1 DEF OneLimiter, StoreFollows, Marked
<1>5. BlockFollows'
  BY Zenon, <1>1, <1>3 DEF BlockFollows, Exhausted, Enforcing, Blocking
<1> QED BY Zenon, <1>4, <1>5

\* Every step keeps the invariant; an API request ends the guarantee.
LEMMA NextTInv == TInv /\ [Next]_vars => TInv'
<1> SUFFICES ASSUME TInv, [Next]_vars PROVE TInv'
  BY Zenon
<1>1. IInv'
  BY Zenon, NextIInv DEF TInv
<1>2. TypeOK
  BY Zenon DEF TInv, IInv
<1> SUFFICES ASSUME ops' = 0 PROVE OneLimiter' /\ StoreFollows' /\ BlockFollows'
  BY Zenon, <1>1 DEF TInv
<1>3. CASE \E a \in Admins :
             \/ ResetQuota(a) \/ DeleteQuota(a)
             \/ \E c \in Configs : CreateQuota(a, c) \/ UpdateQuota(a, c)
  <2>1. ops' = ops + 1 /\ ops \in Nat
    BY Zenon, <1>2, <1>3 DEF ResetQuota, DeleteQuota, CreateQuota, UpdateQuota,
       AdminStart, TypeOK
  <2> QED BY <2>1
<1>4. CASE ~\E a \in Admins :
             \/ ResetQuota(a) \/ DeleteQuota(a)
             \/ \E c \in Configs : CreateQuota(a, c) \/ UpdateQuota(a, c)
  <2>1. CASE UNCHANGED vars
    BY Zenon, <2>1 DEF vars, procs, bounds, file, TInv, OneLimiter, StoreFollows,
       BlockFollows, Marked, Blocking, Active, Exhausted, Enforcing
  <2>2. CASE Tick
    BY Zenon, <1>2, <2>2, TickTraffic DEF TInv, Tick, bounds, file
  <2>3. CASE Restart
    <3>1. ops = 0 /\ now' = now /\ store' = disk /\ disk' = disk /\ registry' = 1
      BY Zenon, <2>3 DEF Restart, file
    <3>2. disk = NoRecord \/ SameWindow(disk)
      BY Zenon, <3>1 DEF TInv, StoreFollows
    <3>3. now \in Nat /\ disk \in Record
      BY Zenon, <1>2 DEF TypeOK
    <3> QED BY Zenon, <2>3, <3>1, <3>2, <3>3, FreshKeeps DEF Restart
  <2>4. CASE \E g \in Gens : RunStep(g)
    <3>1. ops' = ops
      BY Zenon, <2>4 DEF RunStep, RunStart, RunFlushTick, RunBoundTick,
         RunBlockedStore, RunNotify, RunPersistRead, RunPersistSave, RunDone, bounds, file
    <3> QED BY Zenon, <1>2, <2>4, <3>1, RunTraffic DEF TInv
  <2>5. CASE \E s \in Services : AcceptStep(s) \/ AcceptInner(s) \/ ListenerClose(s)
    <3>1. UNCHANGED <<now, registry, store, disk, run, conn, adm, lim, ops>>
      BY Zenon, <2>5 DEF AcceptStep, AcceptGet, AcceptWaitChan, AcceptCheck, AcceptWake,
         AcceptAbort, AcceptInner, ListenerClose, AcceptMove, bounds, file
    <3> QED BY Zenon, <3>1 DEF TInv, OneLimiter, StoreFollows, BlockFollows, Marked,
            Blocking, Active, Exhausted, Enforcing
  <2>6. CASE \E c \in Conns :
               \/ ConnCheck(c) \/ AddStep(c)
               \/ \E n \in 0..MaxChunk, dir \in {"in", "out"} : ConnIO(c, n, dir)
    <3>1. ops' = ops
      BY Zenon, <2>6 DEF ConnCheck, ConnIO, AddStep, ConnCount, ConnDirty, ConnBlock, bounds, file
    <3> QED BY Zenon, <1>2, <2>6, <3>1, ConnTraffic DEF TInv
  <2>7. CASE \E a \in Admins : AdminStep(a)
    <3>1. ops' = ops
      BY Zenon, <2>7 DEF AdminStep, ResetUsed, Reevaluate, ReevaluateStore,
         ReevaluateNotify, FlushNow, PersistRead, PersistSave, UnregisterNone,
         Close, CloseAgain, CloseNotify, UnregisterDelete, Register, bounds, file
    <3>2. \A a \in Admins : adm[a].pc = "idle"
      BY Zenon, <3>1 DEF TInv, OneLimiter
    <3> QED BY Zenon, <2>7, <3>2 DEF AdminStep, ResetUsed, Reevaluate, ReevaluateStore,
         ReevaluateNotify, FlushNow, PersistRead, PersistSave, UnregisterNone,
         Close, CloseAgain, CloseNotify, UnregisterDelete, Register
  <2> QED BY Zenon, <1>4, <2>1, <2>2, <2>3, <2>4, <2>5, <2>6, <2>7 DEF Next
<1> QED BY Zenon, <1>3, <1>4

\* A counter that has reached its limit stops the service at once, or an add
\* that saw it is about to: Limiter.add, NewLimiter after a restart and the
\* boundary tick of Limiter.run never leave it open.
THEOREM LimitStops == Spec => []StopsAtLimit
<1>1. TInv => StopsAtLimit
  BY Zenon DEF TInv, BlockFollows, StopsAtLimit, Blocking
<1> QED BY InitTInv, NextTInv, <1>1, PTL DEF Spec

\* No byte Limiter.add counted escapes the flush ticker of Limiter.run, across
\* any number of flushes, boundary ticks and restarts.
THEOREM FlushIsPending == Spec => []FlushPending
<1>1. TInv => FlushPending
  BY Zenon DEF TInv, StoreFollows, FlushPending, Marked
<1> QED BY InitTInv, NextTInv, <1>1, PTL DEF Spec
-----------------------------------------------------------------------------
(* How far the counter goes past the limit.                                *)

\* The connections whose bytes may still be added.  (A window that is open from
\* the start does not open again.)
Through == {c \in Conns : conn[c].pc = "count" \/ (conn[c].pc = "io" /\ Active(1))}

\* Those that have seen the limit reached and have yet to block.
Seen == {c \in Conns : conn[c].pc \in {"dirty", "block"} /\ conn[c].sum >= InitConfig.limit}

\* A chunk for each of the connections of a set.
Chunks(S) == Cardinality(S) * MaxChunk
Most == InitConfig.limit + Chunks(Conns)

\* Past the limit, there is room for what is still to be added; while nobody
\* has blocked, each that added past the limit is one that has seen it.
Overshoot ==
  InitConfig.startsAt = 0 /\ InitConfig.limit > 0 =>
    /\ \A c \in Conns : conn[c].pc = "count" => conn[c].sum <= MaxChunk
    /\ store.used < Most /\ disk.used < Most
    /\ run[1].pc = "save" => run[1].rec.used < Most
    /\ lim[1].used < InitConfig.limit \/ lim[1].used + Chunks(Through) < Most
    /\ Exhausted(1) /\ ~lim[1].blocked => lim[1].used < InitConfig.limit + Chunks(Seen)

OInv == TInv /\ (ops = 0 => Overshoot)

\* Products of naturals.
LEMMA Times ==
  \A a, b, m \in Nat : /\ a * m \in Nat
                       /\ (a + b) * m = a * m + b * m
                       /\ (a + 1) * m = a * m + m
                       /\ a <= b => a * m <= b * m
<1> SUFFICES ASSUME NEW a \in Nat, NEW b \in Nat, NEW m \in Nat
             PROVE  /\ a * m \in Nat
                    /\ (a + b) * m = a * m + b * m
                    /\ (a + 1) * m = a * m + m
                    /\ a <= b => a * m <= b * m
  BY Zenon
<1>1. a * m \in Nat /\ b * m \in Nat
  BY SMT
<1>2. (a + b) * m = a * m + b * m
  BY SMT
<1>3. (a + 1) * m = a * m + m
  BY SMT
<1>4. ASSUME a <= b PROVE a * m <= b * m
  <2>1. PICK d \in Nat : b = a + d
    <3>1. b - a \in Nat /\ b = a + (b - a)
      BY <1>4
    <3> QED BY Zenon, <3>1
  <2>2. b * m = a * m + d * m /\ d * m \in Nat
    BY <2>1, SMT
  <2> QED BY <1>1, <2>2
<1> QED BY Zenon, <1>1, <1>2, <1>3, <1>4

\* The chunks of sets of connections.
LEMMA ChunksAre ==
  /\ \A S \in SUBSET Conns : Chunks(S) \in Nat
  /\ \A S, T \in SUBSET Conns : S \subseteq T => Chunks(S) <= Chunks(T)
  /\ \A S \in SUBSET Conns : \A x \in Conns \ S : Chunks(S \cup {x}) = Chunks(S) + MaxChunk
  /\ \A S, T \in SUBSET Conns : S \cap T = {} => Chunks(S) + Chunks(T) <= Chunks(Conns)
  /\ Chunks({}) = 0 /\ MaxChunk \in Nat
<1>1. MaxChunk \in Nat /\ IsFiniteSet(Conns)
  BY Zenon, ConstantsAssumption
<1>2. \A S \in SUBSET Conns : IsFiniteSet(S) /\ Cardinality(S) \in Nat
  BY Zenon, <1>1, FS_Subset, FS_CardinalityType
<1>3. \A S \in SUBSET Conns : Chunks(S) \in Nat
  BY Zenon, <1>1, <1>2, Times DEF Chunks
<1>4. \A S, T \in SUBSET Conns : S \subseteq T => Chunks(S) <= Chunks(T)
  <2>1. \A S, T \in SUBSET Conns : S \subseteq T => Cardinality(S) <= Cardinality(T)
    BY Zenon, <1>2, FS_Subset
  <2> QED BY Zenon, <1>1, <1>2, <2>1, Times DEF Chunks
<1>5. \A S \in SUBSET Conns : \A x \in Conns \ S : Chunks(S \cup {x}) = Chunks(S) + MaxChunk
  <2>1. \A S \in SUBSET Conns : \A x \in Conns \ S : Cardinality(S \cup {x}) = Cardinality(S) + 1
    BY Zenon, <1>2, FS_AddElement
  <2> SUFFICES ASSUME NEW S \in SUBSET Conns, NEW x \in Conns \ S
               PROVE  Chunks(S \cup {x}) = Chunks(S) + MaxChunk
    BY Zenon
  <2>2. Cardinality(S) \in Nat /\ Cardinality(S \cup {x}) = Cardinality(S) + 1
    BY Zenon, <1>2, <2>1
  <2>3. (Cardinality(S) + 1) * MaxChunk = Cardinality(S) * MaxChunk + MaxChunk
    BY Zenon, <1>1, <2>2, Times
  <2> QED BY Zenon, <2>2, <2>3 DEF Chunks
<1>6. ASSUME NEW S \in SUBSET Conns, NEW T \in SUBSET Conns, S \cap T = {}
      PROVE  Chunks(S) + Chunks(T) <= Chunks(Conns)
  <2>1. Cardinality(S \cup T) = Cardinality(S) + Cardinality(T)
    <3>1. Cardinality(S \cup T) = Cardinality(S) + Cardinality(T) - Cardinality(S \cap T)
      BY Zenon, <1>2, FS_Union
    <3> QED BY <1>2, <1>6, <3>1, FS_EmptySet
  <2>2. Chunks(S \cup T) = Chunks(S) + Chunks(T)
    BY <1>1, <1>2, <2>1, Times DEF Chunks
  <2>3. S \cup T \in SUBSET Conns /\ Conns \in SUBSET Conns
    BY Zenon
  <2> QED BY Zenon, <1>4, <2>2, <2>3
<1>7. Chunks({}) = 0
  BY <1>1, FS_EmptySet DEF Chunks
<1> QED BY Zenon, <1>1, <1>3, <1>4, <1>5, <1>6, <1>7

\* The counter is never past what there is room for.
LEMMA UsedIsBounded ==
  ASSUME TypeOK, Overshoot, InitConfig.startsAt = 0, InitConfig.limit > 0
  PROVE  lim[1].used < Most /\ lim[1].used \in Nat
<1>1. lim[1].used \in Nat /\ InitConfig.limit \in Nat
  BY Zenon, FirstGen, ConstantsAssumption DEF TypeOK, Limiter, Config
<1>2. Chunks(Through) \in Nat /\ Chunks(Conns) \in Nat
  BY Zenon, ChunksAre DEF Through
<1> QED BY <1>1, <1>2 DEF Overshoot, Most

\* A step that moves no bytes and lifts no block that is enforced.
LEMMA QuietKeeps ==
  ASSUME TypeOK, Overshoot, lim'[1].used = lim[1].used, conn' = conn,
         InitConfig.startsAt = 0 /\ InitConfig.limit > 0 =>
           /\ Active(1)' => Active(1)
           /\ Exhausted(1)' /\ ~lim'[1].blocked => Exhausted(1) /\ ~lim[1].blocked
           /\ store'.used < Most /\ disk'.used < Most
           /\ run'[1].pc = "save" => run'[1].rec.used < Most
  PROVE  Overshoot'
<1> SUFFICES ASSUME InitConfig.startsAt = 0, InitConfig.limit > 0 PROVE Overshoot'
  BY Zenon DEF Overshoot
<1>1. lim[1].used \in Nat /\ InitConfig.limit \in Nat
  BY Zenon, FirstGen, ConstantsAssumption DEF TypeOK, Limiter, Config
<1>2. Through \in SUBSET Conns /\ Through' \in SUBSET Conns /\ Through' \subseteq Through
  BY Zenon DEF Through
<1>3. Seen' = Seen
  BY Zenon DEF Seen
<1>4. /\ Chunks(Through') <= Chunks(Through) /\ Chunks(Through') \in Nat
      /\ Chunks(Through) \in Nat /\ Chunks(Conns) \in Nat
  BY Zenon, <1>2, ChunksAre
<1>5. lim'[1].used < InitConfig.limit \/ lim'[1].used + Chunks(Through') < Most
  BY <1>1, <1>4 DEF Overshoot, Most
<1>6. /\ Most' = Most /\ Chunks(Through)' = Chunks(Through') /\ Chunks(Seen)' = Chunks(Seen)
  BY Zenon, <1>3 DEF Most, Chunks
<1> QED BY Zenon, <1>5, <1>6 DEF Overshoot

\* Limiter.run reads the counter and saves what it read.
LEMMA RunOver ==
  ASSUME TypeOK, OneLimiter, BlockFollows, BlockFollows', Overshoot, NEW g \in Gens, RunStep(g)
  PROVE  Overshoot'
<1> USE FirstGen
<1>0. /\ lim \in [Gens -> Limiter] /\ lim[1] \in Limiter
      /\ run \in [Gens -> Runner] /\ run[1] \in Runner
  BY Zenon DEF TypeOK
<1>1. g = 1
  BY Zenon DEF OneLimiter, RunStep, RunStart, RunFlushTick, RunBoundTick,
     RunBlockedStore, RunNotify, RunPersistRead, RunPersistSave, RunDone
<1>2. now' = now /\ conn' = conn
  BY Zenon DEF RunStep, RunStart, RunFlushTick, RunBoundTick,
     RunBlockedStore, RunNotify, RunPersistRead, RunPersistSave, RunDone
<1>3. lim'[1].used = lim[1].used /\ lim'[1].conf = lim[1].conf
  BY <1>0, <1>1 DEF RunStep, RunStart, RunFlushTick, RunBoundTick, Notify,
     RunBlockedStore, RunNotify, RunPersistRead, RunPersistSave, RunDone, Limiter
<1>4. Active(1)' = Active(1) /\ Exhausted(1)' = Exhausted(1)
  BY Zenon, <1>2, <1>3 DEF Active, Exhausted, Enforcing
<1>5. ASSUME InitConfig.startsAt = 0, InitConfig.limit > 0
      PROVE  /\ Exhausted(1) /\ ~lim'[1].blocked => ~lim[1].blocked
             /\ store'.used < Most /\ disk'.used < Most
             /\ run'[1].pc = "save" => run'[1].rec.used < Most
  <2>1. /\ store.used < Most /\ disk.used < Most
        /\ run[1].pc = "save" => run[1].rec.used < Most
    BY Zenon, <1>5 DEF Overshoot
  <2>2. lim[1].used < Most
    BY Zenon, <1>5, UsedIsBounded
  <2>3. CASE RunBlockedStore(g)
    <3>1. run[1].pc = "store" /\ UNCHANGED <<store, disk>> /\ run'[1].pc = "notify"
      BY Zenon, <1>0, <1>1, <2>3 DEF RunBlockedStore, Runner, file
    <3>2. ~Exhausted(1)
      BY Zenon, <1>5, <3>1 DEF BlockFollows, Exhausted, Enforcing
    <3> QED BY Zenon, <2>1, <3>1, <3>2
  <2>4. CASE RunPersistRead(g)
    <3>1. lim' = lim /\ UNCHANGED <<store, disk>> /\ run'[1].rec = RecordOf(1)
      BY Zenon, <1>0, <1>1, <2>4 DEF RunPersistRead, Runner, file
    <3>2. RecordOf(1).used = lim[1].used
      BY Zenon DEF RecordOf
    <3> QED BY Zenon, <2>1, <2>2, <3>1, <3>2
  <2>5. CASE RunPersistSave(g)
    <3>1. /\ lim' = lim /\ store' = run[1].rec /\ disk' \in {disk, run[1].rec}
          /\ run[1].pc = "save" /\ run'[1].pc = "loop"
      BY Zenon, <1>0, <1>1, <2>5 DEF RunPersistSave, Runner, Save
    <3> QED BY Zenon, <2>1, <3>1
  <2>6. CASE RunStart(g) \/ RunFlushTick(g) \/ RunBoundTick(g) \/ RunNotify(g) \/ RunDone(g)
    <3>1. UNCHANGED <<store, disk>> /\ lim'[1].blocked = lim[1].blocked
      BY <1>0, <1>1, <2>6 DEF RunStart, RunFlushTick, RunBoundTick, RunNotify, RunDone,
         Notify, file, Limiter
    <3>2. run'[1].pc # "save"
      <4>1. CASE RunStart(g)
        BY Zenon, <1>0, <1>1, <4>1 DEF RunStart, Runner
      <4>2. CASE RunFlushTick(g)
        BY Zenon, <1>0, <1>1, <4>2 DEF RunFlushTick, Runner
      <4>3. CASE RunBoundTick(g)
        BY Zenon, <1>0, <1>1, <4>3 DEF RunBoundTick, Runner
      <4>4. CASE RunNotify(g) \/ RunDone(g)
        BY <1>0, <1>1, <4>4 DEF RunNotify, RunDone, Runner
      <4> QED BY Zenon, <2>6, <4>1, <4>2, <4>3, <4>4
    <3> QED BY Zenon, <2>1, <3>1, <3>2
  <2> QED BY Zenon, <2>3, <2>4, <2>5, <2>6 DEF RunStep
<1> QED BY Zenon, <1>2, <1>3, <1>4, <1>5, QuietKeeps

\* A connection is let through only while nobody has blocked: then those that
\* added past the limit are not among those let through.
LEMMA ConnOver ==
  ASSUME TypeOK, OneLimiter, BlockFollows, Overshoot, NEW c \in Conns,
         \/ ConnCheck(c) \/ AddStep(c)
         \/ \E n \in 0..MaxChunk, dir \in {"in", "out"} : ConnIO(c, n, dir)
  PROVE  Overshoot'
<1> USE FirstGen
<1> SUFFICES ASSUME InitConfig.startsAt = 0, InitConfig.limit > 0 PROVE Overshoot'
  BY Zenon DEF Overshoot
<1> DEFINE L == InitConfig.limit
           u == lim[1].used
<1>0. /\ lim \in [Gens -> Limiter] /\ lim[1] \in Limiter /\ u \in Nat /\ L \in Nat
      /\ conn \in [Conns -> Connection] /\ conn[c] \in Connection
      /\ lim[1].conf = InitConfig /\ ~lim[1].closed /\ registry = 1
      /\ \A d \in Conns : conn[d].pc # "idle" => conn[d].lim = 1
  BY Zenon, ConstantsAssumption DEF TypeOK, Limiter, Config, OneLimiter
<1>1. UNCHANGED <<now, store, disk, run>>
  BY Zenon DEF ConnCheck, ConnIO, AddStep, ConnCount, ConnDirty, ConnBlock, file
<1>2. \A d \in Conns : d # c => conn'[d] = conn[d]
  BY Zenon, <1>0 DEF ConnCheck, ConnIO, AddStep, ConnCount, ConnDirty, ConnBlock
<1>3. /\ \A d \in Conns : conn[d].pc = "count" => conn[d].sum <= MaxChunk
      /\ store.used < Most /\ disk.used < Most
      /\ run[1].pc = "save" => run[1].rec.used < Most
      /\ u < L \/ u + Chunks(Through) < Most
      /\ Exhausted(1) /\ ~lim[1].blocked => u < L + Chunks(Seen)
  BY Zenon DEF Overshoot
<1>4. Most' = Most /\ Most = L + Chunks(Conns) /\ \A S : Chunks(S)' = Chunks(S)
  BY Zenon DEF Most, Chunks
<1>5. /\ Through \in SUBSET Conns /\ Through' \in SUBSET Conns
      /\ Seen \in SUBSET Conns /\ Seen' \in SUBSET Conns
      /\ Through \cap Seen = {} /\ Through' \cap Seen' = {}
  BY Zenon DEF Through, Seen
<1>6. /\ Chunks(Through) \in Nat /\ Chunks(Seen) \in Nat /\ Chunks(Conns) \in Nat
      /\ Chunks(Through') \in Nat /\ Chunks(Seen') \in Nat /\ MaxChunk \in Nat
  BY Zenon, <1>5, ChunksAre
<1>7. ASSUME \A d \in Conns : conn'[d].pc = "count" => conn'[d].sum <= MaxChunk,
             lim'[1].used < L \/ lim'[1].used + Chunks(Through') < Most,
             Exhausted(1)' /\ ~lim'[1].blocked => lim'[1].used < L + Chunks(Seen')
      PROVE  Overshoot'
  <2>1. Chunks(Through)' = Chunks(Through') /\ Chunks(Seen)' = Chunks(Seen')
    BY Zenon DEF Chunks
  <2> QED BY Zenon, <1>1, <1>3, <1>4, <1>7, <2>1 DEF Overshoot
<1> HIDE DEF u, L
<1>8. CASE ConnCheck(c)
  <2>1. /\ lim' = lim /\ conn[c].pc = "idle" /\ conn'[c].pc = "io" /\ ~Blocked(1)
    BY Zenon, <1>0, <1>8 DEF ConnCheck, Connection
  <2>2. Active(1)' = Active(1) /\ Exhausted(1)' = Exhausted(1)
    BY Zenon, <1>1, <2>1 DEF Active, Exhausted, Enforcing
  <2>3. Seen' = Seen
    BY Zenon, <1>2, <2>1 DEF Seen
  <2>4. u < L \/ u + Chunks(Through') < Most
    <3>1. CASE ~Active(1)
      <4>1. Through' = Through
        BY Zenon, <1>2, <2>1, <2>2, <3>1 DEF Through
      <4> QED BY Zenon, <1>3, <4>1
    <3>2. CASE Active(1) /\ u >= L
      <4>1. Exhausted(1) /\ ~lim[1].blocked
        BY Zenon, <1>0, <2>1, <3>2 DEF Blocked, Exhausted, Enforcing, u, L
      <4>2. u < L + Chunks(Seen)
        BY Zenon, <1>3, <4>1
      <4>3. Chunks(Through') + Chunks(Seen') <= Chunks(Conns)
        BY Zenon, <1>5, ChunksAre
      <4> QED BY SMTT(30), <1>0, <1>4, <1>6, <2>3, <4>2, <4>3
    <3> QED BY <1>0, <3>1, <3>2
  <2>5. \A d \in Conns : conn'[d].pc = "count" => conn'[d].sum <= MaxChunk
    BY Zenon, <1>2, <1>3, <2>1
  <2> QED BY Zenon, <1>3, <1>7, <2>1, <2>2, <2>3, <2>4, <2>5 DEF u
<1>9. ASSUME NEW n \in 0..MaxChunk, NEW dir \in {"in", "out"}, ConnIO(c, n, dir)
      PROVE  Overshoot'
  <2>1. /\ lim' = lim /\ conn[c].pc = "io" /\ conn'[c].pc \in {"idle", "count"}
        /\ conn'[c].pc = "count" => conn'[c].sum <= MaxChunk /\ Active(1)
    BY SMTT(30), <1>0, <1>6, <1>9 DEF ConnIO, IdleConn
  <2>2. Active(1)' = Active(1) /\ Exhausted(1)' = Exhausted(1)
    BY Zenon, <1>1, <2>1 DEF Active, Exhausted, Enforcing
  <2>3. Seen' = Seen
    BY Zenon, <1>2, <2>1 DEF Seen
  <2>4. Through' \subseteq Through
    BY Zenon, <1>2, <2>1, <2>2 DEF Through
  <2>5. Chunks(Through') <= Chunks(Through)
    BY Zenon, <1>5, <2>4, ChunksAre
  <2>6. u < L \/ u + Chunks(Through') < Most
    BY SMTT(30), <1>0, <1>3, <1>4, <1>6, <2>5
  <2>7. \A d \in Conns : conn'[d].pc = "count" => conn'[d].sum <= MaxChunk
    BY Zenon, <1>2, <1>3, <2>1
  <2> QED BY Zenon, <1>3, <1>7, <2>1, <2>2, <2>3, <2>6, <2>7 DEF u
<1>10. CASE ConnCount(c)
  <2> DEFINE n == conn[c].sum
  <2>1. conn[c].lim = 1 /\ conn[c].pc = "count" /\ n \in Nat /\ n <= MaxChunk
    BY Zenon, <1>0, <1>3, <1>10 DEF ConnCount, Connection
  <2>2. /\ lim'[1] = [lim[1] EXCEPT !.used = u + n]
        /\ conn'[c] = [conn[c] EXCEPT !.pc = "dirty", !.sum = u + n]
    BY Zenon, <1>0, <1>10, <2>1 DEF ConnCount, u
  <2>3. /\ lim'[1].conf = lim[1].conf /\ lim'[1].blocked = lim[1].blocked
        /\ lim'[1].used = u + n
    BY Zenon, <1>0, <2>2 DEF Limiter
  <2>4. conn'[c].pc = "dirty" /\ conn'[c].sum = u + n
    BY Zenon, <1>0, <2>2 DEF Connection
  <2> HIDE DEF n
  <2>5. Active(1)' = Active(1)
    BY Zenon, <1>1, <2>3 DEF Active
  <2>6. Through' = Through \ {c} /\ c \in Through /\ c \notin Seen
    BY Zenon, <1>2, <2>1, <2>4, <2>5 DEF Through, Seen
  <2>7. Chunks(Through) = Chunks(Through') + MaxChunk
    <3>1. Through = Through' \cup {c} /\ c \in Conns \ Through'
      BY Zenon, <2>6
    <3> QED BY Zenon, <1>5, <3>1, ChunksAre
  <2>8. u + n >= L => Seen' = Seen \cup {c}
    BY Zenon, <1>2, <2>4, <2>6 DEF Seen, L
  <2>9. u + n >= L => Chunks(Seen') = Chunks(Seen) + MaxChunk
    BY Zenon, <1>5, <2>6, <2>8, ChunksAre
  <2>10. Chunks(Through') + Chunks({c}) <= Chunks(Conns) /\ Chunks({c}) = MaxChunk
    <3>1. /\ {c} \in SUBSET Conns /\ {} \in SUBSET Conns /\ c \in Conns \ {}
          /\ Through' \cap {c} = {} /\ {c} = {} \cup {c}
      BY Zenon, <2>6
    <3>2. Chunks({} \cup {c}) = Chunks({}) + MaxChunk
      BY Zenon, <3>1, ChunksAre
    <3>3. Chunks({c}) = MaxChunk
      BY SMTT(30), <1>6, <3>1, <3>2, ChunksAre
    <3> QED BY Zenon, <1>5, <3>1, <3>3, ChunksAre
  <2>11. lim'[1].used < L \/ lim'[1].used + Chunks(Through') < Most
    BY SMTT(30), <1>0, <1>3, <1>4, <1>6, <2>1, <2>3, <2>7, <2>10
  <2>12. Exhausted(1)' /\ ~lim'[1].blocked => lim'[1].used < L + Chunks(Seen')
    <3> SUFFICES ASSUME Exhausted(1)', ~lim'[1].blocked PROVE u + n < L + Chunks(Seen')
      BY Zenon, <2>3
    <3>1. u + n >= L /\ Active(1)
      BY Zenon, <1>0, <2>3, <2>5 DEF Exhausted, Enforcing, L
    <3>2. u >= L => u < L + Chunks(Seen)
      BY Zenon, <1>0, <1>3, <2>3, <3>1 DEF Exhausted, Enforcing, L, u
    <3> QED BY SMTT(30), <1>0, <1>6, <2>1, <2>9, <3>1, <3>2
  <2>13. \A d \in Conns : conn'[d].pc = "count" => conn'[d].sum <= MaxChunk
    BY Zenon, <1>2, <1>3, <2>4
  <2> QED BY Zenon, <1>7, <2>11, <2>12, <2>13
<1>11. CASE ConnDirty(c)
  <2>1. conn[c].lim = 1 /\ conn[c].pc = "dirty" /\ conn[c].sum \in Nat
    BY Zenon, <1>0, <1>11 DEF ConnDirty, Connection
  <2> DEFINE over == lim[1].conf.limit > 0 /\ conn[c].sum >= lim[1].conf.limit
  <2>2. /\ lim'[1] = [lim[1] EXCEPT !.dirty = TRUE]
        /\ conn'[c] = IF over THEN [conn[c] EXCEPT !.pc = "block"] ELSE IdleConn
    BY Zenon, <1>0, <1>11, <2>1 DEF ConnDirty
  <2>3. /\ lim'[1].conf = lim[1].conf /\ lim'[1].blocked = lim[1].blocked
        /\ lim'[1].used = u
    BY Zenon, <1>0, <2>2 DEF Limiter, u
  <2>4. /\ over => conn'[c].pc = "block" /\ conn'[c].sum = conn[c].sum
        /\ ~over => conn'[c].pc = "idle"
    BY SMTT(30), <1>0, <2>2 DEF Connection, IdleConn
  <2>5. over <=> conn[c].sum >= InitConfig.limit
    BY Zenon, <1>0
  <2> HIDE DEF over
  <2>6. Active(1)' = Active(1) /\ Exhausted(1)' = Exhausted(1)
    BY Zenon, <1>1, <2>3 DEF Active, Exhausted, Enforcing, u
  <2>7. Seen' = Seen /\ Through' = Through
    BY Zenon, <1>2, <2>1, <2>4, <2>5, <2>6 DEF Seen, Through
  <2>8. \A d \in Conns : conn'[d].pc = "count" => conn'[d].sum <= MaxChunk
    BY Zenon, <1>2, <1>3, <2>4
  <2> QED BY Zenon, <1>3, <1>7, <2>3, <2>6, <2>7, <2>8
<1>12. CASE ConnBlock(c)
  <2>1. conn[c].lim = 1 /\ conn[c].pc = "block"
    BY Zenon, <1>0, <1>12 DEF ConnBlock
  <2>2. lim'[1] = [lim[1] EXCEPT !.blocked = TRUE] /\ conn'[c] = IdleConn
    BY Zenon, <1>0, <1>12, <2>1 DEF ConnBlock, Block
  <2>3. /\ lim'[1].conf = lim[1].conf /\ lim'[1].blocked /\ lim'[1].used = u
        /\ conn'[c].pc = "idle"
    BY <1>0, <2>2 DEF Limiter, IdleConn, u
  <2>4. Active(1)' = Active(1)
    BY Zenon, <1>1, <2>3 DEF Active
  <2>5. Through' = Through
    BY Zenon, <1>2, <2>1, <2>3, <2>4 DEF Through
  <2>6. \A d \in Conns : conn'[d].pc = "count" => conn'[d].sum <= MaxChunk
    BY Zenon, <1>2, <1>3, <2>3
  <2> QED BY Zenon, <1>3, <1>7, <2>3, <2>5, <2>6
<1> QED BY Zenon, <1>8, <1>9, <1>10, <1>11, <1>12 DEF AddStep

\* A process that starts has counted what its file says, and has no
\* connection yet.
LEMMA FreshOver ==
  ASSUME NEW t \in Nat, NEW rec \in Record, rec = NoRecord \/ SameWindow(rec),
         InitConfig.startsAt = 0 /\ InitConfig.limit > 0 => rec.used < Most,
         now' = t, store' = rec, disk' = rec,
         lim' = Memory(t, rec).lim, run' = Memory(t, rec).run, conn' = Memory(t, rec).conn
  PROVE  Overshoot'
<1> SUFFICES ASSUME InitConfig.startsAt = 0, InitConfig.limit > 0 PROVE Overshoot'
  BY Zenon DEF Overshoot
<1>1. /\ lim'[1].conf = InitConfig /\ lim'[1].used = rec.used
      /\ lim'[1].conf.limit > 0 /\ InWindow(lim'[1].conf, t)
           /\ lim'[1].used >= lim'[1].conf.limit => lim'[1].blocked
  <2> DEFINE l == Memory(t, rec).lim[1]
  <2>1. /\ l.conf = InitConfig /\ l.used = rec.used
        /\ l.conf.limit > 0 /\ InWindow(l.conf, t) /\ l.used >= l.conf.limit => l.blocked
    BY Zenon, FreshTraffic
  <2>2. lim'[1] = l
    BY Zenon
  <2> HIDE DEF l
  <2> QED BY Zenon, <2>1, <2>2
<1>2. run'[1].pc = "start" /\ \A c \in Conns : conn'[c].pc = "idle"
  BY Zenon, FirstGen DEF Memory, IdleConn
<1>3. Through' = {}
  BY Zenon, <1>2 DEF Through
<1>4. Chunks(Through)' = 0 /\ Most' = Most
  <2>1. Chunks(Through)' = Chunks({})
    BY Zenon, <1>3 DEF Chunks
  <2> QED BY Zenon, <2>1, ChunksAre DEF Most, Chunks
<1>5. rec.used \in Nat
  BY Zenon DEF Record
<1>6. Exhausted(1)' => lim'[1].blocked
  BY Zenon, <1>1 DEF Exhausted, Enforcing, Active
<1> QED BY SMTT(30), <1>1, <1>2, <1>4, <1>5, <1>6 DEF Overshoot

\* The first start.
LEMMA InitOInv == Init => OInv
<1> SUFFICES ASSUME Init PROVE OInv
  BY Zenon
<1>1. TInv
  BY Zenon, InitTInv
<1>2. Overshoot
  <2> SUFFICES ASSUME InitConfig.startsAt = 0, InitConfig.limit > 0 PROVE Overshoot
    BY Zenon DEF Overshoot
  <2>1. lim[1].used = NoRecord.used /\ NoRecord.used = 0
    BY SMTT(30), FreshTraffic, NoRecordType DEF Init, NoRecord
  <2>2. run[1].pc = "start" /\ \A c \in Conns : conn[c].pc = "idle"
    BY Zenon, FirstGen DEF Init, Memory, IdleConn
  <2>3. InitConfig.limit \in Nat /\ Chunks(Conns) \in Nat
    BY Zenon, ConstantsAssumption, ChunksAre DEF Config
  <2>4. store.used = 0 /\ disk.used = 0 /\ 0 < Most
    BY SMTT(30), <2>1, <2>3 DEF Init, Most
  <2>5. lim[1].conf = InitConfig
    BY SMTT(30), FreshTraffic, NoRecordType DEF Init
  <2>6. ~Exhausted(1)
    BY <2>1, <2>3, <2>5 DEF Exhausted
  <2> QED BY Zenon, <2>1, <2>2, <2>3, <2>4, <2>6 DEF Overshoot
<1> QED BY Zenon, <1>1, <1>2 DEF OInv

\* Every step keeps the room.
LEMMA NextOInv == OInv /\ [Next]_vars => OInv'
<1> SUFFICES ASSUME OInv, [Next]_vars PROVE OInv'
  BY Zenon
<1>1. TInv /\ TInv' /\ TypeOK
  BY Zenon, NextTInv DEF OInv, TInv, IInv
<1> SUFFICES ASSUME ops' = 0 PROVE Overshoot'
  BY Zenon, <1>1 DEF OInv
<1>2. OneLimiter' /\ StoreFollows' /\ BlockFollows'
  BY Zenon, <1>1 DEF TInv
<1>3. ops \in Nat
  BY Zenon, <1>1 DEF TypeOK
<1>4. ASSUME ops = 0
      PROVE  OneLimiter /\ StoreFollows /\ BlockFollows /\ Overshoot
  BY Zenon, <1>1, <1>4 DEF OInv, TInv
<1>5. CASE Tick \/ UNCHANGED vars
  <2>1. /\ ops = 0 /\ UNCHANGED <<lim, store, disk, run, conn>>
    BY Zenon, <1>5 DEF Tick, vars, procs, bounds, file
  <2>2. Tick => now' = now + 1 /\ now \in Nat
    BY Zenon, <1>1 DEF Tick, TypeOK
  <2>3. InitConfig.startsAt = 0 /\ Active(1)' => Active(1)
    <3>1. InitConfig.expiresAt \in Nat /\ lim[1].conf = InitConfig
      BY Zenon, <1>4, <2>1, ConstantsAssumption DEF Config, OneLimiter
    <3>2. CASE Tick
      BY <2>1, <2>2, <3>1, <3>2 DEF Active, InWindow
    <3>3. CASE UNCHANGED vars
      BY Zenon, <3>3 DEF vars, Active
    <3> QED BY Zenon, <1>5, <3>2, <3>3
  <2>4. InitConfig.startsAt = 0 /\ Exhausted(1)' => Exhausted(1)
    BY Zenon, <2>1, <2>3 DEF Exhausted, Enforcing
  <2>5. InitConfig.startsAt = 0 /\ InitConfig.limit > 0 =>
          /\ store'.used < Most /\ disk'.used < Most
          /\ run'[1].pc = "save" => run'[1].rec.used < Most
    BY Zenon, <1>4, <2>1 DEF Overshoot
  <2> QED BY Zenon, <1>1, <1>4, <2>1, <2>3, <2>4, <2>5, QuietKeeps
<1>6. CASE Restart
  <2>1. ops = 0 /\ now' = now /\ store' = disk /\ disk' = disk
    BY Zenon, <1>6 DEF Restart, file
  <2>2. disk = NoRecord \/ SameWindow(disk)
    BY Zenon, <1>4, <2>1 DEF StoreFollows
  <2>3. now \in Nat /\ disk \in Record
    BY Zenon, <1>1 DEF TypeOK
  <2>4. InitConfig.startsAt = 0 /\ InitConfig.limit > 0 => disk.used < Most
    BY Zenon, <1>4, <2>1 DEF Overshoot
  <2> QED BY Zenon, <1>6, <2>1, <2>2, <2>3, <2>4, FreshOver DEF Restart
<1>7. CASE \E g \in Gens : RunStep(g)
  <2>1. ops' = ops
    BY Zenon, <1>7 DEF RunStep, RunStart, RunFlushTick, RunBoundTick,
       RunBlockedStore, RunNotify, RunPersistRead, RunPersistSave, RunDone, bounds, file
  <2> QED BY Zenon, <1>1, <1>2, <1>4, <1>7, <2>1, RunOver
<1>8. CASE \E s \in Services : AcceptStep(s) \/ AcceptInner(s) \/ ListenerClose(s)
  <2>1. UNCHANGED <<now, store, disk, run, conn, lim, ops>>
    BY Zenon, <1>8 DEF AcceptStep, AcceptGet, AcceptWaitChan, AcceptCheck, AcceptWake,
       AcceptAbort, AcceptInner, ListenerClose, AcceptMove, bounds, file
  <2>2. Active(1)' = Active(1) /\ Exhausted(1)' = Exhausted(1)
    BY Zenon, <2>1 DEF Active, Exhausted, Enforcing
  <2>3. InitConfig.startsAt = 0 /\ InitConfig.limit > 0 =>
          /\ store'.used < Most /\ disk'.used < Most
          /\ run'[1].pc = "save" => run'[1].rec.used < Most
    BY Zenon, <1>4, <2>1 DEF Overshoot
  <2> QED BY Zenon, <1>1, <1>4, <2>1, <2>2, <2>3, QuietKeeps
<1>9. CASE \E c \in Conns :
             \/ ConnCheck(c) \/ AddStep(c)
             \/ \E n \in 0..MaxChunk, dir \in {"in", "out"} : ConnIO(c, n, dir)
  <2>1. ops' = ops
    BY Zenon, <1>9 DEF ConnCheck, ConnIO, AddStep, ConnCount, ConnDirty, ConnBlock, bounds, file
  <2> QED BY Zenon, <1>1, <1>4, <1>9, <2>1, ConnOver
<1>10. CASE \E a \in Admins : AdminStep(a)
  <2>1. ops' = ops
    BY Zenon, <1>10 DEF AdminStep, ResetUsed, Reevaluate, ReevaluateStore,
       ReevaluateNotify, FlushNow, PersistRead, PersistSave, UnregisterNone,
       Close, CloseAgain, CloseNotify, UnregisterDelete, Register, bounds, file
  <2>2. \A a \in Admins : adm[a].pc = "idle"
    BY Zenon, <1>4, <2>1 DEF OneLimiter
  <2> QED BY Zenon, <1>10, <2>2 DEF AdminStep, ResetUsed, Reevaluate, ReevaluateStore,
       ReevaluateNotify, FlushNow, PersistRead, PersistSave, UnregisterNone,
       Close, CloseAgain, CloseNotify, UnregisterDelete, Register
<1>11. CASE \E a \in Admins :
              \/ ResetQuota(a) \/ DeleteQuota(a)
              \/ \E c \in Configs : CreateQuota(a, c) \/ UpdateQuota(a, c)
  <2>1. ops' = ops + 1
    BY Zenon, <1>11 DEF ResetQuota, DeleteQuota, CreateQuota, UpdateQuota, AdminStart
  <2> QED BY <1>3, <2>1
<1> QED BY Zenon, <1>5, <1>6, <1>7, <1>8, <1>9, <1>10, <1>11 DEF Next

\* The counter overshoots its limit by less than one chunk for each connection,
\* though quotaConn.Read and Write take no lock between the check and the add:
\* across restarts, boundary ticks and failed writes of the file too.
THEOREM OvershootIsBounded == Spec => []BoundedOvershoot
<1>1. OInv => BoundedOvershoot
  BY Zenon, UsedIsBounded DEF OInv, TInv, IInv, BoundedOvershoot, Most, Chunks
<1> QED BY InitOInv, NextOInv, <1>1, PTL DEF Spec
=============================================================================
