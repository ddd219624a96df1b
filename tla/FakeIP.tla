------------------------------- MODULE FakeIP --------------------------------
(***************************************************************************)
(* The fake-address allocator of the DNS handler                           *)
(* (resolver/fakeip_store.go): Create hands out one address per domain and *)
(* family from a reserved prefix, Store writes a snapshot, Load validates  *)
(* one and replaces the mapping.  Each operation runs under the            *)
(* allocator's lock, so it is one action; Load reads only immutable fields *)
(* before it takes the lock.                                               *)
(*                                                                         *)
(* Addresses are integers and a prefix an interval; Base is the address    *)
(* written in the configured prefix, which need not be its first one       *)
(* (198.18.0.5/29).  4-in-6 addresses are unmapped on entry and are not    *)
(* distinguished here.                                                     *)
(***************************************************************************)
EXTENDS Integers

CONSTANTS
  Families,    \* the address families
  Addr,        \* the addresses of both families, inside prefixes or not
  Lo, Hi,      \* first (network) and last address of each prefix
  Base,        \* the address the prefix was configured with
  Names,       \* domain names as they are spelled
  Domains,     \* the non-empty names normalizeFakeIPDomain returns
  Norm,        \* normalizeFakeIPDomain
  NoDomain,    \* the empty domain name
  Given        \* the snapshots Load is called with

NoAddr == -1
Prefix(f) == Lo[f]..Hi[f]

\* A snapshot: whether its prefixes are the configured ones, its cursors, and
\* its entries.
Snapshots == [match : BOOLEAN, cur : [Families -> Addr \cup {NoAddr}],
              entries : SUBSET [name : Names, addr : Addr]]

\* normalizeFakeIPDomain trims spaces, then one dot: what it returns need not
\* be what it would return of that ("a..", "a .").
ASSUME FakeIPAssumption ==
  /\ Addr \subseteq Nat
  /\ Lo \in [Families -> Nat] /\ Hi \in [Families -> Nat]
  /\ Base \in [Families -> Nat]
  /\ \A f \in Families : Base[f] \in Prefix(f) /\ Prefix(f) \subseteq Addr
  /\ \A f, g \in Families : f # g => Prefix(f) \cap Prefix(g) = {}
  /\ NoDomain \notin Domains
  /\ Domains \subseteq Names
  /\ Norm \in [Names -> Domains \cup {NoDomain}]
  /\ Given \subseteq Snapshots

VARIABLES
  configured, \* the families given a prefix; a zero prefix disables one
  byAddr,     \* the domain of each address
  byDomain,   \* byDomain4 and byDomain6: the address of each domain
  current,    \* current and current6: the address allocated last
  hung,       \* the families whose Create loops for ever, holding the lock
  ret         \* what the last operation returned

vars == <<configured, byAddr, byDomain, current, hung, ret>>
-----------------------------------------------------------------------------
Contains(f, x) == f \in configured /\ x \in Prefix(f)

First(f) == Base[f] + 1

\* Where the scan of Create starts.
Start(f) ==
  IF current[f] # NoAddr /\ Contains(f, current[f] + 1)
  THEN current[f] + 1 ELSE First(f)

\* Mutant: the scan does not wrap.
ScannedOnce(f) == Start(f)..Hi[f]

\* The scan visits Start..Hi, then wraps to First.
Scanned(f) == (Start(f)..Hi[f]) \cup (First(f)..Hi[f])

\* The order in which it visits them.
Rank(f, x) ==
  IF x >= Start(f) THEN x - Start(f) ELSE Hi[f] - Start(f) + 1 + x - First(f)

\* Mutant: addresses in use are not skipped.
FreeUnchecked(f) == {x \in Scanned(f) : x # Base[f]}

Free(f) == {x \in Scanned(f) : x # Base[f] /\ byAddr[x] = NoDomain}

\* The operation returns r and changes nothing else.
Return(r) ==
  ret' = r /\ UNCHANGED <<configured, byAddr, byDomain, current, hung>>

\* An operation can take the lock.
Unlocked == hung = {}

\* Create returns an error, or the address the domain has.
CreateEmpty(n) ==
  /\ Norm[n] = NoDomain
  /\ Return([op |-> "empty"])

CreateKnown(n, f) ==
  /\ Unlocked
  /\ Norm[n] # NoDomain
  /\ byDomain[f][Norm[n]] # NoAddr
  /\ Return([op |-> "create", fam |-> f, addr |-> byDomain[f][Norm[n]]])

\* A domain without an address reaches the scan.
Scans(n, f) ==
  /\ Unlocked
  /\ Norm[n] # NoDomain
  /\ byDomain[f][Norm[n]] = NoAddr
  /\ f \in configured

CreateMissing(n, f) ==
  /\ Unlocked
  /\ Norm[n] # NoDomain
  /\ byDomain[f][Norm[n]] = NoAddr
  /\ f \notin configured
  /\ Return([op |-> "missing"])

\* Nothing to scan, or the scan came back to its start.
CreateExhausted(n, f) ==
  /\ Scans(n, f)
  /\ \/ ~Contains(f, First(f))
     \/ Free(f) = {} /\ Start(f) >= First(f)
  /\ Return([op |-> "exhausted", fam |-> f])

\* The scan starts below First, so wrapping to First never meets its start.
CreateHangs(n, f) ==
  /\ Scans(n, f)
  /\ Contains(f, First(f))
  /\ Free(f) = {}
  /\ Start(f) < First(f)
  /\ hung' = hung \cup {f}
  /\ UNCHANGED <<configured, byAddr, byDomain, current, ret>>

\* The first free address the scan meets is allocated.
CreateNew(n, f) ==
  /\ Scans(n, f)
  /\ Contains(f, First(f))
  /\ \E x \in Free(f) :
       /\ \A y \in Free(f) : Rank(f, x) <= Rank(f, y)
       /\ byAddr' = [byAddr EXCEPT ![x] = Norm[n]]
       /\ byDomain' = [byDomain EXCEPT ![f] = [@ EXCEPT ![Norm[n]] = x]]
       /\ current' = [current EXCEPT ![f] = x]
       /\ ret' = [op |-> "create", fam |-> f, addr |-> x]
  /\ UNCHANGED <<configured, hung>>
-----------------------------------------------------------------------------
\* Mutant: the cursors are not written.
SnapshotNoCursor ==
  [match |-> TRUE, cur |-> [f \in Families |-> NoAddr],
   entries |-> {[name |-> byAddr[x], addr |-> x] :
                  x \in {y \in Addr : byAddr[y] # NoDomain}}]

\* Store: the snapshot of the state.
Snapshot ==
  [match |-> TRUE, cur |-> current,
   entries |-> {[name |-> byAddr[x], addr |-> x] :
                  x \in {y \in Addr : byAddr[y] # NoDomain}}]

Store ==
  /\ Unlocked
  /\ Return([op |-> "stored", snapshot |-> Snapshot])

\* validateCurrent, and the check that a cursor is one of the entries.
ValidCursor(sn, f) ==
  sn.cur[f] # NoAddr =>
    /\ Contains(f, sn.cur[f])
    /\ sn.cur[f] # Lo[f]
    /\ \E e \in sn.entries : e.addr = sn.cur[f]

\* Load: what it accepts.
Valid(sn) ==
  /\ sn.match
  /\ \A f \in Families : ValidCursor(sn, f)
  /\ \A e \in sn.entries :
       /\ Norm[e.name] # NoDomain
       /\ \E f \in Families : Contains(f, e.addr) /\ e.addr # Lo[f]
  /\ \A d, e \in sn.entries : d # e =>
       /\ d.addr # e.addr
       /\ \A f \in Families : d.addr \in Prefix(f) /\ e.addr \in Prefix(f)
            => Norm[d.name] # Norm[e.name]

\* Load: what it installs.  An omitted cursor becomes the greatest entry.
LoadedByAddr(sn) ==
  [x \in Addr |->
     IF \E e \in sn.entries : e.addr = x
     THEN Norm[(CHOOSE e \in sn.entries : e.addr = x).name] ELSE NoDomain]

Own(sn, f) == {e \in sn.entries : e.addr \in Prefix(f)}

LoadedByDomain(sn) ==
  [f \in Families |-> [d \in Domains |->
     IF \E e \in Own(sn, f) : Norm[e.name] = d
     THEN (CHOOSE e \in Own(sn, f) : Norm[e.name] = d).addr ELSE NoAddr]]

LoadedCursor(sn, f, c) ==
  IF sn.cur[f] # NoAddr THEN c = sn.cur[f]
  ELSE IF Own(sn, f) = {} THEN c = NoAddr
  ELSE /\ \E e \in Own(sn, f) : e.addr = c
       /\ \A e \in Own(sn, f) : e.addr <= c

LoadRefused(sn) ==
  /\ ~Valid(sn)
  /\ Return([op |-> "refused"])

Load(sn) ==
  /\ Unlocked
  /\ Valid(sn)
  /\ byAddr' = LoadedByAddr(sn)
  /\ byDomain' = LoadedByDomain(sn)
  /\ current' \in [Families -> Addr \cup {NoAddr}]
  /\ \A f \in Families : LoadedCursor(sn, f, current'[f])
  /\ ret' = [op |-> "loaded"]
  /\ UNCHANGED <<configured, hung>>
-----------------------------------------------------------------------------
Init ==
  /\ configured \in SUBSET Families
  /\ byAddr = [x \in Addr |-> NoDomain]
  /\ byDomain = [f \in Families |-> [d \in Domains |-> NoAddr]]
  /\ current = [f \in Families |-> NoAddr]
  /\ hung = {}
  /\ ret = [op |-> "none"]

Next ==
  \/ \E n \in Names : CreateEmpty(n)
  \/ \E n \in Names, f \in Families :
       \/ CreateKnown(n, f) \/ CreateMissing(n, f) \/ CreateExhausted(n, f)
       \/ CreateHangs(n, f) \/ CreateNew(n, f)
  \/ Store
  \/ \E sn \in Given : Load(sn) \/ LoadRefused(sn)

Spec == Init /\ [][Next]_vars
-----------------------------------------------------------------------------
TypeOK ==
  /\ configured \subseteq Families
  /\ byAddr \in [Addr -> Domains \cup {NoDomain}]
  /\ byDomain \in [Families -> [Domains -> Addr \cup {NoAddr}]]
  /\ current \in [Families -> Addr \cup {NoAddr}]
  /\ hung \subseteq Families

\* "maintains a bidirectional domain/address mapping" (fakeIPAllocator): the
\* address of a domain maps back to it, an address maps to a domain that has
\* it, and no address is the network address, outside its prefix, or of a
\* family that has none.
Bijection ==
  /\ \A f \in Families, d \in Domains : byDomain[f][d] # NoAddr =>
       /\ f \in configured /\ byDomain[f][d] \in Prefix(f) \ {Lo[f]}
       /\ byAddr[byDomain[f][d]] = d
  /\ \A x \in Addr : byAddr[x] # NoDomain =>
       \E f \in Families : x \in Prefix(f) /\ byDomain[f][byAddr[x]] = x

\* A cursor is one of the family's addresses, and is there as soon as there
\* is one (the cursor Load demands or derives).
CursorAllocated ==
  \A f \in Families :
    /\ current[f] # NoAddr =>
         current[f] \in Prefix(f) /\ byAddr[current[f]] # NoDomain
    /\ current[f] = NoAddr =>
         \A x \in Prefix(f) : byAddr[x] = NoDomain

\* Create reports exhaustion only when every address from First on is taken.
ExhaustedOnlyWhenFull ==
  ret.op = "exhausted" =>
    \A x \in First(ret.fam)..Hi[ret.fam] : byAddr[x] # NoDomain

\* Every domain that has an address is its own normal form: Load normalizes
\* what Store wrote once more, so that "a.", which Create made of "a..", comes
\* back as "a", or is refused where "a" has an address too
\* (resolver/fakeip_store.go:342, :236).
Settled ==
  \A x \in Addr : byAddr[x] # NoDomain => Norm[byAddr[x]] = byAddr[x]

\* Whatever sequence of operations came before, Load accepts what Store writes
\* and restores exactly the mapping and the cursors, unless a domain would be
\* normalized to another one.
RoundTrip ==
  Settled =>
    /\ Valid(Snapshot)
    /\ LoadedByAddr(Snapshot) = byAddr
    /\ LoadedByDomain(Snapshot) = byDomain
    /\ \A f \in Families : LoadedCursor(Snapshot, f, current[f])

\* Create returns: with a prefix written by its first address, the scan always
\* comes back to its start.
CreateReturns == \A f \in hung : Base[f] # Lo[f]

\* Create finds a free address when there is one, wherever the cursor is: its
\* scan ends, and it reports exhaustion only when every address is taken.
CreateAnswers == CreateReturns /\ ExhaustedOnlyWhenFull

\* An address handed out for a domain stays that domain's until a Load, so a
\* client that still uses it reaches the domain it asked for.
MappingStable ==
  [][ \/ ret'.op = "loaded"
      \/ \A x \in Addr : byAddr[x] # NoDomain => byAddr'[x] = byAddr[x] ]_vars
=============================================================================
