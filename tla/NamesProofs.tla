----------------------------- MODULE NamesProofs -----------------------------
(***************************************************************************)
(* Proofs about names and addresses: FakeIP, for every prefix, set of      *)
(* domains and snapshot; and Resolver, for any callers, nameservers and    *)
(* networks, and however what the nameservers hold changes: the cache      *)
(* never goes back to an older answer.                                     *)
(***************************************************************************)
EXTENDS FakeIP, Resolver, TLAPS

-----------------------------------------------------------------------------
(* The pool of fake addresses.                                             *)


\* The inductive invariant.
IInv == TypeOK /\ Bijection /\ CursorAllocated

\* An address lies in at most one prefix, and addresses are natural numbers.
LEMMA Prefixes ==
  ASSUME NEW f \in Families
  PROVE  /\ Lo[f] \in Nat /\ Hi[f] \in Nat /\ Base[f] \in Nat
         /\ Lo[f] <= Base[f] /\ Base[f] <= Hi[f]
         /\ Prefix(f) \subseteq Addr
         /\ \A g \in Families, x \in Prefix(f) : x \in Prefix(g) => g = f
         /\ \A x \in Addr : x # NoAddr /\ x \in Nat
         /\ NoAddr \notin Prefix(f)
<1>1. /\ Lo[f] \in Nat /\ Hi[f] \in Nat /\ Base[f] \in Nat
      /\ Base[f] \in Prefix(f) /\ Prefix(f) \subseteq Addr
  BY Zenon, FakeIPAssumption
<1>2. Lo[f] <= Base[f] /\ Base[f] <= Hi[f]
  BY <1>1 DEF Prefix
<1>3. \A x \in Addr : x # NoAddr /\ x \in Nat
  BY FakeIPAssumption DEF NoAddr
<1>4. \A g \in Families, x \in Prefix(f) : x \in Prefix(g) => g = f
  BY Zenon, FakeIPAssumption
<1> QED BY Zenon, <1>1, <1>2, <1>3, <1>4

\* Bijection, restated: an allocated address belongs to one family, which maps
\* its domain back to it.
LEMMA Owner ==
  ASSUME IInv, NEW f \in Families, NEW x \in Prefix(f), byAddr[x] # NoDomain
  PROVE  /\ byAddr[x] \in Domains /\ byDomain[f][byAddr[x]] = x
         /\ f \in configured /\ x # Lo[f] /\ x \in Addr
<1>1. x \in Addr /\ x # NoAddr
  BY Zenon, Prefixes
<1>2. byAddr[x] \in Domains
  BY Zenon, <1>1 DEF IInv, TypeOK
<1>3. PICK g \in Families : x \in Prefix(g) /\ byDomain[g][byAddr[x]] = x
  BY Zenon, <1>1 DEF IInv, Bijection
<1>4. g = f
  BY Zenon, <1>3, Prefixes
<1> QED BY <1>1, <1>2, <1>3, <1>4 DEF IInv, Bijection

\* The scan of Create stays in the prefix and above the network address.
LEMMA ScanInPrefix ==
  ASSUME IInv, NEW f \in configured, Contains(f, First(f)), NEW x \in Scanned(f)
  PROVE  x \in Prefix(f) \ {Lo[f]} /\ x \in Addr
<1>1. f \in Families
  BY Zenon DEF IInv, TypeOK
<1>2. First(f) \in Prefix(f) \ {Lo[f]} /\ First(f) \in Int
  BY <1>1, Prefixes DEF Contains, First
<1>3. Start(f) \in Prefix(f) \ {Lo[f]}
  <2>1. CASE current[f] # NoAddr /\ Contains(f, current[f] + 1)
    <3>1. current[f] \in Prefix(f)
      BY Zenon, <1>1, <2>1 DEF IInv, CursorAllocated
    <3> QED BY <1>1, <2>1, <3>1, Prefixes DEF Start, Contains, Prefix
  <2>2. CASE ~(current[f] # NoAddr /\ Contains(f, current[f] + 1))
    BY Zenon, <1>2, <2>2 DEF Start
  <2> QED BY Zenon, <2>1, <2>2
<1>4. x \in Prefix(f) \ {Lo[f]}
  <2>1. Start(f) \in Int /\ Start(f) > Lo[f] /\ First(f) > Lo[f]
    BY <1>1, <1>2, <1>3, Prefixes DEF Prefix
  <2>2. x \in Int /\ x <= Hi[f] /\ (x >= Start(f) \/ x >= First(f))
    BY <1>1, <1>2, <2>1, Prefixes DEF Scanned
  <2> QED BY <1>1, <1>2, <2>1, <2>2, Prefixes DEF Prefix
<1> QED BY Zenon, <1>1, <1>4, Prefixes

\* Create adds a pair to the mapping and disturbs no other.
LEMMA CreateNewPreserves ==
  ASSUME IInv, NEW n \in Names, NEW f \in Families, CreateNew(n, f)
  PROVE  IInv'
<1> DEFINE d == Norm[n]
<1>1. d \in Domains /\ f \in configured /\ byDomain[f][d] = NoAddr
  BY Zenon, FakeIPAssumption DEF CreateNew, Scans
<1>2. PICK x \in Free(f) :
        /\ byAddr' = [byAddr EXCEPT ![x] = d]
        /\ byDomain' = [byDomain EXCEPT ![f] = [@ EXCEPT ![d] = x]]
        /\ current' = [current EXCEPT ![f] = x]
  BY Zenon DEF CreateNew
<1>3. /\ x \in Prefix(f) \ {Lo[f]} /\ x \in Addr /\ byAddr[x] = NoDomain
      /\ x # NoAddr
  BY Zenon, <1>1, <1>2, ScanInPrefix, Prefixes DEF Free, CreateNew
<1>4. configured' = configured /\ hung' = hung
  BY Zenon DEF CreateNew
<1>5. TypeOK'
  BY Zenon, <1>1, <1>2, <1>3, <1>4 DEF IInv, TypeOK
<1>6. /\ byAddr'[x] = d /\ byDomain'[f][d] = x /\ current'[f] = x
      /\ \A y \in Addr : y # x => byAddr'[y] = byAddr[y]
      /\ \A g \in Families, e \in Domains :
           ~(g = f /\ e = d) => byDomain'[g][e] = byDomain[g][e]
      /\ \A g \in Families : g # f => current'[g] = current[g]
  BY Zenon, <1>1, <1>2, <1>3 DEF IInv, TypeOK
<1>7. Bijection'
  <2>1. ASSUME NEW g \in Families, NEW e \in Domains, byDomain'[g][e] # NoAddr
        PROVE  /\ g \in configured'
               /\ byDomain'[g][e] \in Prefix(g) \ {Lo[g]}
               /\ byAddr'[byDomain'[g][e]] = e
    <3>1. CASE g = f /\ e = d
      BY Zenon, <1>1, <1>3, <1>4, <1>6, <3>1
    <3>2. CASE ~(g = f /\ e = d)
      <4>1. byDomain'[g][e] = byDomain[g][e]
        BY Zenon, <1>6, <3>2
      <4>2. /\ g \in configured /\ byDomain[g][e] \in Prefix(g) \ {Lo[g]}
            /\ byAddr[byDomain[g][e]] = e
        BY Zenon, <2>1, <4>1 DEF IInv, Bijection
      <4>3. byDomain[g][e] \in Addr /\ byDomain[g][e] # x
        BY <1>3, <4>2, Prefixes, FakeIPAssumption
      <4> QED BY Zenon, <1>4, <1>6, <4>1, <4>2, <4>3
    <3> QED BY Zenon, <3>1, <3>2
  <2>2. ASSUME NEW y \in Addr, byAddr'[y] # NoDomain
        PROVE  \E g \in Families : /\ y \in Prefix(g)
                                   /\ byDomain'[g][byAddr'[y]] = y
    <3>1. CASE y = x
      BY Zenon, <1>3, <1>6, <3>1
    <3>2. CASE y # x
      <4>1. byAddr'[y] = byAddr[y] /\ byAddr[y] \in Domains
        BY Zenon, <1>6, <2>2, <3>2 DEF IInv, TypeOK
      <4>2. PICK g \in Families : y \in Prefix(g) /\ byDomain[g][byAddr[y]] = y
        BY Zenon, <2>2, <4>1 DEF IInv, Bijection
      <4>3. ~(g = f /\ byAddr[y] = d)
        BY Zenon, <1>1, <4>2, Prefixes
      <4> QED BY <1>6, <4>1, <4>2, <4>3
    <3> QED BY Zenon, <3>1, <3>2
  <2> QED BY Zenon, <2>1, <2>2 DEF Bijection
<1>8. CursorAllocated'
  <2>1. ASSUME NEW g \in Families
        PROVE  /\ current'[g] # NoAddr =>
                    /\ current'[g] \in Prefix(g)
                    /\ byAddr'[current'[g]] # NoDomain
               /\ current'[g] = NoAddr =>
                    \A y \in Prefix(g) : byAddr'[y] = NoDomain
    <3>1. CASE g = f
      BY Zenon, <1>1, <1>3, <1>6, <3>1, FakeIPAssumption
    <3>2. CASE g # f
      <4>1. x \notin Prefix(g)
        BY Zenon, <1>3, <3>2, Prefixes
      <4> QED BY <1>6, <3>2, <4>1, Prefixes DEF IInv, CursorAllocated
    <3> QED BY Zenon, <3>1, <3>2
  <2> QED BY Zenon, <2>1 DEF CursorAllocated
<1> QED BY Zenon, <1>5, <1>7, <1>8 DEF IInv

\* In a valid snapshot an entry is the only one of its address, and the only
\* one of its domain in its family.
LEMMA ValidEntries ==
  ASSUME NEW sn \in Snapshots, Valid(sn), NEW e \in sn.entries
  PROVE  /\ e.addr \in Addr /\ e.name \in Names /\ Norm[e.name] \in Domains
         /\ (CHOOSE c \in sn.entries : c.addr = e.addr) = e
         /\ \A f \in Families : e \in Own(sn, f) =>
              /\ f \in configured /\ e.addr # Lo[f]
              /\ (CHOOSE c \in Own(sn, f) : Norm[c.name] = Norm[e.name]) = e
         /\ \E f \in Families : e \in Own(sn, f)
<1>1. e.addr \in Addr /\ e.name \in Names
  BY Zenon DEF Snapshots
<1>2. Norm[e.name] \in Domains
  BY Zenon, <1>1, FakeIPAssumption DEF Valid
<1>3. (CHOOSE c \in sn.entries : c.addr = e.addr) = e
  <2>1. \A c \in sn.entries : c.addr = e.addr => c = e
    BY Zenon DEF Valid
  <2> QED BY Zenon, <2>1
<1>4. ASSUME NEW f \in Families, e \in Own(sn, f)
      PROVE  /\ f \in configured /\ e.addr # Lo[f]
             /\ (CHOOSE c \in Own(sn, f) : Norm[c.name] = Norm[e.name]) = e
  <2>1. PICK g \in Families : Contains(g, e.addr) /\ e.addr # Lo[g]
    BY Zenon DEF Valid
  <2>2. g = f
    BY Zenon, <1>4, <2>1, Prefixes DEF Own, Contains
  <2>3. \A c \in Own(sn, f) : Norm[c.name] = Norm[e.name] => c = e
    BY Zenon, <1>4 DEF Own, Valid
  <2> QED BY Zenon, <1>4, <2>1, <2>2, <2>3 DEF Contains
<1>5. \E f \in Families : e \in Own(sn, f)
  BY Zenon DEF Valid, Contains, Own
<1> QED BY Zenon, <1>1, <1>2, <1>3, <1>4, <1>5

\* What Load installs from a valid snapshot: every entry and nothing else.
LEMMA LoadedMaps ==
  ASSUME NEW sn \in Snapshots, Valid(sn)
  PROVE  /\ \A e \in sn.entries : LoadedByAddr(sn)[e.addr] = Norm[e.name]
         /\ \A x \in Addr : LoadedByAddr(sn)[x] # NoDomain =>
              \E e \in sn.entries : e.addr = x
         /\ \A f \in Families : \A e \in Own(sn, f) :
              LoadedByDomain(sn)[f][Norm[e.name]] = e.addr
         /\ \A f \in Families, d \in Domains :
              LoadedByDomain(sn)[f][d] # NoAddr =>
                \E e \in Own(sn, f) : Norm[e.name] = d
<1>1. \A e \in sn.entries : LoadedByAddr(sn)[e.addr] = Norm[e.name]
  BY Zenon, ValidEntries DEF LoadedByAddr
<1>2. \A x \in Addr : LoadedByAddr(sn)[x] # NoDomain =>
        \E e \in sn.entries : e.addr = x
  BY Zenon DEF LoadedByAddr
<1>3. ASSUME NEW f \in Families, NEW e \in Own(sn, f)
      PROVE  LoadedByDomain(sn)[f][Norm[e.name]] = e.addr
  <2>1. e \in sn.entries
    BY Zenon DEF Own
  <2>2. /\ Norm[e.name] \in Domains
        /\ (CHOOSE c \in Own(sn, f) : Norm[c.name] = Norm[e.name]) = e
    BY Zenon, <2>1, ValidEntries
  <2> QED BY Zenon, <2>2 DEF LoadedByDomain
<1>4. \A f \in Families, d \in Domains : LoadedByDomain(sn)[f][d] # NoAddr =>
        \E e \in Own(sn, f) : Norm[e.name] = d
  BY Zenon DEF LoadedByDomain
<1> QED BY Zenon, <1>1, <1>2, <1>3, <1>4

\* Load installs a well-formed mapping with well-formed cursors.
LEMMA LoadPreserves ==
  ASSUME IInv, NEW sn \in Given, Load(sn)
  PROVE  IInv'
<1>1. /\ sn \in Snapshots /\ Valid(sn)
      /\ byAddr' = LoadedByAddr(sn) /\ byDomain' = LoadedByDomain(sn)
      /\ configured' = configured /\ hung' = hung
  BY Zenon, FakeIPAssumption DEF Load
<1>2. TypeOK'
  <2>1. byAddr' \in [Addr -> Domains \cup {NoDomain}]
    <3>1. \A x \in Addr : LoadedByAddr(sn)[x] \in Domains \cup {NoDomain}
      BY <1>1, LoadedMaps, ValidEntries
    <3> QED BY Zenon, <1>1, <3>1 DEF LoadedByAddr
  <2>2. byDomain' \in [Families -> [Domains -> Addr \cup {NoAddr}]]
    <3>1. ASSUME NEW f \in Families, NEW d \in Domains
          PROVE  LoadedByDomain(sn)[f][d] \in Addr \cup {NoAddr}
      <4>1. CASE LoadedByDomain(sn)[f][d] # NoAddr
        <5>1. PICK e \in Own(sn, f) : Norm[e.name] = d
          BY Zenon, <1>1, <4>1, LoadedMaps
        <5>2. e \in sn.entries
          BY Zenon DEF Own
        <5> QED BY <1>1, <5>1, <5>2, LoadedMaps, ValidEntries
      <4> QED BY Zenon, <4>1
    <3> QED BY Zenon, <1>1, <3>1 DEF LoadedByDomain
  <2> QED BY Zenon, <1>1, <2>1, <2>2 DEF IInv, TypeOK, Load
<1>3. Bijection'
  <2>1. ASSUME NEW f \in Families, NEW d \in Domains, byDomain'[f][d] # NoAddr
        PROVE  /\ f \in configured'
               /\ byDomain'[f][d] \in Prefix(f) \ {Lo[f]}
               /\ byAddr'[byDomain'[f][d]] = d
    <3>1. PICK e \in Own(sn, f) : Norm[e.name] = d
      BY Zenon, <1>1, <2>1, LoadedMaps
    <3>2. e \in sn.entries /\ e.addr \in Prefix(f)
      BY Zenon DEF Own
    <3>3. byDomain'[f][d] = e.addr /\ byAddr'[e.addr] = d
      BY Zenon, <1>1, <3>1, <3>2, LoadedMaps
    <3> QED BY <1>1, <3>1, <3>2, <3>3, ValidEntries
  <2>2. ASSUME NEW x \in Addr, byAddr'[x] # NoDomain
        PROVE  \E f \in Families : /\ x \in Prefix(f)
                                   /\ byDomain'[f][byAddr'[x]] = x
    <3>1. PICK e \in sn.entries : e.addr = x
      BY Zenon, <1>1, <2>2, LoadedMaps
    <3>2. PICK f \in Families : e \in Own(sn, f)
      BY Zenon, <1>1, ValidEntries
    <3>3. x \in Prefix(f)
      BY Zenon, <3>1, <3>2 DEF Own
    <3> QED BY <1>1, <3>1, <3>2, <3>3, LoadedMaps
  <2> QED BY Zenon, <2>1, <2>2 DEF Bijection
<1>4. CursorAllocated'
  <2>1. ASSUME NEW f \in Families
        PROVE  /\ current'[f] # NoAddr =>
                    /\ current'[f] \in Prefix(f)
                    /\ byAddr'[current'[f]] # NoDomain
               /\ current'[f] = NoAddr =>
                    \A x \in Prefix(f) : byAddr'[x] = NoDomain
    <3>1. LoadedCursor(sn, f, current'[f])
      BY Zenon DEF Load
    <3>2. \A e \in sn.entries : byAddr'[e.addr] # NoDomain
      BY <1>1, LoadedMaps, ValidEntries, FakeIPAssumption
    <3>3. CASE sn.cur[f] # NoAddr
      <4>1. ValidCursor(sn, f)
        BY Zenon, <1>1 DEF Valid
      <4> QED BY Zenon, <3>1, <3>2, <3>3, <4>1 DEF LoadedCursor, ValidCursor, Contains
    <3>4. CASE sn.cur[f] = NoAddr /\ Own(sn, f) = {}
      <4>1. current'[f] = NoAddr
        BY Zenon, <3>1, <3>4 DEF LoadedCursor
      <4>2. ASSUME NEW x \in Prefix(f)
            PROVE  byAddr'[x] = NoDomain
        <5>1. x \in Addr
          BY Zenon, Prefixes
        <5> QED BY <1>1, <3>4, <5>1, LoadedMaps DEF Own
      <4> QED BY Zenon, <4>1, <4>2
    <3>5. CASE sn.cur[f] = NoAddr /\ Own(sn, f) # {}
      <4>1. \E e \in Own(sn, f) : e.addr = current'[f]
        BY Zenon, <3>1, <3>5 DEF LoadedCursor
      <4> QED BY Zenon, <3>2, <4>1, Prefixes DEF Own
    <3> QED BY Zenon, <3>3, <3>4, <3>5
  <2> QED BY Zenon, <2>1 DEF CursorAllocated
<1> QED BY Zenon, <1>2, <1>3, <1>4 DEF IInv

\* The invariant holds of a new allocator.
LEMMA InitIInv == Init => IInv
BY FakeIPAssumption, Prefixes
   DEF Init, IInv, TypeOK, Bijection, CursorAllocated

\* Every operation keeps it.
LEMMA NextIInv == IInv /\ [Next]_vars => IInv'
<1> SUFFICES ASSUME IInv, [Next]_vars PROVE IInv'
  BY Zenon
<1>1. ASSUME UNCHANGED <<configured, byAddr, byDomain, current>>,
             hung' \subseteq Families
      PROVE  IInv'
  BY <1>1 DEF IInv, TypeOK, Bijection, CursorAllocated
<1>2. hung \subseteq Families
  BY Zenon DEF IInv, TypeOK
<1>3. CASE UNCHANGED vars
  BY Zenon, <1>1, <1>2, <1>3 DEF vars
<1>4. CASE \E n \in Names : CreateEmpty(n)
  BY Zenon, <1>1, <1>2, <1>4 DEF CreateEmpty, Return
<1>5. ASSUME NEW n \in Names, NEW f \in Families,
             \/ CreateKnown(n, f) \/ CreateMissing(n, f)
             \/ CreateExhausted(n, f) \/ CreateHangs(n, f)
      PROVE  IInv'
  BY Zenon, <1>1, <1>2, <1>5 DEF CreateKnown, CreateMissing, CreateExhausted,
     CreateHangs, Return
<1>6. CASE Store
  BY Zenon, <1>1, <1>2, <1>6 DEF Store, Return
<1>7. ASSUME NEW sn \in Given, LoadRefused(sn)
      PROVE  IInv'
  BY Zenon, <1>1, <1>2, <1>7 DEF LoadRefused, Return
<1> QED BY Zenon, <1>3, <1>4, <1>5, <1>6, <1>7, CreateNewPreserves, LoadPreserves
        DEF Next

\* So it always holds.
LEMMA Invariance == Spec => []IInv
BY InitIInv, NextIInv, PTL DEF Spec

\* fakeIPAllocator's two maps stay inverse to each other, inside the prefixes
\* and off the network address, whatever is created and loaded.
THEOREM MappingIsBijection == Spec => []Bijection
<1>1. IInv => Bijection
  BY Zenon DEF IInv
<1> QED BY Invariance, <1>1, PTL

\* The cursors Create scans from and Load checks are addresses in use.
THEOREM CursorsAreAllocated == Spec => []CursorAllocated
BY Invariance, PTL DEF IInv

\* The snapshot has one entry for each allocated address.
LEMMA SnapshotEntries ==
  ASSUME IInv, Settled
  PROVE  /\ Snapshot \in Snapshots
         /\ \A e \in Snapshot.entries :
              /\ e.addr \in Addr /\ byAddr[e.addr] # NoDomain
              /\ e.name = byAddr[e.addr] /\ Norm[e.name] = byAddr[e.addr]
              /\ e = [name |-> byAddr[e.addr], addr |-> e.addr]
         /\ \A x \in Addr : byAddr[x] # NoDomain =>
              [name |-> byAddr[x], addr |-> x] \in Snapshot.entries
<1>1. \A x \in Addr : byAddr[x] # NoDomain =>
        byAddr[x] \in Domains /\ byAddr[x] \in Names
        /\ Norm[byAddr[x]] = byAddr[x]
  BY Zenon, FakeIPAssumption DEF IInv, TypeOK, Settled
<1>2. Snapshot.entries = {[name |-> byAddr[x], addr |-> x] :
                            x \in {y \in Addr : byAddr[y] # NoDomain}}
  BY Zenon DEF Snapshot
<1>3. \A e \in Snapshot.entries :
        /\ e.addr \in Addr /\ byAddr[e.addr] # NoDomain
        /\ e.name = byAddr[e.addr] /\ Norm[e.name] = byAddr[e.addr]
        /\ e = [name |-> byAddr[e.addr], addr |-> e.addr]
  BY <1>1, <1>2
<1>4. Snapshot \in Snapshots
  <2>1. Snapshot.entries \in SUBSET [name : Names, addr : Addr]
    BY <1>1, <1>2
  <2> QED BY Zenon, <2>1 DEF Snapshot, Snapshots, IInv, TypeOK
<1> QED BY Zenon, <1>2, <1>3, <1>4

\* The invariant is all that the round trip needs.
LEMMA RoundTripFromIInv == IInv => RoundTrip
<1> DEFINE sn == Snapshot
<1> SUFFICES ASSUME IInv, Settled
             PROVE  /\ Valid(sn) /\ LoadedByAddr(sn) = byAddr
                    /\ LoadedByDomain(sn) = byDomain
                    /\ \A f \in Families : LoadedCursor(sn, f, current[f])
  BY Zenon DEF RoundTrip
<1>1. Valid(sn)
  <2>1. ASSUME NEW f \in Families
        PROVE  ValidCursor(sn, f)
    <3> SUFFICES ASSUME current[f] # NoAddr
                 PROVE  /\ Contains(f, current[f]) /\ current[f] # Lo[f]
                        /\ \E e \in sn.entries : e.addr = current[f]
      BY Zenon DEF ValidCursor, Snapshot
    <3>1. current[f] \in Prefix(f) /\ byAddr[current[f]] # NoDomain
      BY Zenon DEF IInv, CursorAllocated
    <3> QED BY Zenon, <3>1, Owner, SnapshotEntries DEF Contains
  <2>2. ASSUME NEW e \in sn.entries
        PROVE  /\ Norm[e.name] # NoDomain
               /\ \E f \in Families : Contains(f, e.addr) /\ e.addr # Lo[f]
    <3>1. e.addr \in Addr /\ byAddr[e.addr] # NoDomain
      BY Zenon, SnapshotEntries
    <3>2. PICK f \in Families : e.addr \in Prefix(f)
      BY Zenon, <3>1 DEF IInv, Bijection
    <3> QED BY Zenon, <3>1, <3>2, Owner, SnapshotEntries DEF Contains
  <2>3. ASSUME NEW d \in sn.entries, NEW e \in sn.entries, d # e
        PROVE  /\ d.addr # e.addr
               /\ \A f \in Families :
                    d.addr \in Prefix(f) /\ e.addr \in Prefix(f)
                      => Norm[d.name] # Norm[e.name]
    <3>1. d.addr # e.addr
      BY Zenon, <2>3, SnapshotEntries
    <3> QED BY <3>1, SnapshotEntries, Owner
  <2> QED BY Zenon, <2>1, <2>2, <2>3 DEF Valid, Snapshot
<1>2. sn \in Snapshots
  BY Zenon, SnapshotEntries
<1>3. LoadedByAddr(sn) = byAddr
  <2>1. ASSUME NEW x \in Addr
        PROVE  LoadedByAddr(sn)[x] = byAddr[x]
    <3>1. CASE byAddr[x] = NoDomain
      BY Zenon, <1>1, <1>2, <3>1, LoadedMaps, SnapshotEntries
    <3>2. CASE byAddr[x] # NoDomain
      <4>1. PICK e \in sn.entries : e.addr = x
        BY Zenon, <3>2, SnapshotEntries
      <4> QED BY Zenon, <1>1, <1>2, <4>1, LoadedMaps, SnapshotEntries
    <3> QED BY Zenon, <3>1, <3>2
  <2> QED BY Zenon, <2>1 DEF LoadedByAddr, IInv, TypeOK
<1>4. LoadedByDomain(sn) = byDomain
  <2>1. ASSUME NEW f \in Families, NEW d \in Domains
        PROVE  LoadedByDomain(sn)[f][d] = byDomain[f][d]
    <3>1. ASSUME NEW e \in Own(sn, f), Norm[e.name] = d
          PROVE  byDomain[f][d] = e.addr /\ LoadedByDomain(sn)[f][d] = e.addr
      <4>1. e \in sn.entries /\ e.addr \in Prefix(f)
        BY Zenon DEF Own
      <4> QED BY <1>1, <1>2, <3>1, <4>1, LoadedMaps, SnapshotEntries, Owner
    <3>2. CASE LoadedByDomain(sn)[f][d] # NoAddr
      BY <1>1, <1>2, <3>1, <3>2, LoadedMaps
    <3>3. CASE byDomain[f][d] # NoAddr
      <4>1. /\ byDomain[f][d] \in Prefix(f) /\ byAddr[byDomain[f][d]] = d
            /\ byDomain[f][d] \in Addr /\ d # NoDomain
        BY <3>3, Prefixes, FakeIPAssumption DEF IInv, Bijection
      <4>2. PICK e \in sn.entries : e.addr = byDomain[f][d]
        BY Zenon, <4>1, SnapshotEntries
      <4>3. e \in Own(sn, f) /\ Norm[e.name] = d
        BY Zenon, <4>1, <4>2, SnapshotEntries DEF Own
      <4> QED BY Zenon, <3>1, <4>2, <4>3
    <3> QED BY Zenon, <3>2, <3>3
  <2>2. /\ LoadedByDomain(sn) \in [Families -> [Domains -> Addr \cup {NoAddr}]]
    BY <2>1 DEF LoadedByDomain, IInv, TypeOK
  <2> QED BY <2>1, <2>2 DEF IInv, TypeOK
<1>5. ASSUME NEW f \in Families
      PROVE  LoadedCursor(sn, f, current[f])
  <2>1. CASE current[f] # NoAddr
    BY Zenon, <2>1 DEF LoadedCursor, Snapshot
  <2>2. CASE current[f] = NoAddr
    <3>1. Own(sn, f) = {}
      BY Zenon, <2>2, SnapshotEntries DEF Own, IInv, CursorAllocated
    <3> QED BY Zenon, <2>2, <3>1 DEF LoadedCursor, Snapshot
  <2> QED BY Zenon, <2>1, <2>2
<1> QED BY Zenon, <1>1, <1>3, <1>4, <1>5

\* Load accepts what Store writes and restores the allocator exactly, whatever
\* was created and loaded before, for any prefixes and any domains that
\* normalizeFakeIPDomain leaves as they are; of a domain it would change once
\* more nothing is claimed.
THEOREM StoreThenLoad == Spec => []RoundTrip
BY Invariance, RoundTripFromIInv, PTL

\* Create returns for every prefix written by its first address: the cursor is
\* never the network address, so the scan never starts below First.
THEOREM CreateAlwaysReturns == Spec => []CreateReturns
<1>1. Init => CreateReturns
  BY Zenon DEF Init, CreateReturns
<1>2. IInv /\ CreateReturns /\ [Next]_vars => CreateReturns'
  <2> SUFFICES ASSUME IInv, CreateReturns, [Next]_vars PROVE CreateReturns'
    BY Zenon
  <2>1. CASE hung' = hung
    BY Zenon, <2>1 DEF CreateReturns
  <2>2. ASSUME NEW n \in Names, NEW f \in Families, CreateHangs(n, f)
        PROVE  CreateReturns'
    <3>1. /\ Start(f) < First(f) /\ hung' = hung \cup {f}
          /\ Lo[f] \in Nat /\ Base[f] \in Nat /\ Lo[f] <= Base[f]
      BY Zenon, <2>2, Prefixes DEF CreateHangs
    <3>2. current[f] # NoAddr /\ Start(f) = current[f] + 1
      BY <3>1 DEF Start, First
    <3>3. current[f] \in Prefix(f) /\ current[f] # Lo[f]
      BY Zenon, <3>2, Owner DEF IInv, CursorAllocated
    <3>4. current[f] \in Int /\ current[f] > Lo[f]
      BY <3>1, <3>3, Prefixes DEF Prefix
    <3>5. Base[f] # Lo[f]
      BY <3>1, <3>2, <3>4 DEF First
    <3> QED BY Zenon, <3>1, <3>5 DEF CreateReturns
  <2> QED BY Zenon, <2>1, <2>2 DEF Next, vars, CreateEmpty, CreateKnown,
          CreateMissing, CreateExhausted, CreateNew, Store, Load, LoadRefused,
          Return
<1> QED BY Invariance, <1>1, <1>2, PTL DEF Spec

\* Create reports exhaustion only when the addresses it allocates are all in
\* use: the scan has visited every one of them.
THEOREM ExhaustionIsReal == Spec => []ExhaustedOnlyWhenFull
<1>1. Init => ExhaustedOnlyWhenFull
  BY DEF Init, ExhaustedOnlyWhenFull
<1>2. IInv /\ ExhaustedOnlyWhenFull /\ [Next]_vars => ExhaustedOnlyWhenFull'
  <2> SUFFICES ASSUME IInv, ExhaustedOnlyWhenFull, [Next]_vars
               PROVE  ExhaustedOnlyWhenFull'
    BY Zenon
  <2>1. CASE UNCHANGED <<byAddr, ret>>
    BY Zenon, <2>1 DEF ExhaustedOnlyWhenFull
  <2>2. CASE ret'.op # "exhausted"
    BY Zenon, <2>2 DEF ExhaustedOnlyWhenFull
  <2>3. ASSUME NEW n \in Names, NEW f \in Families, CreateExhausted(n, f)
        PROVE  ExhaustedOnlyWhenFull'
    <3>1. ret'.fam = f /\ byAddr' = byAddr
      BY Zenon, <2>3 DEF CreateExhausted, Return
    <3>2. ASSUME NEW x \in First(f)..Hi[f]
          PROVE  byAddr[x] # NoDomain
      <4>1. /\ First(f) \in Int /\ Hi[f] \in Int /\ x \in Int
            /\ First(f) <= x /\ x <= Hi[f] /\ x # Base[f]
        BY <3>2, Prefixes DEF First
      <4>2. Contains(f, First(f))
        BY <2>3, <4>1, Prefixes DEF CreateExhausted, Scans, Contains, Prefix,
           First
      <4>3. x \in Scanned(f) /\ Free(f) = {}
        BY Zenon, <2>3, <3>2, <4>2 DEF CreateExhausted, Scanned
      <4> QED BY Zenon, <4>1, <4>3 DEF Free
    <3> QED BY Zenon, <3>1, <3>2 DEF ExhaustedOnlyWhenFull, First
  <2> QED BY <2>1, <2>2, <2>3 DEF Next, vars, CreateEmpty, CreateKnown,
          CreateMissing, CreateHangs, CreateNew, Store, Load, LoadRefused,
          Return
<1> QED BY Invariance, <1>1, <1>2, PTL DEF Spec

\* So Create always gives the right answer.
THEOREM CreateIsRight == Spec => []CreateAnswers
BY CreateAlwaysReturns, ExhaustionIsReal, PTL DEF CreateAnswers

\* An address handed out stays its domain's until a Load.
THEOREM AddressesAreStable == Spec => MappingStable
<1> DEFINE Keeps == \/ ret'.op = "loaded"
                    \/ \A x \in Addr : byAddr[x] # NoDomain =>
                         byAddr'[x] = byAddr[x]
<1>1. IInv /\ [Next]_vars => [Keeps]_vars
  <2> SUFFICES ASSUME IInv, Next PROVE Keeps
    BY Zenon
  <2>1. CASE byAddr' = byAddr
    BY Zenon, <2>1
  <2>2. ASSUME NEW n \in Names, NEW f \in Families, CreateNew(n, f)
        PROVE  Keeps
    BY Zenon, <2>2 DEF CreateNew, Free, IInv, TypeOK
  <2>3. ASSUME NEW sn \in Given, Load(sn)
        PROVE  Keeps
    BY Zenon, <2>3 DEF Load
  <2> QED BY Zenon, <2>1, <2>2, <2>3 DEF Next, CreateEmpty, CreateKnown,
          CreateMissing, CreateExhausted, CreateHangs, Store, LoadRefused,
          Return
<1> QED BY Invariance, <1>1, PTL DEF Spec, MappingStable


-----------------------------------------------------------------------------
(* The resolver: its inductive invariant.  The DNS handler is left out: it *)
(* does not order what is asked.                                           *)

Procs == Callers \cup Refreshers
EntryType == [from : Nat, ver : Nat, empty : BOOLEAN, fresh : BOOLEAN]
AnswerType == [from : Nat, ver : Nat, fam : Families46 \cup {"none"}]
Flying == {"check", "ask", "store"}
JobType == [at : Flying \cup {"idle", "done", "look", "join", "wait"}, srv : Nat, f : {1, 2},
            want : Networks, got : AnswerType, val : EntryType]
ServerType == [state : {"up", "down", "refusing"}, ver : [Families46 -> Nat],
               empty : SUBSET Families46]

\* A call that is under way asks a server of the resolver, and for a family that
\* is asked of it.
Placed(j) ==
    j.at \notin {"idle", "done"} => j.srv \in DOMAIN rs.servers /\ j.f \in 1..Len(Fams(j))

Typed ==
    /\ rs \in ResolverConfs /\ ~IsHandler
    /\ ns \in [DOMAIN rs.servers -> ServerType]
    /\ ent \in [Families46 -> EntryType]
    /\ flight \in [Families46 -> Procs \cup {NoOne}]
    /\ job \in [Procs -> JobType]
    /\ \A p \in Procs : Placed(job[p])

\* Who asks a question is the one that does for all.
Sole == \A p \in Procs : job[p].at \in Flying => flight[Key(job[p])] = p

\* No entry is newer than what its server has; and an answer that is about to be
\* stored is not older than the entry it replaces.
Ordered ==
    /\ \A k \in Families46 :
         ent[k].from \in DOMAIN rs.servers => ent[k].ver <= ns[ent[k].from].ver[k]
    /\ \A p \in Procs : job[p].at = "store" =>
         LET k == Key(job[p])
             v == job[p].val
         IN /\ v.from \in DOMAIN rs.servers /\ v.ver <= ns[v.from].ver[k]
            /\ ent[k].from = v.from => ent[k].ver <= v.ver

OInv == Typed /\ Sole /\ Ordered
CInv == IsHandler \/ OInv

-----------------------------------------------------------------------------
(* What is asked for, and what a call does with an answer.                 *)

\* A server is asked for one family or two.
LEMMA FamsAre ==
    ASSUME rs \in ResolverConfs, ~IsHandler, NEW j, j.srv \in DOMAIN rs.servers,
           j.want \in Networks
    PROVE  /\ Len(Fams(j)) \in {1, 2}
           /\ \A i \in 1..Len(Fams(j)) : Fams(j)[i] \in Families46
<1> DEFINE s == rs.servers[j.srv]
           pref == IF s.only # "" THEN s.only ELSE IF j.want # "" THEN j.want
                   ELSE IF s.prefer # "" THEN s.prefer ELSE "4"
           other == IF pref = "4" THEN "6" ELSE "4"
<1>1. s.only \in Networks /\ s.prefer \in Networks
  <2> DEFINE R == [async : BOOLEAN, ttl : {"some", "never"}, only : Networks, prefer : Networks]
  <2>1. rs.servers \in Seq(R)
    BY Zenon, ResolverAssumption
  <2>2. \A r \in R : r.only \in Networks /\ r.prefer \in Networks
    BY Zenon
  <2> HIDE DEF R
  <2>3. rs.servers[j.srv] \in R
    BY <2>1
  <2> QED
    BY Zenon, <2>2, <2>3
<1>2. pref \in Families46 /\ other \in Families46
  BY Zenon, <1>1 DEF Networks, Families46
<1>3. Fams(j) = IF pref \in {s.only, j.want} THEN <<pref>> ELSE <<pref, other>>
  BY Zenon DEF Fams
<1> HIDE DEF pref, other
<1>4. \A x, y \in Families46 : /\ Len(<<x>>) = 1 /\ <<x>>[1] = x
                               /\ Len(<<x, y>>) = 2 /\ <<x, y>>[1] = x /\ <<x, y>>[2] = y
  BY Zenon
<1>5. CASE Fams(j) = <<pref>>
  BY <1>2, <1>4, <1>5
<1>6. CASE Fams(j) = <<pref, other>>
  BY <1>2, <1>4, <1>6
<1> QED
  BY Zenon, <1>3, <1>5, <1>6

\* The families depend on the server and the network asked for.
LEMMA FamsSame ==
    ASSUME NEW j, NEW k, k.srv = j.srv, k.want = j.want
    PROVE  Fams(k) = Fams(j)
  BY Zenon DEF Fams

LEMMA KeyIs ==
    ASSUME Typed, NEW p \in Procs, job[p].at \notin {"idle", "done"}
    PROVE  Key(job[p]) \in Families46
<1>1. job[p].srv \in DOMAIN rs.servers /\ job[p].f \in 1..Len(Fams(job[p]))
      /\ job[p].want \in Networks
  BY Zenon DEF Typed, Placed, JobType
<1> QED
  BY Zenon, <1>1, FamsAre DEF Key, Typed

LEMMA EntriesAre ==
    /\ NoEntry \in EntryType /\ NoEntry.empty = TRUE /\ NoAnswer \in AnswerType
    /\ IdleJob \in JobType /\ IdleJob.at = "idle" /\ IdleJob.srv = 1 /\ IdleJob.f = 1
    /\ IdleJob.want = "" /\ IdleJob.got = NoAnswer /\ IdleJob.val = NoEntry
<1>1. NoEntry \in EntryType /\ NoEntry.empty = TRUE /\ NoAnswer \in AnswerType
  BY Zenon DEF NoEntry, NoAnswer, EntryType, AnswerType, Families46
<1> QED
  BY Zenon, <1>1 DEF IdleJob, JobType, Networks

\* Goto the first server, or the next.
LEMMA GotoOK ==
    ASSUME rs \in ResolverConfs, ~IsHandler, NEW j \in JobType, NEW i \in Nat \ {0}
    PROVE  /\ Goto(j, i) \in JobType /\ Placed(Goto(j, i)) /\ Goto(j, i).at \notin Flying
<1> DEFINE g == Goto(j, i)
           at == IF i > Len(rs.servers) THEN "done"
                 ELSE IF rs.servers[i].async THEN "look" ELSE "join"
           srv == IF i > Len(rs.servers) THEN 1 ELSE i
<1>1. Len(rs.servers) \in Nat /\ DOMAIN rs.servers = 1..Len(rs.servers)
  BY ResolverAssumption
<1>2. /\ at \in {"done", "look", "join"} /\ srv \in Nat
      /\ at # "done" => srv \in DOMAIN rs.servers
  BY <1>1
<1>3. g = [j EXCEPT !.srv = srv, !.f = 1, !.val = NoEntry, !.at = at]
  BY Zenon DEF Goto
<1> HIDE DEF at, srv, g
<1>4. /\ g \in JobType /\ g.at = at /\ g.srv = srv /\ g.f = 1 /\ g.want = j.want
  BY Zenon, <1>2, <1>3, EntriesAre DEF JobType
<1>5. Placed(g)
  <2>1. SUFFICES ASSUME g.at # "done" PROVE srv \in DOMAIN rs.servers /\ 1 \in 1..Len(Fams(g))
    BY Zenon, <1>4 DEF Placed
  <2>2. g.srv \in DOMAIN rs.servers /\ g.want \in Networks
    BY Zenon, <1>2, <1>4, <2>1 DEF JobType
  <2>3. Len(Fams(g)) \in {1, 2}
    BY Zenon, <2>2, FamsAre
  <2>4. 1 \in 1..Len(Fams(g))
    BY <2>3
  <2> QED
    BY Zenon, <1>4, <2>2, <2>4
<1>6. g.at \notin Flying
  BY Zenon, <1>2, <1>4 DEF Flying
<1> QED
  BY Zenon, <1>4, <1>5, <1>6 DEF g

LEMMA DoneOK ==
    ASSUME NEW j \in JobType, NEW k \in Families46, NEW e \in EntryType
    PROVE  Done(j, k, e) \in JobType /\ Placed(Done(j, k, e)) /\ Done(j, k, e).at \notin Flying
<1> DEFINE g == Done(j, k, e)
           got == IF e.empty THEN NoAnswer ELSE [from |-> e.from, ver |-> e.ver, fam |-> k]
<1>1. got \in AnswerType
  BY Zenon, EntriesAre DEF EntryType, AnswerType
<1>2. g = [j EXCEPT !.at = "done", !.srv = 1, !.f = 1, !.val = NoEntry, !.got = got]
  BY Zenon DEF Done
<1> HIDE DEF got, g
<1>3. g \in JobType /\ g.at = "done"
  BY Zenon, <1>1, <1>2, EntriesAre DEF JobType
<1> QED
  BY Zenon, <1>3 DEF g, Placed, Flying

\* A call goes on with the other family.
LEMMA OtherFamilyOK ==
    ASSUME Typed, NEW p \in Procs, job[p].at \notin {"idle", "done"}, ~Last(job[p]),
           NEW j, NEW a \in {"join", "look"}, NEW v \in EntryType,
           j = [job[p] EXCEPT !.at = a, !.f = 2, !.val = v]
    PROVE  j \in JobType /\ Placed(j) /\ j.at \notin Flying
<1>1. job[p] \in JobType /\ job[p].srv \in DOMAIN rs.servers
      /\ job[p].f \in 1..Len(Fams(job[p])) /\ job[p].want \in Networks
  BY Zenon DEF Typed, Placed, JobType
<1>2. j \in JobType /\ j.at = a /\ j.f = 2 /\ j.srv = job[p].srv /\ j.want = job[p].want
  BY Zenon, <1>1 DEF JobType
<1>3. Len(Fams(job[p])) = 2
  BY <1>1, FamsAre DEF Typed, Last
<1>4. Fams(j) = Fams(job[p])
  BY Zenon, <1>2, FamsSame
<1>5. 2 \in 1..Len(Fams(j))
  BY <1>3, <1>4
<1>6. Placed(j)
  BY Zenon, <1>1, <1>2, <1>5 DEF Placed
<1> QED
  BY Zenon, <1>2, <1>6 DEF Flying

LEMMA TakesOK ==
    ASSUME Typed, NEW p \in Procs, job[p].at \notin {"idle", "done"}, NEW e \in EntryType
    PROVE  Takes(p, e) \in JobType /\ Placed(Takes(p, e)) /\ Takes(p, e).at \notin Flying
<1>1. job[p] \in JobType /\ Key(job[p]) \in Families46 /\ job[p].srv + 1 \in Nat \ {0}
      /\ rs \in ResolverConfs /\ ~IsHandler
  BY KeyIs DEF Typed, JobType
<1>2. CASE Takes(p, e) = IdleJob
  BY Zenon, <1>2, EntriesAre DEF Placed, Flying
<1>3. CASE Takes(p, e) = Done(job[p], Key(job[p]), e)
  BY Zenon, <1>1, <1>3, DoneOK
<1>4. CASE Takes(p, e) = Goto(job[p], job[p].srv + 1)
  BY Zenon, <1>1, <1>4, GotoOK
<1>5. CASE /\ ~Last(job[p])
           /\ Takes(p, e) = [job[p] EXCEPT !.at = "join", !.f = 2, !.val = NoEntry]
  BY Zenon, <1>5, OtherFamilyOK, EntriesAre
<1> QED
  BY Zenon, <1>2, <1>3, <1>4, <1>5 DEF Takes

-----------------------------------------------------------------------------
(* The steps.                                                              *)

\* The configuration does not change, and so the question of a call that does not.
LEMMA PrimeSame ==
    ASSUME rs' = rs, NEW p \in Procs
    PROVE  (Placed(job[p])' <=> Placed(job'[p])) /\ Key(job[p])' = Key(job'[p])
  BY Zenon DEF Placed, Key, Fams, IsHandler

\* What is to be shown of a step of calls.
LEMMA StepOK ==
    ASSUME OInv, UNCHANGED <<rs, ns, ent>>, job' \in [Procs -> JobType],
           \A p \in Procs : Placed(job'[p]),
           flight' \in [Families46 -> Procs \cup {NoOne}],
           \A p \in Procs : job'[p].at \in Flying => flight'[Key(job'[p])] = p,
           \A p \in Procs : job'[p].at = "store" =>
              job[p].at = "store" /\ job'[p].val = job[p].val /\ Key(job'[p]) = Key(job[p])
    PROVE  OInv'
<1>1. Typed'
  BY Zenon, PrimeSame DEF OInv, Typed, IsHandler
<1>2. Sole'
  BY Zenon, PrimeSame DEF Sole
<1>3. Ordered'
  <2>1. \A k \in Families46 :
          (ent[k].from \in DOMAIN rs.servers => ent[k].ver <= ns[ent[k].from].ver[k])'
    BY Zenon DEF OInv, Ordered
  <2>2. ASSUME NEW p \in Procs, job'[p].at = "store"
        PROVE  LET k == Key(job'[p])
                   v == job'[p].val
               IN /\ v.from \in DOMAIN rs'.servers /\ v.ver <= ns'[v.from].ver[k]
                  /\ ent'[k].from = v.from => ent'[k].ver <= v.ver
    <3>1. job[p].at = "store" /\ job'[p].val = job[p].val /\ Key(job'[p]) = Key(job[p])
      BY Zenon, <2>2
    <3> QED
      BY Zenon, <3>1 DEF OInv, Ordered
  <2> QED
    BY Zenon, <2>1, <2>2, PrimeSame DEF Ordered
<1> QED
  BY Zenon, <1>1, <1>2, <1>3 DEF OInv

\* Calls that do not ask a question themselves.
LEMMA MovesOK ==
    ASSUME OInv, UNCHANGED <<rs, ns, ent, flight>>, job' = [q \in Procs |-> job'[q]],
           \A q \in Procs : \/ job'[q] = job[q]
                            \/ /\ job'[q] \in JobType /\ Placed(job'[q])
                               /\ job'[q].at \notin Flying
    PROVE  OInv'
<1>1. job' \in [Procs -> JobType] /\ \A p \in Procs : Placed(job'[p])
  BY Zenon DEF OInv, Typed
<1>2. \A p \in Procs : job'[p].at \in Flying => flight'[Key(job'[p])] = p
  BY Zenon DEF OInv, Sole
<1>3. \A p \in Procs : job'[p].at = "store" =>
         job[p].at = "store" /\ job'[p].val = job[p].val /\ Key(job'[p]) = Key(job[p])
  BY Zenon DEF Flying
<1>4. flight' \in [Families46 -> Procs \cup {NoOne}]
  BY Zenon DEF OInv, Typed
<1> QED
  BY Zenon, <1>1, <1>2, <1>3, <1>4, StepOK

LEMMA MoveOK ==
    ASSUME OInv, UNCHANGED <<rs, ns, ent, flight>>, NEW p \in Procs, NEW g \in JobType,
           Placed(g), g.at \notin Flying, job' = [job EXCEPT ![p] = g]
    PROVE  OInv'
<1>1. job \in [Procs -> JobType]
  BY Zenon DEF OInv, Typed
<1>2. job' = [q \in Procs |-> job'[q]] /\ \A q \in Procs : job'[q] = IF q = p THEN g ELSE job[q]
  BY Zenon, <1>1
<1> QED
  BY Zenon, <1>2, MovesOK

\* The names of callers and of their goroutines differ.
LEMMA ProcsAre ==
    ASSUME NEW c \in Callers
    PROVE  c \in Procs /\ -c \in Procs /\ c # -c /\ NoOne \notin Procs
<1>1. Callers \subseteq Nat \ {0}
  BY Zenon, ResolverAssumption
<1>2. \A p \in Refreshers : \E d \in Callers : p = -d
  BY Zenon DEF Refreshers
<1> QED
  BY <1>1, <1>2 DEF Procs, Refreshers, NoOne

LEMMA AskOK ==
    ASSUME OInv, NEW c \in Callers, Ask(c)
    PROVE  OInv'
<1> DEFINE j == [IdleJob EXCEPT !.want = rs.wants[c]]
<1>1. rs.wants[c] \in Networks /\ rs \in ResolverConfs /\ ~IsHandler
  BY Zenon, ResolverAssumption DEF Ask, OInv, Typed
<1>2. j \in JobType
  BY Zenon, <1>1, EntriesAre DEF JobType
<1> HIDE DEF j
<1>3. Goto(j, 1) \in JobType /\ Placed(Goto(j, 1)) /\ Goto(j, 1).at \notin Flying
  BY <1>1, <1>2, GotoOK
<1>4. job' = [job EXCEPT ![c] = Goto(j, 1)] /\ UNCHANGED <<rs, ns, ent, flight>>
  BY Zenon DEF Ask, j
<1> QED
  BY Zenon, <1>3, <1>4, MoveOK, ProcsAre

\* What was found in the cache is used.
LEMMA UsedOK ==
    ASSUME OInv, NEW c \in Callers, Found(c)
    PROVE  Used(c) \in JobType /\ Placed(Used(c)) /\ Used(c).at \notin Flying
<1>1. c \in Procs /\ job[c].at = "look"
  BY Zenon, ProcsAre DEF Found
<1>2. Typed /\ job[c] \in JobType /\ rs \in ResolverConfs /\ ~IsHandler
  BY Zenon, <1>1 DEF OInv, Typed
<1>3. Key(job[c]) \in Families46
  BY Zenon, <1>1, <1>2, KeyIs
<1>4. ent[Key(job[c])] \in EntryType
  BY Zenon, <1>2, <1>3 DEF Typed
<1>5. job[c].srv + 1 \in Nat \ {0}
  BY <1>2 DEF JobType
<1> QED
  BY Zenon, <1>2, <1>3, <1>4, <1>5, GotoOK, DoneOK DEF Used

LEMMA LookOK ==
    ASSUME OInv, NEW c \in Callers, Look(c)
    PROVE  OInv'
<1>1. c \in Procs /\ job[c].at = "look" /\ UNCHANGED <<rs, ns, ent, flight>>
  BY Zenon, ProcsAre DEF Look
<1>2. Typed /\ job[c] \in JobType /\ job \in [Procs -> JobType]
  BY Zenon, <1>1 DEF OInv, Typed
<1>3. CASE ~Last(job[c]) /\ job' = [job EXCEPT ![c].f = 2]
  <2> DEFINE g == [job[c] EXCEPT !.at = "look", !.f = 2, !.val = job[c].val]
  <2>1. g \in JobType /\ Placed(g) /\ g.at \notin Flying
    BY Zenon, <1>1, <1>2, <1>3, OtherFamilyOK DEF JobType
  <2>2. g = [job[c] EXCEPT !.f = 2]
    BY Zenon, <1>1, <1>2 DEF JobType
  <2>3. job' = [job EXCEPT ![c] = g]
    BY Zenon, <1>2, <1>3, <2>2
  <2> QED
    BY Zenon, <1>1, <2>1, <2>3, MoveOK
<1>4. CASE job' = [job EXCEPT ![c].at = "join", ![c].f = 1]
  <2> DEFINE g == [job[c] EXCEPT !.at = "join", !.f = 1]
  <2>1. g \in JobType /\ g.at = "join" /\ g.f = 1 /\ g.srv = job[c].srv /\ g.want = job[c].want
    BY Zenon, <1>2 DEF JobType
  <2>2. job' = [job EXCEPT ![c] = g]
    BY Zenon, <1>1, <1>2, <1>4
  <2> HIDE DEF g
  <2>3. Fams(g) = Fams(job[c]) /\ Len(Fams(job[c])) \in {1, 2}
        /\ job[c].srv \in DOMAIN rs.servers
    BY Zenon, <1>1, <1>2, <2>1, FamsSame, FamsAre DEF Typed, Placed, JobType
  <2>4. 1 \in 1..Len(Fams(g))
    <3>1. Len(Fams(g)) \in {1, 2}
      BY Zenon, <2>3
    <3> QED
      BY <3>1
  <2>5. Placed(g) /\ g.at \notin Flying
    BY Zenon, <2>1, <2>3, <2>4 DEF Placed, Flying
  <2> QED
    BY Zenon, <1>1, <2>1, <2>2, <2>5, MoveOK
<1>5. CASE Found(c) /\ job' = [job EXCEPT ![c] = Used(c)]
  BY Zenon, <1>1, <1>5, UsedOK, MoveOK
<1> QED
  BY Zenon, <1>3, <1>4, <1>5 DEF Look

LEMMA RefreshOK ==
    ASSUME OInv, NEW c \in Callers, Refresh(c)
    PROVE  OInv'
<1> DEFINE g == Spawn(job[c], "join")
           u == Used(c)
<1>1. /\ c \in Procs /\ -c \in Procs /\ c # -c /\ job[c].at = "look" /\ Found(c)
      /\ UNCHANGED <<rs, ns, ent, flight>> /\ job' = [job EXCEPT ![c] = u, ![-c] = g]
  BY Zenon, ProcsAre DEF Refresh, Found
<1>2. Typed /\ job[c] \in JobType /\ job \in [Procs -> JobType]
  BY Zenon, <1>1 DEF OInv, Typed
<1>3. u \in JobType /\ Placed(u) /\ u.at \notin Flying
  BY Zenon, <1>1, UsedOK
<1>4. g \in JobType /\ g.at = "join" /\ g.f = 1 /\ g.srv = job[c].srv /\ g.want = job[c].want
  BY Zenon, <1>2, EntriesAre DEF JobType, Spawn
<1> HIDE DEF g, u
<1>5. Fams(g) = Fams(job[c]) /\ Len(Fams(job[c])) \in {1, 2} /\ job[c].srv \in DOMAIN rs.servers
  BY Zenon, <1>1, <1>2, <1>4, FamsSame, FamsAre DEF Typed, Placed, JobType
<1>6. 1 \in 1..Len(Fams(g))
  <2>1. Len(Fams(g)) \in {1, 2}
    BY Zenon, <1>5
  <2> QED
    BY <2>1
<1>7. Placed(g) /\ g.at \notin Flying
  BY Zenon, <1>4, <1>5, <1>6 DEF Placed, Flying
<1>8. /\ job' = [q \in Procs |-> job'[q]] /\ job'[c] = u /\ job'[-c] = g
      /\ \A q \in Procs \ {c, -c} : job'[q] = job[q]
  BY Zenon, <1>1, <1>2
<1> QED
  BY Zenon, <1>1, <1>3, <1>4, <1>7, <1>8, MovesOK

\* singleflight: who finds the question free asks it, the others wait.
LEMMA JoinOK ==
    ASSUME OInv, NEW p \in Procs, Join(p)
    PROVE  OInv'
<1> DEFINE k == Key(job[p])
<1>1. job[p].at = "join" /\ UNCHANGED <<rs, ns, ent>>
  BY Zenon DEF Join
<1>2. /\ Typed /\ Sole /\ job[p] \in JobType /\ job \in [Procs -> JobType] /\ Placed(job[p])
      /\ flight \in [Families46 -> Procs \cup {NoOne}] /\ k \in Families46
  BY Zenon, <1>1, KeyIs DEF OInv, Typed
<1>3. ASSUME NEW a \in {"check", "wait"}, NEW g, g = [job[p] EXCEPT !.at = a]
      PROVE  g \in JobType /\ Placed(g) /\ g.at = a /\ Key(g) = k /\ g.val = job[p].val
  <2>1. g \in JobType /\ g.at = a /\ g.f = job[p].f /\ g.srv = job[p].srv /\ g.want = job[p].want
        /\ g.val = job[p].val
    BY Zenon, <1>2, <1>3 DEF JobType, Flying
  <2>2. Fams(g) = Fams(job[p])
    BY Zenon, <2>1, FamsSame
  <2> QED
    BY Zenon, <1>1, <1>2, <2>1, <2>2 DEF Placed, Key
<1>4. CASE flight[k] = NoOne
  <2> DEFINE g == [job[p] EXCEPT !.at = "check"]
  <2>1. g \in JobType /\ Placed(g) /\ g.at = "check" /\ Key(g) = k
    BY Zenon, <1>3
  <2>2. flight' = [flight EXCEPT ![k] = p] /\ job' = [job EXCEPT ![p] = g]
    BY Zenon, <1>2, <1>4 DEF Join
  <2> HIDE DEF g, k
  <2>3. /\ job' \in [Procs -> JobType] /\ flight' \in [Families46 -> Procs \cup {NoOne}]
        /\ job'[p] = g /\ flight'[k] = p
        /\ \A q \in Procs \ {p} : job'[q] = job[q]
        /\ \A l \in Families46 \ {k} : flight'[l] = flight[l]
    BY Zenon, <1>2, <2>1, <2>2
  <2>4. \A q \in Procs : Placed(job'[q])
    BY Zenon, <1>2, <2>1, <2>3 DEF Typed
  <2>5. ASSUME NEW q \in Procs, job'[q].at \in Flying PROVE flight'[Key(job'[q])] = q
    <3>1. CASE q = p
      BY Zenon, <2>1, <2>3, <3>1
    <3>2. CASE q # p
      <4>1. job'[q] = job[q] /\ job[q].at \in Flying /\ flight[Key(job[q])] = q
        BY Zenon, <1>2, <2>3, <2>5, <3>2 DEF Sole
      <4>2. Key(job[q]) \in Families46
        BY Zenon, <1>2, <4>1, KeyIs DEF Flying
      <4>3. q # NoOne
        BY Zenon, ProcsAre DEF Procs, Refreshers
      <4> QED
        BY Zenon, <1>4, <2>3, <4>1, <4>2, <4>3 DEF k
    <3> QED
      BY Zenon, <3>1, <3>2
  <2>6. \A q \in Procs : job'[q].at = "store" =>
           job[q].at = "store" /\ job'[q].val = job[q].val /\ Key(job'[q]) = Key(job[q])
    BY Zenon, <2>1, <2>3
  <2> QED
    BY Zenon, <1>1, <2>3, <2>4, <2>5, <2>6, StepOK
<1>5. CASE flight[k] # NoOne
  <2> DEFINE g == [job[p] EXCEPT !.at = "wait"]
  <2>1. g \in JobType /\ Placed(g) /\ g.at = "wait"
    BY Zenon, <1>3
  <2>2. job' = [job EXCEPT ![p] = g] /\ flight' = flight
    BY Zenon, <1>2, <1>5 DEF Join
  <2> HIDE DEF g
  <2> QED
    BY Zenon, <1>1, <2>1, <2>2, MoveOK DEF Flying
<1> QED
  BY Zenon, <1>4, <1>5

\* The answer goes to the one that asked and to those that wait, and nobody else
\* was asking the same.
LEMMA DeliverOK ==
    ASSUME OInv, NEW p \in Procs, job[p].at \in Flying, NEW e \in EntryType, Deliver(p, e),
           rs' = rs
    PROVE  /\ job' \in [Procs -> JobType] /\ \A q \in Procs : Placed(job'[q])
           /\ flight' \in [Families46 -> Procs \cup {NoOne}]
           /\ \A q \in Procs : job'[q].at \in Flying =>
                /\ q # p /\ job'[q] = job[q] /\ Key(job[q]) # Key(job[p])
                /\ flight'[Key(job'[q])] = q
<1> DEFINE k == Key(job[p])
           all == {q \in DOMAIN job : q = p \/ (job[q].at = "wait" /\ Key(job[q]) = k)}
<1>1. /\ job' = [q \in DOMAIN job |-> IF q \in all THEN Takes(q, e) ELSE job[q]]
      /\ flight' = [flight EXCEPT ![k] = NoOne]
  BY Zenon DEF Deliver
<1>2. /\ Typed /\ Sole /\ job \in [Procs -> JobType] /\ \A q \in Procs : Placed(job[q])
      /\ flight \in [Families46 -> Procs \cup {NoOne}]
  BY Zenon DEF OInv, Typed
<1>3. k \in Families46 /\ flight[k] = p
  BY Zenon, <1>2, KeyIs DEF Flying, Sole
<1>4. /\ all \subseteq Procs /\ p \in all
      /\ \A q \in all : job[q].at \notin {"idle", "done"}
  BY Zenon, <1>2 DEF Flying
<1> HIDE DEF all, k
<1>5. \A q \in all : Takes(q, e) \in JobType /\ Placed(Takes(q, e)) /\ Takes(q, e).at \notin Flying
  BY Zenon, <1>2, <1>4, TakesOK
<1>6. \A q \in Procs : job'[q] = IF q \in all THEN Takes(q, e) ELSE job[q]
  BY Zenon, <1>1, <1>2
<1>7. job' \in [Procs -> JobType]
  BY Zenon, <1>1, <1>2, <1>5
<1>8. \A q \in Procs : Placed(job'[q])
  BY Zenon, <1>2, <1>5, <1>6
<1>9. flight' \in [Families46 -> Procs \cup {NoOne}]
  BY Zenon, <1>1, <1>2
<1>10. ASSUME NEW q \in Procs, job'[q].at \in Flying
       PROVE  /\ q # p /\ job'[q] = job[q] /\ Key(job[q]) # Key(job[p])
              /\ flight'[Key(job'[q])] = q
  <2>1. q \notin all /\ job'[q] = job[q] /\ job[q].at \in Flying /\ q # p
    BY Zenon, <1>4, <1>5, <1>6, <1>10
  <2>2. flight[Key(job[q])] = q /\ Key(job[q]) \in Families46
    BY Zenon, <1>2, <2>1, KeyIs DEF Sole, Flying
  <2>3. Key(job[q]) # k
    BY Zenon, <1>3, <2>1, <2>2
  <2> QED
    BY Zenon, <1>1, <1>2, <1>3, <2>1, <2>2, <2>3 DEF k
<1> QED
  BY Zenon, <1>7, <1>8, <1>9, <1>10

\* An answer is delivered, and nothing stored.
LEMMA DeliveredOK ==
    ASSUME OInv, NEW p \in Procs, job[p].at \in Flying, NEW e \in EntryType, Deliver(p, e),
           UNCHANGED <<rs, ns, ent>>
    PROVE  OInv'
<1>1. /\ job' \in [Procs -> JobType] /\ \A q \in Procs : Placed(job'[q])
      /\ flight' \in [Families46 -> Procs \cup {NoOne}]
      /\ \A q \in Procs : job'[q].at \in Flying =>
           job'[q] = job[q] /\ flight'[Key(job'[q])] = q
  BY Zenon, DeliverOK
<1> QED
  BY Zenon, <1>1, StepOK DEF Flying

\* The one that asks goes on to another step of it.
LEMMA AskingOK ==
    ASSUME OInv, NEW p \in Procs, job[p].at \in Flying, NEW a \in {"ask", "store"},
           NEW v \in EntryType, UNCHANGED <<rs, flight>>,
           job' = [job EXCEPT ![p].at = a, ![p].val = v]
    PROVE  /\ job' \in [Procs -> JobType] /\ \A q \in Procs : Placed(job'[q])
           /\ flight' \in [Families46 -> Procs \cup {NoOne}]
           /\ \A q \in Procs : job'[q].at \in Flying => flight'[Key(job'[q])] = q
           /\ job'[p].at = a /\ job'[p].val = v /\ Key(job'[p]) = Key(job[p])
           /\ \A q \in Procs \ {p} : job'[q] = job[q]
<1> DEFINE g == [job[p] EXCEPT !.at = a, !.val = v]
<1>1. /\ Typed /\ Sole /\ job \in [Procs -> JobType] /\ \A q \in Procs : Placed(job[q])
      /\ flight \in [Families46 -> Procs \cup {NoOne}]
  BY Zenon DEF OInv, Typed
<1>2. job' = [job EXCEPT ![p] = g]
  BY Zenon, <1>1
<1>3. /\ g \in JobType /\ g.at = a /\ g.val = v /\ g.f = job[p].f /\ g.srv = job[p].srv
      /\ g.want = job[p].want
  BY Zenon, <1>1 DEF JobType, Flying
<1> HIDE DEF g
<1>4. Fams(g) = Fams(job[p])
  BY Zenon, <1>3, FamsSame
<1>5. Placed(g) /\ Key(g) = Key(job[p])
  BY Zenon, <1>1, <1>3, <1>4 DEF Placed, Key, Flying
<1>6. job'[p] = g /\ \A q \in Procs \ {p} : job'[q] = job[q]
  BY Zenon, <1>1, <1>2
<1>7. job' \in [Procs -> JobType]
  BY Zenon, <1>1, <1>2, <1>3
<1> QED
  BY <1>1, <1>3, <1>5, <1>6, <1>7 DEF Sole

LEMMA CheckOK ==
    ASSUME OInv, NEW p \in Procs, Check(p)
    PROVE  OInv'
<1>1. job[p].at = "check" /\ job[p].at \in Flying /\ UNCHANGED <<rs, ns, ent>>
  BY Zenon DEF Check, Flying
<1>2. ent[Key(job[p])] \in EntryType /\ job[p] \in JobType /\ job \in [Procs -> JobType]
  BY Zenon, <1>1, KeyIs DEF OInv, Typed
<1>3. CASE Deliver(p, ent[Key(job[p])])
  BY Zenon, <1>1, <1>2, <1>3, DeliveredOK
<1>4. CASE job' = [job EXCEPT ![p].at = "ask"] /\ UNCHANGED flight
  <2>1. job' = [job EXCEPT ![p].at = "ask", ![p].val = job[p].val] /\ job[p].val \in EntryType
    BY Zenon, <1>2, <1>4 DEF JobType
  <2>2. /\ job' \in [Procs -> JobType] /\ \A q \in Procs : Placed(job'[q])
        /\ flight' \in [Families46 -> Procs \cup {NoOne}]
        /\ \A q \in Procs : job'[q].at \in Flying => flight'[Key(job'[q])] = q
        /\ job'[p].at = "ask" /\ \A q \in Procs \ {p} : job'[q] = job[q]
    BY Zenon, <1>1, <1>4, <2>1, AskingOK
  <2>3. \A q \in Procs : job'[q].at = "store" =>
           job[q].at = "store" /\ job'[q].val = job[q].val /\ Key(job'[q]) = Key(job[q])
    BY Zenon, <2>2
  <2> QED
    BY Zenon, <1>1, <2>2, <2>3, StepOK
<1> QED
  BY Zenon, <1>3, <1>4 DEF Check

\* The server is asked: its answer is not older than an entry that came from it.
LEMMA ExchangeOK ==
    ASSUME OInv, NEW p \in Procs, Exchange(p)
    PROVE  OInv'
<1> DEFINE k == Key(job[p])
           s == job[p].srv
           v == [from |-> s, ver |-> ns[s].ver[k], fresh |-> TRUE,
                 empty |-> ns[s].state # "up" \/ k \in ns[s].empty]
<1>1. job[p].at = "ask" /\ job[p].at \in Flying /\ UNCHANGED <<rs, ns, ent>>
  BY Zenon DEF Exchange, Flying
<1>2. /\ Typed /\ Sole /\ Ordered /\ k \in Families46 /\ s \in DOMAIN rs.servers /\ s \in Nat
      /\ ns[s] \in ServerType /\ job[p] \in JobType /\ job \in [Procs -> JobType]
      /\ ent \in [Families46 -> EntryType]
  BY Zenon, <1>1, KeyIs DEF OInv, Typed, Placed, JobType
<1>3. CASE Deliver(p, NoEntry)
  BY Zenon, <1>1, <1>3, DeliveredOK, EntriesAre
<1>4. CASE job' = [job EXCEPT ![p].at = "store", ![p].val = v] /\ UNCHANGED flight
  <2>1. v \in EntryType /\ v.from = s /\ v.ver = ns[s].ver[k]
    BY Zenon, <1>2 DEF EntryType, ServerType
  <2>2. job' = [job EXCEPT ![p].at = "store", ![p].val = v] /\ UNCHANGED flight
    BY Zenon, <1>4
  <2> HIDE DEF v, s
  <2>3. /\ job' \in [Procs -> JobType] /\ \A q \in Procs : Placed(job'[q])
        /\ flight' \in [Families46 -> Procs \cup {NoOne}]
        /\ \A q \in Procs : job'[q].at \in Flying => flight'[Key(job'[q])] = q
        /\ job'[p].at = "store" /\ job'[p].val = v /\ Key(job'[p]) = k
        /\ \A q \in Procs \ {p} : job'[q] = job[q]
    BY Zenon, <1>1, <2>1, <2>2, AskingOK
  <2>4. Typed' /\ Sole'
    BY Zenon, <1>1, <1>2, <2>3, PrimeSame DEF Typed, Sole, IsHandler
  <2> HIDE DEF k
  <2>5. /\ v.from \in DOMAIN rs.servers /\ v.ver <= ns[v.from].ver[k]
        /\ ent[k].from = v.from => ent[k].ver <= v.ver
    BY SMTT(30), <1>2, <2>1 DEF Ordered, ServerType
  <2>6. ASSUME NEW q \in Procs, job'[q].at = "store"
        PROVE  LET l == Key(job'[q])
                   w == job'[q].val
               IN /\ w.from \in DOMAIN rs'.servers /\ w.ver <= ns'[w.from].ver[l]
                  /\ ent'[l].from = w.from => ent'[l].ver <= w.ver
    <3>1. CASE q = p
      BY Zenon, <1>1, <2>3, <2>5, <3>1
    <3>2. CASE q # p
      BY Zenon, <1>1, <1>2, <2>3, <2>6, <3>2 DEF Ordered
    <3> QED
      BY Zenon, <3>1, <3>2
  <2>7. Ordered'
    <3>1. \A l \in Families46 :
            (ent[l].from \in DOMAIN rs.servers => ent[l].ver <= ns[ent[l].from].ver[l])'
      BY Zenon, <1>1, <1>2 DEF Ordered
    <3> QED
      BY Zenon, <1>1, <2>6, <3>1, PrimeSame DEF Ordered
  <2> QED
    BY Zenon, <2>4, <2>7 DEF OInv
<1> QED
  BY Zenon, <1>3, <1>4 DEF Exchange

\* What a step of the cache may not do.
Onward == \A k \in Families46 : ent'[k].from = ent[k].from => ent'[k].ver >= ent[k].ver

\* The answer is stored: the entry it replaces is not newer, and nobody else is
\* about to store one of the same question.
LEMMA StoreOK ==
    ASSUME OInv, NEW p \in Procs, StoreAnswer(p)
    PROVE  OInv' /\ Onward
<1> DEFINE k == Key(job[p])
           v == job[p].val
<1>1. job[p].at = "store" /\ job[p].at \in Flying /\ UNCHANGED <<rs, ns>> /\ Deliver(p, v)
  BY Zenon DEF StoreAnswer, Flying
<1>2. /\ Typed /\ Ordered /\ k \in Families46 /\ v \in EntryType
      /\ ent \in [Families46 -> EntryType] /\ ns \in [DOMAIN rs.servers -> ServerType]
  BY Zenon, <1>1, KeyIs DEF OInv, Typed, JobType
<1>3. /\ job' \in [Procs -> JobType] /\ \A q \in Procs : Placed(job'[q])
      /\ flight' \in [Families46 -> Procs \cup {NoOne}]
      /\ \A q \in Procs : job'[q].at \in Flying =>
           job'[q] = job[q] /\ Key(job[q]) # k /\ flight'[Key(job'[q])] = q
  BY Zenon, <1>1, <1>2, DeliverOK
<1>4. CASE ent' = ent
  <2>1. OInv'
    BY Zenon, <1>1, <1>3, <1>4, StepOK DEF Flying
  <2>2. Onward
    BY <1>2, <1>4 DEF Onward, EntryType
  <2> QED
    BY Zenon, <2>1, <2>2
<1>5. CASE ent' = [ent EXCEPT ![k] = v]
  <2>1. /\ v.from \in DOMAIN rs.servers /\ v.ver <= ns[v.from].ver[k]
        /\ ent[k].from = v.from => ent[k].ver <= v.ver
    BY Zenon, <1>1, <1>2 DEF Ordered
  <2> HIDE DEF k, v
  <2>2. /\ ent' \in [Families46 -> EntryType] /\ ent'[k] = v
        /\ \A l \in Families46 \ {k} : ent'[l] = ent[l]
    BY Zenon, <1>2, <1>5
  <2>3. Typed' /\ Sole'
    BY Zenon, <1>1, <1>2, <1>3, <2>2, PrimeSame DEF Typed, Sole, IsHandler
  <2>4. \A l \in Families46 :
          (ent[l].from \in DOMAIN rs.servers => ent[l].ver <= ns[ent[l].from].ver[l])'
    BY Zenon, <1>1, <1>2, <2>1, <2>2 DEF Ordered
  <2>5. ASSUME NEW q \in Procs, job'[q].at = "store"
        PROVE  LET l == Key(job'[q])
                   w == job'[q].val
               IN /\ w.from \in DOMAIN rs'.servers /\ w.ver <= ns'[w.from].ver[l]
                  /\ ent'[l].from = w.from => ent'[l].ver <= w.ver
    <3>1. job'[q] = job[q] /\ Key(job[q]) # k
      BY Zenon, <1>3, <2>5 DEF Flying
    <3>2. Key(job[q]) \in Families46
      BY Zenon, <1>2, <2>5, <3>1, KeyIs
    <3>3. ent'[Key(job[q])] = ent[Key(job[q])]
      BY Zenon, <2>2, <3>1, <3>2
    <3> QED
      BY Zenon, <1>1, <1>2, <2>5, <3>1, <3>3 DEF Ordered
  <2>6. Ordered'
    BY Zenon, <1>1, <2>4, <2>5, PrimeSame DEF Ordered
  <2>7. Onward
    BY <1>2, <2>1, <2>2 DEF Onward, EntryType
  <2> QED
    BY Zenon, <2>3, <2>6, <2>7 DEF OInv
<1> QED
  BY Zenon, <1>4, <1>5 DEF StoreAnswer

LEMMA ExpiresOK ==
    ASSUME OInv, NEW k \in Families46, Expires(k)
    PROVE  OInv' /\ Onward
<1>1. UNCHANGED <<rs, ns, flight, job>> /\ ent' = [ent EXCEPT ![k].fresh = FALSE]
  BY Zenon DEF Expires
<1>2. Typed /\ Sole /\ Ordered /\ ent \in [Families46 -> EntryType]
  BY Zenon DEF OInv, Typed
<1>3. /\ ent' \in [Families46 -> EntryType]
      /\ \A l \in Families46 : ent'[l].from = ent[l].from /\ ent'[l].ver = ent[l].ver
  BY Zenon, <1>1, <1>2 DEF EntryType
<1>4. Typed' /\ Sole'
  BY Zenon, <1>1, <1>2, <1>3, PrimeSame DEF Typed, Sole, IsHandler
<1>5. \A p \in Procs : job[p].at = "store" => Key(job[p]) \in Families46
  BY Zenon, <1>2, KeyIs
<1>6. Ordered'
  <2>1. \A l \in Families46 :
          (ent[l].from \in DOMAIN rs.servers => ent[l].ver <= ns[ent[l].from].ver[l])'
    BY Zenon, <1>1, <1>2, <1>3 DEF Ordered
  <2>2. ASSUME NEW q \in Procs, job'[q].at = "store"
        PROVE  LET l == Key(job'[q])
                   w == job'[q].val
               IN /\ w.from \in DOMAIN rs'.servers /\ w.ver <= ns'[w.from].ver[l]
                  /\ ent'[l].from = w.from => ent'[l].ver <= w.ver
    BY Zenon, <1>1, <1>2, <1>3, <1>5, <2>2 DEF Ordered
  <2> QED
    BY Zenon, <1>1, <2>1, <2>2, PrimeSame DEF Ordered
<1>7. Onward
  BY <1>2, <1>3 DEF Onward, EntryType
<1> QED
  BY Zenon, <1>4, <1>6, <1>7 DEF OInv

\* What a server holds only gets newer.
LEMMA ServerChangesOK ==
    ASSUME OInv, NEW s \in DOMAIN rs.servers, ServerChanges(s)
    PROVE  OInv'
<1>1. UNCHANGED <<rs, ent, flight, job>>
  BY Zenon DEF ServerChanges
<1>2. /\ Typed /\ Sole /\ Ordered /\ ent \in [Families46 -> EntryType]
      /\ ns \in [DOMAIN rs.servers -> ServerType] /\ job \in [Procs -> JobType]
  BY Zenon DEF OInv, Typed
<1>3. /\ ns' \in [DOMAIN rs.servers -> ServerType]
      /\ \A i \in DOMAIN rs.servers, l \in Families46 : ns[i].ver[l] <= ns'[i].ver[l]
  <2>1. ns[s] \in ServerType /\ ns[s].ver \in [Families46 -> Nat] /\ ns[s].empty \subseteq Families46
    BY Zenon, <1>2 DEF ServerType
  <2>2. ASSUME NEW t \in ServerType, ns' = [ns EXCEPT ![s] = t],
               \A l \in Families46 : ns[s].ver[l] <= t.ver[l]
        PROVE  <1>3
    <3>1. ns' \in [DOMAIN rs.servers -> ServerType]
      BY Zenon, <1>2, <2>2
    <3>2. \A i \in DOMAIN rs.servers : ns'[i] = IF i = s THEN t ELSE ns[i]
      BY Zenon, <1>2, <2>2
    <3>3. \A i \in DOMAIN rs.servers, l \in Families46 : ns[i].ver[l] \in Nat
      BY <1>2 DEF ServerType
    <3> QED
      BY <2>2, <3>1, <3>2, <3>3
  <2>3. ASSUME NEW k \in Families46, NEW e \in SUBSET Families46,
               ns' = [ns EXCEPT ![s].ver[k] = @ + 1, ![s].empty = e]
        PROVE  <1>3
    <3> DEFINE w == [ns[s].ver EXCEPT ![k] = @ + 1]
               t == [ns[s] EXCEPT !.ver = w, !.empty = e]
    <3>1. w \in [Families46 -> Nat] /\ \A l \in Families46 : ns[s].ver[l] <= w[l]
      BY <2>1
    <3>2. ns' = [ns EXCEPT ![s] = t]
      BY Zenon, <2>3
    <3> HIDE DEF w
    <3>3. t \in ServerType /\ t.ver = w
      BY Zenon, <2>1, <3>1 DEF ServerType
    <3> QED
      BY Zenon, <2>2, <3>1, <3>2, <3>3
  <2>4. ASSUME NEW k \in Families46, ns' = [ns EXCEPT ![s].ver[k] = @ + 1]
        PROVE  <1>3
    <3> DEFINE w == [ns[s].ver EXCEPT ![k] = @ + 1]
               t == [ns[s] EXCEPT !.ver = w]
    <3>1. w \in [Families46 -> Nat] /\ \A l \in Families46 : ns[s].ver[l] <= w[l]
      BY <2>1
    <3>2. ns' = [ns EXCEPT ![s] = t]
      BY Zenon, <2>4
    <3> HIDE DEF w
    <3>3. t \in ServerType /\ t.ver = w
      BY Zenon, <2>1, <3>1 DEF ServerType
    <3> QED
      BY Zenon, <2>2, <3>1, <3>2, <3>3
  <2>5. ASSUME NEW x \in {"up", "down", "refusing"}, ns' = [ns EXCEPT ![s].state = x]
        PROVE  <1>3
    <3> DEFINE t == [ns[s] EXCEPT !.state = x]
    <3>1. ns' = [ns EXCEPT ![s] = t]
      BY Zenon, <2>5
    <3>2. t \in ServerType /\ t.ver = ns[s].ver /\ \A l \in Families46 : ns[s].ver[l] \in Nat
      BY Zenon, <2>1 DEF ServerType
    <3>3. \A l \in Families46 : ns[s].ver[l] <= t.ver[l]
      BY <3>2
    <3> HIDE DEF t
    <3> QED
      BY Zenon, <2>2, <3>1, <3>2, <3>3
  <2>6. ASSUME NEW k \in Families46,
               ns' = [ns EXCEPT ![s].ver[k] = @ + 1,
                                ![s].empty = IF k \in @ THEN @ \ {k} ELSE @ \cup {k}]
        PROVE  <1>3
    <3> DEFINE e == IF k \in ns[s].empty THEN ns[s].empty \ {k} ELSE ns[s].empty \cup {k}
    <3>1. e \in SUBSET Families46
      BY Zenon, <2>1
    <3>2. ns' = [ns EXCEPT ![s].ver[k] = @ + 1, ![s].empty = e]
      BY Zenon, <1>2, <2>1, <2>6 DEF ServerType
    <3> HIDE DEF e
    <3> QED
      BY Zenon, <2>3, <3>1, <3>2
  <2> QED
    BY Zenon, <2>4, <2>5, <2>6 DEF ServerChanges
<1>4. Typed' /\ Sole'
  BY Zenon, <1>1, <1>2, <1>3, PrimeSame DEF Typed, Sole, IsHandler
<1>5. \A p \in Procs : job[p].at = "store" => Key(job[p]) \in Families46 /\ job[p].val.ver \in Nat
  BY Zenon, <1>2, KeyIs DEF JobType, EntryType
<1>6. Ordered'
  <2>0. /\ \A l \in Families46 : ent[l].ver \in Nat
        /\ \A i \in DOMAIN rs.servers, l \in Families46 : ns[i].ver[l] \in Nat /\ ns'[i].ver[l] \in Nat
    BY SMTT(30), <1>2, <1>3 DEF EntryType, ServerType
  <2>1. \A l \in Families46 :
          (ent[l].from \in DOMAIN rs.servers => ent[l].ver <= ns[ent[l].from].ver[l])'
    BY SMTT(30), <1>1, <1>2, <1>3, <2>0 DEF Ordered
  <2>2. ASSUME NEW q \in Procs, job'[q].at = "store"
        PROVE  LET l == Key(job'[q])
                   w == job'[q].val
               IN /\ w.from \in DOMAIN rs'.servers /\ w.ver <= ns'[w.from].ver[l]
                  /\ ent'[l].from = w.from => ent'[l].ver <= w.ver
    <3> DEFINE l == Key(job[q])
               w == job[q].val
    <3>1. job'[q] = job[q] /\ rs' = rs /\ ent' = ent /\ job[q].at = "store"
      BY Zenon, <1>1, <2>2
    <3>2. /\ l \in Families46 /\ w.ver \in Nat
          /\ w.from \in DOMAIN rs.servers /\ w.ver <= ns[w.from].ver[l]
          /\ ent[l].from = w.from => ent[l].ver <= w.ver
      BY Zenon, <1>2, <1>5, <3>1 DEF Ordered
    <3> HIDE DEF l, w
    <3>3. w.ver <= ns'[w.from].ver[l]
      BY <1>3, <2>0, <3>2
    <3> QED
      BY Zenon, <3>1, <3>2, <3>3 DEF l, w
  <2> QED
    BY Zenon, <1>1, <2>1, <2>2, PrimeSame DEF Ordered
<1> QED
  BY Zenon, <1>4, <1>6 DEF OInv

-----------------------------------------------------------------------------
(* The cache of the resolver.                                              *)

LEMMA InitOK == ResolverInit(ResolverConfs) => CInv
<1> SUFFICES ASSUME ResolverInit(ResolverConfs), ~IsHandler PROVE OInv
  BY Zenon DEF CInv
<1>1. /\ rs \in ResolverConfs /\ ent = [k \in Families46 |-> NoEntry]
      /\ flight = [k \in Families46 |-> NoOne] /\ job = [p \in Procs |-> IdleJob]
      /\ ns = [s \in DOMAIN rs.servers |->
                 [state |-> "up", ver |-> [k \in Families46 |-> 1], empty |-> rs.empty[s]]]
  BY Zenon DEF ResolverInit, Procs
<1>2. \A s \in DOMAIN rs.servers : rs.empty[s] \subseteq Families46
  BY Zenon, <1>1, ResolverAssumption
<1>3. ns \in [DOMAIN rs.servers -> ServerType]
  <2> SUFFICES ASSUME NEW s \in DOMAIN rs.servers
               PROVE  [state |-> "up", ver |-> [k \in Families46 |-> 1], empty |-> rs.empty[s]]
                        \in ServerType
    BY Zenon, <1>1
  <2>1. [k \in Families46 |-> 1] \in [Families46 -> Nat]
    BY Zenon
  <2> QED
    BY Zenon, <1>2, <2>1 DEF ServerType
<1>4. ent \in [Families46 -> EntryType] /\ flight \in [Families46 -> Procs \cup {NoOne}]
      /\ job \in [Procs -> JobType] /\ \A p \in Procs : job[p] = IdleJob
  BY Zenon, <1>1, EntriesAre
<1>5. Typed
  BY Zenon, <1>1, <1>3, <1>4, EntriesAre DEF Typed, Placed
<1>6. Sole
  BY Zenon, <1>4, EntriesAre DEF Sole, Flying
<1>7. \A k \in Families46 : ent[k].from \notin DOMAIN rs.servers
  <2>1. \A k \in Families46 : ent[k].from = 0
    BY Zenon, <1>1 DEF NoEntry
  <2>2. 0 \notin DOMAIN rs.servers
    BY SMTT(30), <1>1, ResolverAssumption
  <2> QED
    BY Zenon, <2>1, <2>2
<1>8. Ordered
  BY Zenon, <1>4, <1>7, EntriesAre DEF Ordered
<1> QED
  BY Zenon, <1>5, <1>6, <1>8 DEF OInv

\* A step of the resolver keeps the invariant, and no entry goes back.
LEMMA StepsOK ==
    ASSUME OInv, [ResolverNext]_svars
    PROVE  OInv' /\ Onward
<1>1. ASSUME OInv', ent' = ent PROVE OInv' /\ Onward
  BY <1>1 DEF Onward, OInv, Typed, EntryType
<1>2. ASSUME NEW c \in Callers, Ask(c) \/ Look(c) \/ Refresh(c)
      PROVE  OInv' /\ Onward
  BY Zenon, <1>1, <1>2, AskOK, LookOK, RefreshOK DEF Ask, Look, Refresh
<1>3. ASSUME NEW c \in Callers, Request(c) \/ LoadEntry(c) \/ RefreshTTL(c)
      PROVE  FALSE
  <2>1. c \in Procs /\ ~IsHandler /\ job[c].at \notin {"load", "refresh"}
    BY Zenon, ProcsAre DEF OInv, Typed, JobType, Flying
  <2> QED
    BY Zenon, <1>3, <2>1 DEF Request, LoadEntry, RefreshTTL
<1>4. ASSUME NEW p \in Procs, Join(p) \/ Check(p) \/ Exchange(p) \/ StoreAnswer(p)
      PROVE  OInv' /\ Onward
  BY Zenon, <1>1, <1>4, JoinOK, CheckOK, ExchangeOK, StoreOK DEF Join, Check, Exchange
<1>5. ASSUME NEW s \in DOMAIN rs.servers, ServerChanges(s) PROVE OInv' /\ Onward
  BY Zenon, <1>1, <1>5, ServerChangesOK DEF ServerChanges
<1>6. CASE UNCHANGED svars
  <2>1. UNCHANGED <<rs, ns, ent, flight, job>>
    BY Zenon, <1>6 DEF svars
  <2>2. OInv'
    BY Zenon, <2>1, MovesOK DEF OInv, Typed
  <2> QED
    BY Zenon, <1>1, <2>1, <2>2
<1> QED
  BY Zenon, <1>2, <1>3, <1>4, <1>5, <1>6, ExpiresOK DEF ResolverNext, Procs

\* Resolver.resolve asks through a singleflight group, checks the cache in it and
\* stores before it lets go: for any callers, nameservers and networks no answer
\* in the cache is replaced by an older one of the same nameserver.
THEOREM CacheNeverGoesBack == ResolverSpec => NeverBack
<1> DEFINE Back == \A k \in Families46 : ent'[k].from = ent[k].from =>
                                            ent'[k].ver >= ent[k].ver \/ IsHandler
<1>1. CInv /\ [ResolverNext]_svars => CInv'
  <2>1. ASSUME IsHandler, [ResolverNext]_svars PROVE IsHandler'
    <3>1. rs' = rs
      BY Zenon, <2>1 DEF ResolverNext, svars, Ask, Request, Look, Refresh, LoadEntry, RefreshTTL,
                  Join, Check, Exchange, StoreAnswer, Expires, ServerChanges
    <3> QED
      BY Zenon, <2>1, <3>1 DEF IsHandler
  <2> QED
    BY Zenon, <2>1, StepsOK DEF CInv
<1>2. CInv /\ [ResolverNext]_svars => [Back]_svars
  BY Zenon, StepsOK DEF CInv, Onward
<1> QED
  BY <1>1, <1>2, InitOK, PTL DEF ResolverSpec, NeverBack
=============================================================================
