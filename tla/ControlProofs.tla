---------------------------- MODULE ControlProofs ----------------------------
(***************************************************************************)
(* What holds of the control plane for any names, any number of concurrent *)
(* requests, any configurations and any reloads, and of the tables of      *)
(* rules for any sources and rules.                                        *)
(***************************************************************************)
EXTENDS RuleTables, Integers, WellFoundedInduction, SequenceTheorems, TLAPS

-----------------------------------------------------------------------------
(* Induction, and what a loop over a list keeps.                           *)

\* A set of numbers that is not empty has a least element.
LEMMA NatMin ==
    ASSUME NEW T \in SUBSET Nat, T # {}
    PROVE  \E x \in T : \A y \in T : x <= y
<1> DEFINE R == OpToRel(<, Nat)
<1>1. IsWellFoundedOn(R, Nat)
  BY Zenon, NatLessThanWellFounded
<1>2. \A y, x \in Nat : <<y, x>> \in R <=> y < x
  BY Zenon DEF OpToRel
<1> HIDE DEF R
<1>3. PICK x \in T : \A y \in T : ~ (<<y, x>> \in R)
  BY Zenon, <1>1, WFMin
<1>4. \A y \in T : x <= y
  <2> TAKE y \in T
  <2>1. y \in Nat /\ x \in Nat
    BY Zenon
  <2>2. ~ (y < x)
    BY Zenon, <1>2, <1>3, <2>1
  <2> QED BY <2>1, <2>2
<1> QED BY Zenon, <1>4

\* A set with 0, and with n + 1 whenever it has n < m, has every number to m.
LEMMA UpTo ==
    ASSUME NEW S, NEW m \in Nat, 0 \in S, \A n \in Nat : n < m /\ n \in S => n + 1 \in S
    PROVE  0..m \subseteq S
<1> DEFINE T == (0..m) \ S
<1> SUFFICES ASSUME T # {} PROVE FALSE
  BY Zenon
<1>1. PICK x \in T : \A y \in T : x <= y
  BY NatMin, T \in SUBSET Nat, Zenon
<1>2. x \in Nat /\ x # 0 /\ x - 1 \in Nat /\ ~ (x <= x - 1) /\ (x - 1) + 1 = x /\ x - 1 < m
  BY <1>1
<1>3. x - 1 \in S
  BY <1>1, <1>2
<1> QED BY Zenon, <1>1, <1>2, <1>3

\* What the loop has kept of s when it has seen i elements, for i to m.
Keeping(K, s, S, m) ==
    K = [i \in 0..m |-> IF i = 0 THEN <<>>
                        ELSE IF s[i] \in S THEN Append(K[i - 1], s[i])
                        ELSE K[i - 1]]

\* The loop can be followed to the end of the list.
LEMMA KeepingExists ==
    ASSUME NEW s, NEW S, NEW m \in Nat
    PROVE  \E K : Keeping(K, s, S, m)
<1> DEFINE T == {n \in 0..m : \E K : Keeping(K, s, S, n)}
<1>1. 0 \in T
  <2> DEFINE K == [i \in 0..0 |-> <<>>]
  <2>1. Keeping(K, s, S, 0)
    BY DEF Keeping
  <2> QED BY <2>1
<1>2. ASSUME NEW n \in Nat, n < m, n \in T
      PROVE  n + 1 \in T
  <2>1. PICK K : Keeping(K, s, S, n)
    BY Zenon, <1>2
  <2> DEFINE L == [i \in 0..(n + 1) |->
                     IF i = n + 1 THEN IF s[n + 1] \in S THEN Append(K[n], s[n + 1]) ELSE K[n]
                     ELSE K[i]]
             M == [i \in 0..(n + 1) |-> IF i = 0 THEN <<>>
                        ELSE IF s[i] \in S THEN Append(L[i - 1], s[i])
                        ELSE L[i - 1]]
  <2>2. \A i \in 0..(n + 1) : L[i] = M[i]
    <3> TAKE i \in 0..(n + 1)
    <3>1. CASE i = n + 1
      BY <3>1
    <3>2. CASE i # n + 1
      <4>1. i \in 0..n /\ L[i] = K[i] /\ (i # 0 => i - 1 \in 0..n /\ L[i - 1] = K[i - 1])
        BY <3>2
      <4>2. K[i] = IF i = 0 THEN <<>>
                   ELSE IF s[i] \in S THEN Append(K[i - 1], s[i]) ELSE K[i - 1]
        BY Zenon, <2>1, <4>1 DEF Keeping
      <4> QED BY Zenon, <4>1, <4>2
    <3> QED BY Zenon, <3>1, <3>2
  <2>3. L = M
    BY Zenon, <2>2
  <2>4. Keeping(L, s, S, n + 1)
    BY Zenon, <2>3 DEF Keeping
  <2> QED BY <2>4, <1>2
<1>3. 0..m \subseteq T
  <2> HIDE DEF T
  <2> QED BY Zenon, <1>1, <1>2, UpTo
<1> QED BY <1>3

\* At most one element of s is in A.
OneIn(s, A) == \A i, j \in 1..Len(s) : s[i] \in A /\ s[j] \in A => i = j

\* k is what is kept of the first n elements of s.
KeptOf(k, s, S, n) ==
    /\ \A i \in 1..Len(k) : \E j \in 1..n : k[i] = s[j] /\ s[j] \in S
    /\ \A j \in 1..n : s[j] \in S => \E i \in 1..Len(k) : k[i] = s[j]

\* One more element is kept.
LEMMA KeptAppend ==
    ASSUME NEW X, NEW s \in Seq(X), NEW S, NEW A, NEW k \in Seq(X), NEW n \in Nat, n < Len(s),
           KeptOf(k, s, S, n), s[n + 1] \in S, OneIn(s, A), OneIn(k, A)
    PROVE  LET l == Append(k, s[n + 1])
           IN l \in Seq(X) /\ KeptOf(l, s, S, n + 1) /\ OneIn(l, A)
<1> DEFINE e == s[n + 1]
           l == Append(k, e)
<1>1. /\ l \in Seq(X) /\ Len(l) = Len(k) + 1 /\ l[Len(k) + 1] = e /\ Len(k) \in Nat
      /\ \A i \in 1..Len(k) : l[i] = k[i]
  OBVIOUS
<1> HIDE DEF l
<1>2. \A i \in 1..Len(l) : \E j \in 1..(n + 1) : l[i] = s[j] /\ s[j] \in S
  <2> TAKE i \in 1..Len(l)
  <2>1. CASE i = Len(k) + 1
    BY <2>1, <1>1
  <2>2. CASE i \in 1..Len(k)
    <3>1. PICK j \in 1..n : k[i] = s[j] /\ s[j] \in S
      BY Zenon, <2>2 DEF KeptOf
    <3>2. j \in 1..(n + 1) /\ l[i] = s[j]
      BY <3>1, <2>2, <1>1
    <3> QED BY Zenon, <3>1, <3>2
  <2> QED BY <2>1, <2>2, <1>1
<1>3. \A j \in 1..(n + 1) : s[j] \in S => \E i \in 1..Len(l) : l[i] = s[j]
  <2> TAKE j \in 1..(n + 1)
  <2>1. CASE j = n + 1
    <3>1. Len(k) + 1 \in 1..Len(l) /\ l[Len(k) + 1] = s[j]
      BY <2>1, <1>1
    <3> QED BY Zenon, <3>1
  <2>2. CASE j \in 1..n
    <3> HAVE s[j] \in S
    <3>1. PICK i \in 1..Len(k) : k[i] = s[j]
      BY Zenon, <2>2 DEF KeptOf
    <3>2. i \in 1..Len(l) /\ l[i] = s[j]
      BY <3>1, <1>1
    <3> QED BY Zenon, <3>2
  <2> QED BY <2>1, <2>2
<1>4. OneIn(l, A)
  <2> SUFFICES ASSUME NEW i \in 1..Len(l), NEW j \in 1..Len(l), l[i] \in A, l[j] \in A
               PROVE  i = j
    BY Zenon DEF OneIn
  <2>1. e \in A => \A a \in 1..Len(k) : k[a] \notin A
    <3> SUFFICES ASSUME e \in A, NEW a \in 1..Len(k), k[a] \in A PROVE FALSE
      BY Zenon
    <3>1. PICK b \in 1..n : k[a] = s[b]
      BY Zenon DEF KeptOf
    <3>2. b \in 1..Len(s) /\ n + 1 \in 1..Len(s) /\ b # n + 1
      BY <3>1
    <3> QED BY Zenon, <3>1, <3>2 DEF OneIn
  <2>2. CASE i \in 1..Len(k) /\ j \in 1..Len(k)
    BY Zenon, <2>2, <1>1 DEF OneIn
  <2>3. CASE i \in 1..Len(k) /\ j = Len(k) + 1
    BY Zenon, <2>3, <2>1, <1>1
  <2>4. CASE j \in 1..Len(k) /\ i = Len(k) + 1
    BY Zenon, <2>4, <2>1, <1>1
  <2> QED BY <2>2, <2>3, <2>4, <1>1
<1>5. KeptOf(l, s, S, n + 1)
  BY Zenon, <1>2, <1>3 DEF KeptOf
<1> QED BY Zenon, <1>1, <1>4, <1>5 DEF l

\* The elements kept are the elements of s in S.  When at most one element of s
\* is in A, then at most one that is kept is.
LEMMA KeepIs ==
    ASSUME NEW X, NEW s \in Seq(X), NEW S, NEW A, OneIn(s, A)
    PROVE  Keep(s, S) \in Seq(X) /\ KeptOf(Keep(s, S), s, S, Len(s)) /\ OneIn(Keep(s, S), A)
<1> DEFINE K == CHOOSE K : Keeping(K, s, S, Len(s))
           Kept(n) == K[n] \in Seq(X) /\ KeptOf(K[n], s, S, n) /\ OneIn(K[n], A)
           T == {n \in 0..Len(s) : Kept(n)}
<1>1. Keep(s, S) = K[Len(s)]
  BY Zenon DEF Keep, Keeping
<1>2. Keeping(K, s, S, Len(s))
  BY KeepingExists, Len(s) \in Nat
<1> HIDE DEF K
<1>7. \A i \in 0..Len(s) : K[i] = IF i = 0 THEN <<>>
                                 ELSE IF s[i] \in S THEN Append(K[i - 1], s[i])
                                 ELSE K[i - 1]
  BY Zenon, <1>2 DEF Keeping
<1>3. 0 \in T
  <2>0. 0 \in 0..Len(s) /\ Len(s) \in Nat
    OBVIOUS
  <2>1. K[0] = <<>>
    BY Zenon, <1>7, <2>0
  <2>2. <<>> \in Seq(X) /\ KeptOf(<<>>, s, S, 0) /\ OneIn(<<>>, A)
    BY DEF KeptOf, OneIn
  <2>3. Kept(0)
    BY Zenon, <2>1, <2>2
  <2> QED BY Zenon, <2>0, <2>3
<1>4. ASSUME NEW n \in Nat, n < Len(s), n \in T
      PROVE  n + 1 \in T
  <2>1. n + 1 \in 1..Len(s) /\ n + 1 \in 0..Len(s) /\ n + 1 # 0 /\ (n + 1) - 1 = n
    BY <1>4
  <2>2. Kept(n)
    BY Zenon, <1>4
  <2>3. K[n + 1] = IF s[n + 1] \in S THEN Append(K[n], s[n + 1]) ELSE K[n]
    <3>1. K[n + 1] = IF s[n + 1] \in S THEN Append(K[(n + 1) - 1], s[n + 1]) ELSE K[(n + 1) - 1]
      BY Zenon, <1>7, <2>1
    <3>2. K[(n + 1) - 1] = K[n]
      BY Zenon, <2>1
    <3> QED BY Zenon, <3>1, <3>2
  <2>4. CASE s[n + 1] \notin S
    <3>1. KeptOf(K[n], s, S, n + 1)
      BY <2>1, <2>2, <2>4 DEF KeptOf
    <3> QED BY Zenon, <2>1, <2>2, <2>3, <2>4, <3>1
  <2>5. CASE s[n + 1] \in S
    <3>1. K[n + 1] = Append(K[n], s[n + 1])
      BY Zenon, <2>3, <2>5
    <3>3. n < Len(s) /\ K[n] \in Seq(X) /\ KeptOf(K[n], s, S, n) /\ OneIn(K[n], A)
      BY Zenon, <2>2, <1>4
    <3>4. /\ Append(K[n], s[n + 1]) \in Seq(X)
          /\ KeptOf(Append(K[n], s[n + 1]), s, S, n + 1)
          /\ OneIn(Append(K[n], s[n + 1]), A)
      BY Zenon, <2>5, <3>3, KeptAppend
    <3>2. Kept(n + 1)
      BY Zenon, <3>1, <3>4
    <3> QED BY Zenon, <2>1, <3>2
  <2> QED BY Zenon, <2>4, <2>5
<1>5. 0..Len(s) \subseteq T
  <2> HIDE DEF T
  <2> QED BY <1>3, <1>4, UpTo, Len(s) \in Nat
<1>6. Kept(Len(s))
  <2>1. Len(s) \in 0..Len(s)
    OBVIOUS
  <2> QED BY Zenon, <1>5, <2>1
<1> QED BY Zenon, <1>1, <1>6

-----------------------------------------------------------------------------
(* The tables of rules: the inductive invariant.                           *)

Sources == {"file", "string", "set", "list", "hash", "http"}
TableType == [head : Seq(RuleKinds), at : {"own", "array"}, n : Nat, own : Seq(RuleKinds)]
LoadType == [at : {"start", "read", "install", "stopped"}, left : Seq(Sources),
             got : Seq(RuleKinds), failed : BOOLEAN, nilmap : BOOLEAN]
LookType == [at : {"idle", "once", "twice", "wild", "walk", "end"}, t : TableType, i : Nat,
             covered : BOOLEAN, torn : BOOLEAN, overrun : BOOLEAN, found : BOOLEAN]

RulesTyped ==
    /\ rt \in TableConfs
    /\ src \in [Ran(rt.sources) -> [holds : rt.holds, up : BOOLEAN]]
    /\ table \in TableType /\ load \in LoadType /\ look \in LookType
    /\ Ran(load.left) \subseteq Ran(rt.sources)
    /\ life \in {"open", "closed", "crashed"}

\* A table whose rules are in the array has them all there.
InArray(t) == t.at = "array" => t.n <= Len(array)

ArrayOK ==
    /\ array \in Seq(RuleKinds) /\ Len(array) \in {0, rt.spare}
    /\ InArray(table) /\ InArray(look.t)
    /\ load.at = "install" /\ Room => Len(array) = rt.spare

\* The lookups of a kind, and what they rest on.
LookOK ==
    /\ look.at \in {"once", "twice", "walk"} => look.at = Finding
    /\ look.at = "wild" => Finding = "twice"
    /\ look.at \in {"once", "twice", "wild"} /\ look.covered => Match(Items(table))
    /\ look.at = "wild" /\ ~look.torn => "exact" \notin Ran(Items(table))
    /\ look.at = "walk" /\ look.covered /\ ~look.overrun => Match(Items(look.t))
    /\ look.at = "walk" /\ ~look.overrun =>
         \A i \in 1..Len(Items(look.t)) : i <= look.i => Items(look.t)[i] \notin {"exact", "wild"}

RulesInv == RulesTyped /\ ArrayOK /\ LookOK /\ CoveredIsFound

\* Kinds of tables: the locked ones share no array, and those looked into twice
\* are replaced by every reload.
LEMMA KindsOfTables ==
    ASSUME RulesTyped
    PROVE  /\ Finding \in {"once", "twice", "walk"}
           /\ Finding # "walk" => ~Table.shares
           /\ Finding = "twice" => Loading.failing # "keeps" /\ Table.empty
           /\ Table.shares \in BOOLEAN /\ Table.empty \in BOOLEAN
<1>1. rt.kind \in TableKinds
  BY Zenon, TablesAssumption DEF RulesTyped
<1> QED BY Zenon, <1>1 DEF TableKinds, Finding, Table, Loading,
      BypassTable, AdmissionTable, HostsTable, IngressTable, RouterTable, AutherTable,
      RateTable, ConnTable, HopTable, BypassLoad, AdmissionLoad, HostsLoad, IngressLoad,
      RouterLoad, AutherLoad, RateLoad, ConnLoad, HopLoad, BypassFind, AdmissionFind,
      HostsFind, IngressFind, RouterFind, AutherFind, RateFind, ConnFind, HopFind

\* The rules of a table are a list of rules.
LEMMA ItemsIs ==
    ASSUME NEW t \in TableType, array \in Seq(RuleKinds), InArray(t)
    PROVE  Items(t) \in Seq(RuleKinds)
<1>1. CASE t.at = "array"
  <2>1. t.n \in Nat /\ t.n <= Len(array) /\ t.head \in Seq(RuleKinds)
    BY Zenon, <1>1 DEF InArray, TableType
  <2>2. SubSeq(array, 1, t.n) \in Seq(RuleKinds)
    BY <2>1, SubSeqProperties
  <2> QED BY <1>1, <2>1, <2>2 DEF Items
<1>2. CASE t.at # "array"
  BY <1>2 DEF Items, TableType
<1> QED BY Zenon, <1>1, <1>2

\* What a source holds is read with or without what is no rule.
LEMMA WithoutIs ==
    ASSUME NEW s \in Seq(RuleKinds), NEW x
    PROVE  Without(s, x) \in Seq(RuleKinds)
<1>1. OneIn(s, {})
  BY Zenon DEF OneIn
<1> QED BY Zenon, <1>1, KeepIs DEF Without

\* The constants of the table and its empty parts.
LEMMA EmptyParts ==
    /\ NoTable \in TableType /\ NoLoad \in LoadType /\ NoLook \in LookType
    /\ InArray(NoTable)
<1>1. NoTable \in TableType
  BY DEF NoTable, TableType
<1>2. NoLoad \in LoadType
  BY DEF NoLoad, LoadType
<1>3. NoLook \in LookType
  BY Zenon, <1>1 DEF NoLook, LookType
<1>4. InArray(NoTable)
  BY Zenon DEF InArray, NoTable
<1> QED BY Zenon, <1>1, <1>2, <1>3, <1>4

LEMMA RulesConf ==
    ASSUME rt \in TableConfs
    PROVE  /\ rt.sources \in Seq(Sources) /\ rt.inline \in Seq(RuleKinds)
           /\ rt.holds \subseteq Seq(RuleKinds) /\ rt.spare \in Nat
  BY Zenon, TablesAssumption DEF Sources

\* The first state.
LEMMA RulesStart ==
    ASSUME RulesInit(TableConfs)
    PROVE  RulesInv
<1>1. rt \in TableConfs /\ rt.inline \in Seq(RuleKinds) /\ rt.spare \in Nat
  BY Zenon, RulesConf DEF RulesInit
<1>2. table \in TableType /\ InArray(table)
  <2> DEFINE t == [head |-> rt.inline, at |-> "own", n |-> 0, own |-> <<>>]
  <2>1. t \in TableType /\ InArray(t)
    BY <1>1 DEF TableType, InArray
  <2>2. [NoTable EXCEPT !.head = rt.inline] = t
    BY DEF NoTable
  <2> QED BY Zenon, <2>1, <2>2, EmptyParts DEF RulesInit
<1>3. /\ look = NoLook /\ load = NoLoad /\ array = <<>> /\ life = "open"
      /\ src \in [Ran(rt.sources) -> [holds : rt.holds, up : BOOLEAN]]
  BY Zenon DEF RulesInit
<1>4. look.at = "idle" /\ look.t = NoTable /\ load.left = <<>> /\ load.at = "start"
  BY Zenon, <1>3 DEF NoLook, NoLoad
<1>5. RulesTyped
  <2>1. Ran(load.left) = {}
    BY <1>4 DEF Ran
  <2> QED BY Zenon, <1>1, <1>2, <1>3, <2>1, EmptyParts DEF RulesTyped
<1>6. ArrayOK
  <2>1. array \in Seq(RuleKinds) /\ Len(array) = 0
    BY <1>3
  <2> QED BY Zenon, <1>2, <1>4, <2>1, EmptyParts DEF ArrayOK
<1> QED BY Zenon, <1>4, <1>5, <1>6 DEF RulesInv, LookOK, CoveredIsFound

-----------------------------------------------------------------------------
(* The steps of a reload.                                                  *)

\* A step that changes neither the table, the array nor the lookup keeps what
\* the lookup rests on.
LEMMA LookKeeps ==
    ASSUME RulesInv, UNCHANGED <<rt, table, array, look>>
    PROVE  LookOK' /\ CoveredIsFound'
<1>1. Items(table)' = Items(table) /\ Items(look.t)' = Items(look.t) /\ Finding' = Finding
  BY Zenon DEF Items, Finding
<1> QED BY Zenon, <1>1 DEF RulesInv, LookOK, CoveredIsFound, Match, Ran

LEMMA StartLoadKeeps ==
    ASSUME RulesInv, StartLoad
    PROVE  RulesInv'
<1>1. load' = [NoLoad EXCEPT !.at = "read", !.left = rt.sources]
      /\ UNCHANGED <<rt, src, table, array, look, life>>
  BY Zenon DEF StartLoad
<1>2. load' \in LoadType /\ load'.at = "read" /\ load'.left = rt.sources
  <2>1. load' = [at |-> "read", left |-> rt.sources, got |-> <<>>, failed |-> FALSE,
                 nilmap |-> FALSE]
    BY Zenon, <1>1 DEF NoLoad
  <2>2. rt.sources \in Seq(Sources)
    BY Zenon, RulesConf DEF RulesInv, RulesTyped
  <2> QED BY <2>1, <2>2 DEF LoadType
<1>3. RulesTyped'
  BY Zenon, <1>1, <1>2 DEF RulesInv, RulesTyped, Ran
<1>4. ArrayOK'
  BY Zenon, <1>1, <1>2 DEF RulesInv, ArrayOK, InArray
<1> QED BY Zenon, <1>1, <1>3, <1>4, LookKeeps DEF RulesInv

LEMMA ReadSourceKeeps ==
    ASSUME RulesInv, ReadSource
    PROVE  RulesInv'
<1> DEFINE s == Head(load.left)
           fails == ~src[s].up \/ (life = "closed" /\ Source(s).cancels)
           lines == IF fails THEN <<>> ELSE src[s].holds
           rules == IF Source(s).lists /\ Loading.blank = "nil" THEN lines
                    ELSE Without(lines, "blank")
<1>1. /\ load' = [load EXCEPT !.left = Tail(@), !.got = @ \o rules,
                              !.failed = @ \/ fails,
                              !.nilmap = @ \/ (rt.kind = "auther" /\ s = "file" /\ fails)]
      /\ UNCHANGED <<rt, src, table, array, look>>
      /\ load.at = "read" /\ load.left # <<>>
      /\ life' \in {life, "crashed"}
  BY Zenon DEF ReadSource
<1>2. s \in Ran(load.left) /\ s \in Ran(rt.sources)
  <2>1. load.left \in Seq(Sources) /\ load.left # <<>>
    BY Zenon, <1>1 DEF RulesInv, RulesTyped, LoadType
  <2>2. s \in Ran(load.left)
    BY <2>1 DEF Ran
  <2> QED BY Zenon, <2>2 DEF RulesInv, RulesTyped
<1>3. src[s].holds \in Seq(RuleKinds)
  BY Zenon, <1>2, RulesConf DEF RulesInv, RulesTyped
<1>4. lines \in Seq(RuleKinds)
  BY <1>3
<1>5. rules \in Seq(RuleKinds)
  BY Zenon, <1>4, WithoutIs
<1>6. /\ Tail(load.left) \in Seq(Sources) /\ Ran(Tail(load.left)) \subseteq Ran(load.left)
  <2>1. load.left \in Seq(Sources) /\ load.left # <<>>
    BY Zenon, <1>1 DEF RulesInv, RulesTyped, LoadType
  <2> QED BY <2>1 DEF Ran
<1>7. fails \in BOOLEAN
  BY Zenon
<1> HIDE DEF rules, fails, s
<1>8. load' \in LoadType /\ load'.left = Tail(load.left) /\ load'.at = "read"
  <2> DEFINE nil == load.nilmap \/ (rt.kind = "auther" /\ s = "file" /\ fails)
  <2>1. load \in LoadType
    BY Zenon DEF RulesInv, RulesTyped
  <2>2. load' = [at |-> load.at, left |-> Tail(load.left), got |-> load.got \o rules,
                 failed |-> load.failed \/ fails, nilmap |-> nil]
    BY Zenon, <1>1, <2>1 DEF LoadType
  <2>3. load.got \o rules \in Seq(RuleKinds) /\ nil \in BOOLEAN
    BY <1>5, <2>1 DEF LoadType
  <2> HIDE DEF nil
  <2> QED BY Zenon, <1>1, <1>6, <1>7, <2>1, <2>2, <2>3 DEF LoadType
<1>9. RulesTyped'
  <2>1. life' \in {"open", "closed", "crashed"}
    BY <1>1 DEF RulesInv, RulesTyped
  <2>2. Ran(load.left)' \subseteq Ran(rt.sources)
    BY Zenon, <1>6, <1>8 DEF RulesInv, RulesTyped, Ran
  <2>3. Ran(rt.sources)' = Ran(rt.sources)
    BY Zenon, <1>1 DEF Ran
  <2> QED BY Zenon, <1>1, <1>8, <2>1, <2>2, <2>3 DEF RulesInv, RulesTyped
<1>10. ArrayOK'
  BY Zenon, <1>1, <1>8 DEF RulesInv, ArrayOK, InArray
<1> QED BY Zenon, <1>1, <1>9, <1>10, LookKeeps DEF RulesInv

LEMMA GatherKeeps ==
    ASSUME RulesInv, Gather
    PROVE  RulesInv'
<1>0. UNCHANGED <<rt, src, table>>
  BY Zenon DEF Gather
<1>1. CASE life' = "crashed" /\ UNCHANGED <<load, array, look>>
  <2>1. RulesTyped'
    BY Zenon, <1>0, <1>1 DEF RulesInv, RulesTyped, Ran
  <2>2. ArrayOK'
    BY Zenon, <1>0, <1>1 DEF RulesInv, ArrayOK, InArray, Room, Table
  <2> QED BY Zenon, <1>0, <1>1, <2>1, <2>2, LookKeeps DEF RulesInv
<1>2. CASE /\ load' = [load EXCEPT !.at = "install"]
           /\ array' = IF Room
                       THEN [i \in 1..rt.spare |-> IF i <= Len(load.got) THEN load.got[i]
                                                   ELSE IF i <= Len(array) THEN array[i]
                                                   ELSE "other"]
                       ELSE array
           /\ look' = IF array' # array THEN [look EXCEPT !.overrun = TRUE] ELSE look
           /\ UNCHANGED life
  <2>1. load \in LoadType /\ look \in LookType /\ array \in Seq(RuleKinds) /\ rt.spare \in Nat
        /\ Len(array) \in {0, rt.spare}
    BY Zenon, RulesConf DEF RulesInv, RulesTyped, ArrayOK
  <2>2. load' \in LoadType /\ load'.got = load.got /\ load'.left = load.left /\ load'.at = "install"
    BY Zenon, <1>2, <2>1 DEF LoadType
  <2>3. /\ array' \in Seq(RuleKinds) /\ Len(array') \in {0, rt.spare} /\ Len(array) <= Len(array')
        /\ Room => Len(array') = rt.spare
    <3>1. CASE Room
      <4>1. \A i \in 1..rt.spare : array'[i] \in RuleKinds
        BY <1>2, <2>1, <3>1 DEF LoadType, RuleKinds
      <4>2. array' \in [1..rt.spare -> RuleKinds]
        BY Zenon, <1>2, <3>1, <4>1
      <4> QED BY <4>2, <2>1
    <3>2. CASE ~Room
      BY <1>2, <2>1, <3>2
    <3> QED BY Zenon, <3>1, <3>2
  <2>4. /\ look' \in LookType /\ look'.t = look.t /\ look'.at = look.at /\ look'.i = look.i
        /\ look'.covered = look.covered /\ look'.torn = look.torn /\ look'.found = look.found
        /\ array' # array => look'.overrun
        /\ array' = array => look' = look
    BY Zenon, <1>2, <2>1 DEF LookType
  <2>5. RulesTyped'
    <3>1. life' = life /\ Ran(load.left)' = Ran(load.left) /\ Ran(rt.sources)' = Ran(rt.sources)
      BY Zenon, <1>0, <1>2, <2>2 DEF Ran
    <3> QED BY Zenon, <1>0, <2>2, <2>4, <3>1 DEF RulesInv, RulesTyped
  <2>6. ArrayOK'
    <3>1. InArray(table)' /\ InArray(look.t)'
      <4>1. table.n \in Nat /\ look.t.n \in Nat
        BY Zenon, <2>1 DEF RulesInv, RulesTyped, LookType, TableType
      <4> QED BY <4>1, <1>0, <2>1, <2>3, <2>4 DEF RulesInv, ArrayOK, InArray
    <3>2. Room' => Room
      BY Zenon, <1>0, <2>2 DEF Room, Table
    <3> QED BY Zenon, <1>0, <2>3, <3>1, <3>2 DEF ArrayOK
  <2>7. CASE array' = array
    BY Zenon, <2>7, <1>0, <2>4, <2>5, <2>6, LookKeeps DEF RulesInv
  <2>8. CASE array' # array
    <3>1. Finding' = "walk" /\ Finding = "walk"
      BY Zenon, <2>8, <1>0, <1>2, KindsOfTables DEF RulesInv, Room, Finding
    <3>2. LookOK'
      BY Zenon, <2>8, <2>4, <3>1 DEF RulesInv, LookOK
    <3>3. CoveredIsFound'
      BY Zenon, <2>8, <2>4, <3>1 DEF CoveredIsFound
    <3> QED BY Zenon, <2>5, <2>6, <3>2, <3>3 DEF RulesInv
  <2> QED BY Zenon, <2>7, <2>8
<1> QED BY Zenon, <1>1, <1>2 DEF Gather

LEMMA InstallKeeps ==
    ASSUME RulesInv, Install
    PROVE  RulesInv'
<1> DEFINE keeps == \/ load.failed /\ Loading.failing = "keeps"
                    \/ ~Table.empty /\ rt.inline \o load.got = <<>>
           new == [head |-> rt.inline,
                   at |-> IF Room THEN "array" ELSE "own",
                   n |-> Len(load.got), own |-> load.got]
<1>1. /\ table' = IF keeps THEN table
                  ELSE IF new.at = "array" THEN [new EXCEPT !.own = <<>>] ELSE new
      /\ look' = [look EXCEPT !.covered = @ /\ Match(Items(table')), !.torn = ~keeps]
      /\ load' = [NoLoad EXCEPT !.at = AfterLoad]
      /\ load.at = "install"
      /\ UNCHANGED <<rt, src, array, life>>
  BY Zenon DEF Install
<1>2. load \in LoadType /\ look \in LookType /\ rt.inline \in Seq(RuleKinds)
      /\ array \in Seq(RuleKinds) /\ table \in TableType
  BY Zenon, RulesConf DEF RulesInv, RulesTyped, ArrayOK
<1>3. table' \in TableType /\ InArray(table')
  <2>1. CASE keeps
    BY Zenon, <1>1, <1>2, <2>1 DEF RulesInv, ArrayOK
  <2>2. CASE ~keeps /\ Room
    <3>1. table' = [head |-> rt.inline, at |-> "array", n |-> Len(load.got), own |-> <<>>]
      BY Zenon, <1>1, <2>2
    <3>2. Len(load.got) \in Nat /\ Len(load.got) <= Len(array)
      BY <1>1, <1>2, <2>2 DEF RulesInv, ArrayOK, Room, LoadType
    <3> QED BY <3>1, <3>2, <1>2 DEF TableType, InArray
  <2>3. CASE ~keeps /\ ~Room
    <3>1. table' = [head |-> rt.inline, at |-> "own", n |-> Len(load.got), own |-> load.got]
      BY Zenon, <1>1, <2>3
    <3>2. Len(load.got) \in Nat /\ load.got \in Seq(RuleKinds)
      BY <1>2 DEF LoadType
    <3> QED BY Zenon, <3>1, <3>2, <1>2 DEF TableType, InArray
  <2> QED BY Zenon, <2>1, <2>2, <2>3
<1>4. Finding = "twice" => ~keeps
  BY Zenon, KindsOfTables DEF RulesInv
<1>5. Match(Items(table')) \in BOOLEAN /\ keeps \in BOOLEAN
  BY Zenon DEF Match
<1> HIDE DEF keeps, new
<1>6. /\ look' \in LookType /\ look'.t = look.t /\ look'.at = look.at /\ look'.i = look.i
      /\ look'.covered = (look.covered /\ Match(Items(table'))) /\ look'.torn = ~keeps
      /\ look'.found = look.found /\ look'.overrun = look.overrun
  BY Zenon, <1>1, <1>2, <1>5 DEF LookType
<1>7. load' \in LoadType /\ load'.left = <<>> /\ load'.at # "install"
  <2>1. AfterLoad \in {"start", "stopped"}
    BY Zenon DEF AfterLoad
  <2>2. load' = [at |-> AfterLoad, left |-> <<>>, got |-> <<>>, failed |-> FALSE,
                 nilmap |-> FALSE]
    BY Zenon, <1>1 DEF NoLoad
  <2> QED BY <2>1, <2>2 DEF LoadType
<1>8. RulesTyped'
  <2>1. Ran(load.left)' = {}
    BY <1>7 DEF Ran
  <2> QED BY <1>1, <1>3, <1>6, <1>7, <2>1 DEF RulesInv, RulesTyped, Ran
<1>9. ArrayOK'
  BY Zenon, <1>1, <1>3, <1>6, <1>7 DEF RulesInv, ArrayOK, InArray
<1>10. Items(table)' = Items(table') /\ Items(look.t)' = Items(look.t) /\ Finding' = Finding
  <2>3. array' = array /\ look'.t = look.t
    BY Zenon, <1>1, <1>6
  <2>1. Items(table)' = Items(table') /\ Items(look.t)' = Items(look.t)
    BY Zenon, <2>3 DEF Items
  <2>2. Finding' = Finding
    BY Zenon, <1>1 DEF Finding
  <2> QED BY Zenon, <2>1, <2>2
<1>11. LookOK'
  <2>1. (look.at = "wild" /\ ~look.torn => "exact" \notin Ran(Items(table)))'
    BY Zenon, <1>6, <1>4 DEF RulesInv, LookOK
  <2>2. (look.at \in {"once", "twice", "wild"} /\ look.covered => Match(Items(table)))'
    BY Zenon, <1>6, <1>10 DEF Match, Ran
  <2>3. (look.at = "walk" /\ look.covered /\ ~look.overrun => Match(Items(look.t)))'
    BY Zenon, <1>6, <1>10 DEF RulesInv, LookOK, Match, Ran
  <2>4. (look.at = "walk" /\ ~look.overrun =>
           \A i \in 1..Len(Items(look.t)) : i <= look.i => Items(look.t)[i] \notin {"exact", "wild"})'
    BY Zenon, <1>6, <1>10 DEF RulesInv, LookOK
  <2> QED BY Zenon, <1>6, <1>10, <2>1, <2>2, <2>3, <2>4 DEF RulesInv, LookOK
<1>12. CoveredIsFound'
  BY Zenon, <1>4, <1>6, <1>10 DEF RulesInv, CoveredIsFound
<1> QED BY Zenon, <1>8, <1>9, <1>11, <1>12 DEF RulesInv

\* Somebody changes a source.
LEMMA ChangeSourceKeeps ==
    ASSUME RulesInv, ChangeSource
    PROVE  RulesInv'
<1>1. UNCHANGED <<rt, table, array, load, look, life>>
  BY Zenon DEF ChangeSource
<1>2. src' \in [Ran(rt.sources) -> [holds : rt.holds, up : BOOLEAN]]
  <2>1. src \in [Ran(rt.sources) -> [holds : rt.holds, up : BOOLEAN]]
    BY Zenon DEF RulesInv, RulesTyped
  <2>2. PICK s \in Ran(rt.sources) :
          \/ \E c \in rt.holds : src' = [src EXCEPT ![s].holds = c]
          \/ src' = [src EXCEPT ![s].up = ~@]
    BY Zenon DEF ChangeSource
  <2>3. \A c \in rt.holds : [src[s] EXCEPT !.holds = c] \in [holds : rt.holds, up : BOOLEAN]
    BY Zenon, <2>1
  <2>4. [src[s] EXCEPT !.up = ~@] \in [holds : rt.holds, up : BOOLEAN]
    BY Zenon, <2>1
  <2> QED BY Zenon, <2>1, <2>2, <2>3, <2>4
<1>3. RulesTyped'
  BY Zenon, <1>1, <1>2 DEF RulesInv, RulesTyped, Ran
<1>4. ArrayOK'
  BY Zenon, <1>1 DEF RulesInv, ArrayOK, InArray, Room, Table
<1> QED BY Zenon, <1>1, <1>3, <1>4, LookKeeps DEF RulesInv

\* The table is closed.
LEMMA CloseTableKeeps ==
    ASSUME RulesInv, CloseTable
    PROVE  RulesInv'
<1>1. UNCHANGED <<rt, src, table, array, load, look>> /\ life' = "closed"
  BY Zenon DEF CloseTable
<1>3. RulesTyped'
  <2>1. life' \in {"open", "closed", "crashed"}
    BY Zenon, <1>1
  <2> QED BY Zenon, <1>1, <2>1 DEF RulesInv, RulesTyped, Ran
<1>4. ArrayOK'
  BY Zenon, <1>1 DEF RulesInv, ArrayOK, InArray, Room, Table
<1> QED BY Zenon, <1>1, <1>3, <1>4, LookKeeps DEF RulesInv

-----------------------------------------------------------------------------
(* The steps of a lookup.                                                  *)

\* A step of the lookup leaves the types and the array alone.
LEMMA LookTyped ==
    ASSUME RulesInv, UNCHANGED <<rt, src, table, array, load>>, look' \in LookType,
           look'.t \in {look.t, table, NoTable}, life' \in {life, "crashed"}
    PROVE  RulesTyped' /\ ArrayOK'
<1>1. life' \in {"open", "closed", "crashed"}
  BY Zenon DEF RulesInv, RulesTyped
<1>2. RulesTyped'
  BY Zenon, <1>1 DEF RulesInv, RulesTyped, Ran
<1>3. Room' = Room
  BY Zenon DEF Room, Table
<1>4. InArray(look.t)'
  <2>1. \A t : InArray(t) => (t.at = "array" => t.n <= Len(array'))
    BY Zenon DEF InArray
  <2> QED BY Zenon, <2>1, EmptyParts DEF RulesInv, ArrayOK, InArray
<1>5. ArrayOK'
  BY Zenon, <1>3, <1>4 DEF RulesInv, ArrayOK, InArray
<1> QED BY Zenon, <1>2, <1>5

\* A lookup ends with an answer that is right.
LEMMA EndsKeeps ==
    ASSUME RulesInv, UNCHANGED <<rt, src, table, array, load, life>>, NEW f \in BOOLEAN, Ends(f),
           \/ f \/ ~look.covered
           \/ Finding = "twice" /\ look.torn
           \/ Finding = "walk" /\ look.overrun
    PROVE  RulesInv'
<1>1. /\ look' \in LookType /\ look'.at = "end" /\ look'.t = look.t
      /\ look'.found = f /\ look'.covered = look.covered /\ look'.torn = look.torn
      /\ look'.overrun = look.overrun
  BY Zenon DEF RulesInv, RulesTyped, LookType, Ends
<1>2. RulesTyped' /\ ArrayOK'
  BY Zenon, <1>1, LookTyped
<1>3. LookOK'
  BY Zenon, <1>1 DEF LookOK
<1>4. Finding' = Finding
  BY Zenon DEF Finding
<1>5. CoveredIsFound'
  BY Zenon, <1>1, <1>4 DEF CoveredIsFound
<1> QED BY Zenon, <1>2, <1>3, <1>5 DEF RulesInv

LEMMA StartLookKeeps ==
    ASSUME RulesInv, StartLook
    PROVE  RulesInv'
<1>1. /\ look' = [NoLook EXCEPT !.at = Finding, !.t = table, !.covered = Match(Items(table)),
                                !.overrun = load.at = "install" /\ Room]
      /\ UNCHANGED <<rt, src, table, array, load, life, changes>>
  BY Zenon DEF StartLook
<1> DEFINE over == load.at = "install" /\ Room
<1>2. Finding \in {"once", "twice", "walk"} /\ Match(Items(table)) \in BOOLEAN /\ over \in BOOLEAN
  BY Zenon, KindsOfTables DEF RulesInv, Match
<1> HIDE DEF over
<1>3. look' = [at |-> Finding, t |-> table, i |-> 0, covered |-> Match(Items(table)),
               torn |-> FALSE, overrun |-> over, found |-> FALSE]
  BY Zenon, <1>1 DEF NoLook, over
<1>4. look' \in LookType /\ look'.t = table
  BY Zenon, <1>2, <1>3 DEF LookType, RulesInv, RulesTyped
<1>5. RulesTyped' /\ ArrayOK'
  BY Zenon, <1>1, <1>4, LookTyped
<1>6. Finding' = Finding
  BY Zenon, <1>1 DEF Finding
<1>7. Items(table)' = Items(table) /\ Items(look.t)' = Items(table)
  <2>1. array' = array /\ table' = table /\ look'.t = table
    BY Zenon, <1>1, <1>4
  <2> QED BY Zenon, <2>1 DEF Items
<1>8. /\ look'.at = Finding /\ look'.i = 0 /\ look'.covered = Match(Items(table))
  BY Zenon, <1>3
<1>9. LookOK'
  <2> DEFINE items == Items(table)
  <2>1. /\ Match(Items(table))' = Match(items) /\ Match(Items(look.t))' = Match(items)
        /\ Items(look.t)' = items
    BY Zenon, <1>7 DEF Match, Ran
  <2>2. \A i \in 1..Len(items) : ~ (i <= 0)
    OBVIOUS
  <2> HIDE DEF items
  <2> QED BY Zenon, <1>2, <1>6, <1>8, <2>1, <2>2 DEF LookOK, items
<1>10. CoveredIsFound'
  BY Zenon, <1>2, <1>8 DEF CoveredIsFound
<1> QED BY Zenon, <1>5, <1>9, <1>10 DEF RulesInv

LEMMA FindOnceKeeps ==
    ASSUME RulesInv, FindOnce
    PROVE  RulesInv'
<1>1. look.at = "once" /\ Ends(Match(Items(table))) /\ UNCHANGED <<rt, src, table, array, load, life>>
  BY Zenon DEF FindOnce
<1>2. Match(Items(table)) \in BOOLEAN /\ (look.covered => Match(Items(table)))
  BY Zenon, <1>1 DEF RulesInv, LookOK, Match
<1> QED BY Zenon, <1>1, <1>2, EndsKeeps

LEMMA FindExactKeeps ==
    ASSUME RulesInv, FindExact
    PROVE  RulesInv'
<1>1. look.at = "twice" /\ UNCHANGED <<rt, src, table, array, load, life>>
  BY Zenon DEF FindExact
<1>2. CASE Ends(TRUE)
  BY Zenon, <1>1, <1>2, EndsKeeps
<1>3. CASE "exact" \notin Ran(Items(table)) /\ look' = [look EXCEPT !.at = "wild", !.torn = FALSE]
  <2>1. /\ look' \in LookType /\ look'.at = "wild" /\ look'.t = look.t
        /\ look'.covered = look.covered
    BY Zenon, <1>3 DEF RulesInv, RulesTyped, LookType
  <2>2. RulesTyped' /\ ArrayOK'
    BY Zenon, <1>1, <2>1, LookTyped
  <2>3. Finding' = Finding
    BY Zenon, <1>1 DEF Finding
  <2>4. Items(table)' = Items(table)
    BY Zenon, <1>1 DEF Items
  <2>5. LookOK'
    BY Zenon, <1>1, <1>3, <2>1, <2>3, <2>4 DEF RulesInv, LookOK, Match, Ran
  <2>6. CoveredIsFound'
    BY Zenon, <2>1 DEF CoveredIsFound
  <2> QED BY Zenon, <2>2, <2>5, <2>6 DEF RulesInv
<1> QED BY Zenon, <1>2, <1>3 DEF FindExact

LEMMA FindWildKeeps ==
    ASSUME RulesInv, FindWild
    PROVE  RulesInv'
<1> DEFINE f == "wild" \in Ran(Items(table))
<1>1. look.at = "wild" /\ Ends(f) /\ UNCHANGED <<rt, src, table, array, load, life>>
  BY Zenon DEF FindWild
<1>2. Finding = "twice" /\ (look.covered /\ ~look.torn => f)
  BY Zenon, <1>1 DEF RulesInv, LookOK, Match
<1>3. f \in BOOLEAN
  OBVIOUS
<1> HIDE DEF f
<1> QED BY Zenon, <1>1, <1>2, <1>3, EndsKeeps

LEMMA WalkKeeps ==
    ASSUME RulesInv, Walk
    PROVE  RulesInv'
<1> DEFINE items == Items(look.t)
           i == look.i + 1
<1>1. look.at = "walk" /\ UNCHANGED <<rt, src, table, array, load>>
  BY Zenon DEF Walk
<1>2. look \in LookType /\ look.i \in Nat /\ look.t \in TableType /\ Finding = "walk"
  BY Zenon, <1>1 DEF RulesInv, RulesTyped, LookOK, LookType
<1>3. items \in Seq(RuleKinds)
  BY Zenon, <1>2, ItemsIs DEF RulesInv, ArrayOK
<1>4. /\ look.covered /\ ~look.overrun => Match(items)
      /\ ~look.overrun => \A j \in 1..Len(items) : j <= look.i => items[j] \notin {"exact", "wild"}
  BY Zenon, <1>1 DEF RulesInv, LookOK
<1>5. \/ i > Len(items) /\ Ends(FALSE) /\ UNCHANGED life
      \/ Ends(TRUE) /\ UNCHANGED life
      \/ life' = "crashed" /\ UNCHANGED look
      \/ /\ i <= Len(items) /\ items[i] \notin {"exact", "wild"}
         /\ look' = [look EXCEPT !.i = i] /\ UNCHANGED life
  <2>1. i \in Nat /\ Len(items) \in Nat /\ (i > Len(items) <=> ~ (i <= Len(items)))
    BY <1>2, <1>3
  <2> QED BY Zenon, <2>1 DEF Walk
<1> HIDE DEF items
<1>6. CASE i > Len(items) /\ Ends(FALSE) /\ UNCHANGED life
  <2>1. ~ look.overrun => ~ Match(items)
    BY <1>2, <1>3, <1>4, <1>6 DEF Match, Ran
  <2> QED BY Zenon, <1>1, <1>2, <1>4, <1>6, <2>1, EndsKeeps
<1>7. CASE Ends(TRUE) /\ UNCHANGED life
  BY Zenon, <1>1, <1>7, EndsKeeps
<1>8. CASE life' = "crashed" /\ UNCHANGED look
  <2>1. RulesTyped' /\ ArrayOK'
    BY Zenon, <1>1, <1>2, <1>8, LookTyped
  <2> QED BY Zenon, <1>1, <1>8, <2>1, LookKeeps DEF RulesInv
<1>9. CASE /\ i <= Len(items) /\ items[i] \notin {"exact", "wild"}
           /\ look' = [look EXCEPT !.i = i] /\ UNCHANGED life
  <2>1. /\ look' \in LookType /\ look'.at = "walk" /\ look'.t = look.t /\ look'.i = i
        /\ look'.covered = look.covered /\ look'.overrun = look.overrun
    BY <1>1, <1>2, <1>9 DEF LookType
  <2>2. RulesTyped' /\ ArrayOK'
    BY Zenon, <1>1, <1>9, <2>1, LookTyped
  <2>3. Finding' = Finding
    BY Zenon, <1>1 DEF Finding
  <2>4. Items(look.t)' = items
    BY Zenon, <1>1, <2>1 DEF Items, items
  <2>5. ~look.overrun => \A j \in 1..Len(items) : j <= i => items[j] \notin {"exact", "wild"}
    BY <1>2, <1>3, <1>4, <1>9
  <2>6. LookOK'
    BY Zenon, <1>2, <1>4, <2>1, <2>3, <2>4, <2>5 DEF LookOK, Match, Ran
  <2>7. CoveredIsFound'
    BY Zenon, <2>1 DEF CoveredIsFound
  <2> QED BY Zenon, <2>2, <2>6, <2>7 DEF RulesInv
<1> QED BY Zenon, <1>5, <1>6, <1>7, <1>8, <1>9

LEMMA EndLookKeeps ==
    ASSUME RulesInv, EndLook
    PROVE  RulesInv'
<1>1. look' = NoLook /\ UNCHANGED <<rt, src, table, array, load, life>>
  BY Zenon DEF EndLook
<1>2. look' \in LookType /\ look'.t = NoTable /\ look'.at = "idle"
  BY Zenon, <1>1, EmptyParts DEF NoLook
<1>3. RulesTyped' /\ ArrayOK'
  BY Zenon, <1>1, <1>2, LookTyped
<1> QED BY Zenon, <1>2, <1>3 DEF RulesInv, LookOK, CoveredIsFound

-----------------------------------------------------------------------------
\* For any kind of table, any sources, any rules inline and loaded, any room in
\* the array and any number of changes and reloads: a lookup whose name every
\* table in force covers finds a rule, apart from the two exceptions.
THEOREM CoveredNamesAreFound ==
    RulesInit(TableConfs) /\ [][RulesNext]_rvars => []CoveredIsFound
<1>1. RulesInv /\ [RulesNext]_rvars => RulesInv'
  <2> SUFFICES ASSUME RulesInv, [RulesNext]_rvars PROVE RulesInv'
    BY Zenon
  <2>1. CASE UNCHANGED rvars
    <3>1. RulesTyped' /\ ArrayOK'
      BY Zenon, <2>1 DEF rvars, RulesInv, RulesTyped, ArrayOK, InArray, Room, Table, Ran
    <3> QED BY Zenon, <2>1, <3>1, LookKeeps DEF RulesInv, rvars
  <2>2. CASE LoadStep
    BY Zenon, <2>2, StartLoadKeeps, ReadSourceKeeps, GatherKeeps, InstallKeeps DEF LoadStep
  <2>3. CASE LookStep
    BY Zenon, <2>3, StartLookKeeps, FindOnceKeeps, FindExactKeeps, FindWildKeeps, WalkKeeps,
       EndLookKeeps, Zenon DEF LookStep
  <2>4. CASE ChangeSource \/ CloseTable
    BY Zenon, <2>4, ChangeSourceKeeps, CloseTableKeeps
  <2> QED BY Zenon, <2>1, <2>2, <2>3, <2>4 DEF RulesNext
<1>2. RulesInv => CoveredIsFound
  BY Zenon DEF RulesInv
<1> QED BY <1>1, <1>2, RulesStart, PTL
=============================================================================
