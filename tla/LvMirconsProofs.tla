-------------------------- MODULE LvMirconsProofs --------------------------
(***************************************************************************)
(* Proofs about LvMircons, for any number of PVs, LTGs, entries and        *)
(* requests, any placement of the copies, any failures, crashes and PVs    *)
(* that go missing, and one processor or more: that the cache keeps its    *)
(* structure.  Its loops are folds; the first lemmas say what a fold is.   *)
(* Then there is a lemma for each of the cache's operations, and one for   *)
(* each action.  LvMirconsSafety goes on from here.                        *)
(***************************************************************************)
EXTENDS LvMircons, FiniteSetTheorems, SequenceTheorems, WellFoundedInduction, TLAPS

-----------------------------------------------------------------------------
(* The inductive invariant.                                                *)

\* The types, as far as a step needs them.
EntryT == [ltg : Ltg \cup {None}, iocnt : Int, state : {{}, {CHANGING}},
           pvol : PV \cup {NoPv}]
Cache ==
    [ent : [Entry -> EntryT], lru : Seq(Entry), chain : Seq(Entry), free : Int,
     changed : BOOLEAN, inflight : PV \cup {NoPv}, clean : Lv \cup {None},
     wait : Seq(Req), pvwait : [PV -> Seq(Req)], writeq : Seq(PV),
     toggle : [PV -> {0, 1}], latest : SUBSET PV, clock : Nat,
     go : SUBSET Req, done : SUBSET Req, panic : BOOLEAN]
Requests == [Req -> [at : {"idle", "held", "below"}, ltg : Ltg \cup {None}]]
Rec == [ts : Nat, ltgs : SUBSET Ltg]

\* Every entry is on the LRU list, none is on the hash chain twice and no PV is queued
\* twice.
CacheOK(k) ==
    /\ k \in Cache
    /\ ToSet(k.lru) = Entry /\ Len(k.lru) = Cardinality(Entry)
    /\ IsInjective(k.chain) /\ IsInjective(k.writeq)
    /\ k.free \in 0 .. Cardinality(Entry)
    /\ \A e \in Entry : /\ k.ent[e].iocnt \in 0 .. Cardinality(Req)
                        /\ k.ent[e].state = {CHANGING} => k.ent[e].pvol \in PV

\* The entries that have the name of an LTG, and the requests that are not idle, that
\* lv_mwcm holds and that the scheduler has.
Hashed(k) == ToSet(k.chain)
Active(q) == {r \in Req : q[r].at # "idle"}
Held(q) == {r \in Req : q[r].at = "held"}
Below(q) == {r \in Req : q[r].at = "below"}

\* The requests that entries count: H are those being looked at.
Counted(k, q, H) == ((Active(q) \ ToSet(k.wait)) \ H) \ k.done
\* Those of U that write the LTG x.
UsersOf(U, q, x) == {r \in U : q[r].ltg = x}

\* An LTG has one entry at most; ca_iocnt is the number of its requests in U, each request
\* in U has an entry, and ca_free is the number of entries without requests.
Struct(k, q, U) ==
    /\ \A e \in Hashed(k) : k.ent[e].ltg \in Ltg
    /\ \A e, d \in Hashed(k) : k.ent[e].ltg = k.ent[d].ltg => e = d
    /\ \A e \in Entry \ Hashed(k) : k.ent[e].iocnt = 0
    /\ \A e \in Hashed(k) :
          k.ent[e].iocnt = Cardinality(UsersOf(U, q, k.ent[e].ltg))
    /\ \A r \in U : \E e \in Hashed(k) : k.ent[e].ltg = q[r].ltg
    /\ k.free = Cardinality({e \in Entry : k.ent[e].iocnt = 0})

\* A request waits on one queue at most: vg_cache_wait, pv_cache_wait of one PV, the list
\* L of lv_mwc_cache_done, or H; it is held until it is let go, and only those that wait
\* for an entry are not counted.
Waits(k, q, H, L) ==
    /\ IsInjective(k.wait) /\ ToSet(k.wait) \cap H = {}
    /\ ToSet(k.wait) \cup H \cup k.done \cup k.go \subseteq Held(q)
    /\ k.go \subseteq Counted(k, q, H) /\ k.done \cap (ToSet(k.wait) \cup H) = {}
    /\ \A p \in PV : /\ IsInjective(k.pvwait[p])
                     /\ ToSet(k.pvwait[p]) \subseteq (Held(q) \cap Counted(k, q, H)) \ k.go
                     /\ ToSet(k.pvwait[p]) \cap ToSet(L) = {}
                     /\ \A o \in PV : o # p => ToSet(k.pvwait[p]) \cap ToSet(k.pvwait[o]) = {}
    /\ IsInjective(L) /\ ToSet(L) \subseteq (Held(q) \cap Counted(k, q, H)) \ k.go

\* PV p holds a copy of x.
Holds(p, x) == \E m \in Mirror : PvOf[x, m] = p
\* A request that is not idle has an LTG.
ReqOK(q) == q \in Requests /\ \A r \in Active(q) : q[r].ltg \in Ltg

\* The types of the other variables; after a crash nothing is left in memory.
StateOK ==
    /\ up \in {"up", "down", "recover"} /\ thr \in {"idle", "start"}
    /\ intr \in {"idle", "list", "wait", "start"}
    /\ list \in Seq(Req) /\ (intr = "list" <=> list # <<>>)
    /\ err \in BOOLEAN /\ disk \in [PV -> [{0, 1} -> Rec]]
    /\ stale \subseteq Copy /\ missing \subseteq PV /\ away \subseteq PV
    /\ lost = FALSE /\ torn \subseteq Ltg /\ recover \subseteq Ltg
    /\ errors \in Nat /\ crashes \in Nat
    /\ up # "up" => req = [r \in Req |-> NoReq] /\ list = <<>> /\ c.chain = <<>>
                    /\ c.inflight = NoPv /\ Named(c) = {}

\* lv_cache_new panics in the middle of a request; from then on only the types count.
SInv ==
    /\ StateOK /\ CacheOK(c) /\ ReqOK(req) /\ c.go = {} /\ c.done = {}
    /\ ~c.panic => Struct(c, req, Counted(c, req, {})) /\ Waits(c, req, {}, list)

-----------------------------------------------------------------------------
(* Numbers, and the loops of lv_mircons.c, which are folds in LvMircons.   *)

\* Every set of natural numbers that is not empty has a least element.
LEMMA NatLeast ==
  ASSUME NEW T \in SUBSET Nat, T # {}
  PROVE  \E n \in T : \A m \in T : n <= m
<1> DEFINE R == OpToRel(<, Nat)
<1>1. IsWellFoundedOn(R, Nat)
  BY NatLessThanWellFounded
<1>2. \A m, n \in Nat : m < n => <<m, n>> \in R
  BY DEF OpToRel
<1> HIDE DEF R
<1>3. PICK n \in T : \A m \in T : ~(<<m, n>> \in R)
  BY <1>1, WFMin, Zenon
<1>4. ASSUME NEW m \in T PROVE n <= m
  <2>1. m \in Nat /\ n \in Nat /\ ~(m < n)
    BY <1>2, <1>3
  <2> QED
    BY <2>1
<1> QED
  BY <1>4

\* Induction over the natural numbers, for a set.
LEMMA NatInd ==
  ASSUME NEW S, 0 \in S, \A n \in Nat : n \in S => n + 1 \in S
  PROVE  Nat \subseteq S
<1> SUFFICES ASSUME Nat \ S # {} PROVE FALSE
  OBVIOUS
<1>1. PICK n \in Nat \ S : \A m \in Nat \ S : n <= m
  BY NatLeast
<1>2. n - 1 \in Nat /\ n - 1 \notin Nat \ S
  BY <1>1
<1> QED
  BY <1>2

\* Every set of numbers from 1 to n that is not empty has a greatest element.
LEMMA UpToGreatest ==
  ASSUME NEW n \in Nat, NEW T \in SUBSET (1 .. n), T # {}
  PROVE  \E m \in T : \A j \in T : m >= j
<1> DEFINE D == {n - j : j \in T}
<1>1. D \in SUBSET Nat /\ D # {}
  <2>1. \A j \in T : j \in Int /\ 1 <= j /\ j <= n
    OBVIOUS
  <2>2. \A j \in T : n - j \in Nat
    BY <2>1
  <2> QED
    BY <2>2
<1>2. PICK d \in D : \A e \in D : d <= e
  BY <1>1, NatLeast
<1>3. PICK m \in T : d = n - m
  OBVIOUS
<1>4. ASSUME NEW j \in T PROVE m >= j
  <2>1. d <= n - j
    BY <1>2
  <2>2. \A i \in T : i \in Int
    OBVIOUS
  <2> QED
    BY <1>3, <2>1, <2>2
<1> QED
  BY <1>4

\* A step of the loop of activation: u are the PVs that could not be read.
StaleStep(u, s, p) == IF p \in u THEN CacheMissing(s, p) ELSE s

\* The step of a loop: that of lv_cache_scrub for volume x over the entries of the
\* LRU list, of lv_cache_update over the PVs, of lv_mwc_done over the requests that wait,
\* and of activation over the PVs.
LoopStep(t, x, a, b) ==
    CASE t = "scrub"  -> ScrubEntry(a, x, b)
      [] t = "update" -> QueueLatest(a, b)
      [] t = "again"  -> CheckAgain(a, b)
      [] t = "stale"  -> StaleStep(x, a, b)
Fold(t, x, base, s) == FoldLeft(LAMBDA a, b : LoopStep(t, x, a, b), base, s)

\* The step of each loop.
LEMMA LoopSteps ==
  ASSUME NEW x, NEW a, NEW b
  PROVE  /\ LoopStep("scrub", x, a, b) = ScrubEntry(a, x, b)
         /\ LoopStep("update", x, a, b) = QueueLatest(a, b)
         /\ LoopStep("again", x, a, b) = CheckAgain(a, b)
         /\ LoopStep("stale", x, a, b) = StaleStep(x, a, b)
  BY DEF LoopStep, StaleStep

\* What FoldLeft computes on the sets of indices up to n, for a sequence s.
Partial(t, x, base, s, n, f) ==
    f = [S \in SUBSET (1 .. n) |->
            IF S = {} THEN base ELSE LoopStep(t, x, f[S \ {Max(S)}], s[Max(S)])]

\* There is such a function.
LEMMA PartialExists ==
  ASSUME NEW t, NEW x, NEW base, NEW s, NEW n \in Nat
  PROVE  \E f : Partial(t, x, base, s, n, f)
<1> DEFINE K == {k \in Nat : \E f : Partial(t, x, base, s, k, f)}
<1>1. 0 \in K
  <2>1. Partial(t, x, base, s, 0, [S \in SUBSET (1 .. 0) |-> base])
    <3>1. 1 .. 0 = {}
      OBVIOUS
    <3> QED
      BY <3>1 DEF Partial
  <2> QED
    BY <2>1
<1>2. ASSUME NEW k \in Nat, k \in K PROVE k + 1 \in K
  <2>1. PICK f : Partial(t, x, base, s, k, f)
    BY <1>2
  <2> DEFINE g == [S \in SUBSET (1 .. k + 1) |->
                     IF k + 1 \in S THEN LoopStep(t, x, f[S \ {k + 1}], s[k + 1]) ELSE f[S]]
  <2>2. ASSUME NEW S \in SUBSET (1 .. k + 1)
        PROVE  g[S] = IF S = {} THEN base ELSE LoopStep(t, x, g[S \ {Max(S)}], s[Max(S)])
    <3>1. CASE k + 1 \in S
      <4>1. Max(S) = k + 1
        <5>1. \A j \in S : j \in Int /\ j <= k + 1
          OBVIOUS
        <5>2. \A j \in S : k + 1 >= j
          BY <5>1
        <5>3. \A m \in S : (\A j \in S : m >= j) => m = k + 1
          BY <3>1, <5>1
        <5> QED
          BY <3>1, <5>2, <5>3 DEF Max
      <4>2. S \ {k + 1} \in SUBSET (1 .. k + 1) /\ k + 1 \notin S \ {k + 1}
        OBVIOUS
      <4>3. g[S \ {k + 1}] = f[S \ {k + 1}]
        BY <4>2
      <4>4. g[S] = LoopStep(t, x, f[S \ {k + 1}], s[k + 1])
        BY <3>1
      <4> QED
        BY <3>1, <4>1, <4>3, <4>4
    <3>2. CASE k + 1 \notin S
      <4>1. S \in SUBSET (1 .. k)
        BY <3>2
      <4>2. g[S] = f[S]
        BY <3>2
      <4>3. f[S] = IF S = {} THEN base ELSE LoopStep(t, x, f[S \ {Max(S)}], s[Max(S)])
        BY <2>1, <4>1 DEF Partial
      <4>4. ASSUME S # {} PROVE g[S \ {Max(S)}] = f[S \ {Max(S)}]
        <5>1. S \ {Max(S)} \in SUBSET (1 .. k + 1) /\ k + 1 \notin S \ {Max(S)}
          BY <3>2
        <5> QED
          BY <5>1
      <4> HIDE DEF g
      <4> QED
        BY <4>2, <4>3, <4>4
    <3> QED
      BY <3>1, <3>2
  <2>3. Partial(t, x, base, s, k + 1, g)
    <3> DEFINE h == [S \in SUBSET (1 .. k + 1) |->
                       IF S = {} THEN base ELSE LoopStep(t, x, g[S \ {Max(S)}], s[Max(S)])]
    <3>1. \A S \in SUBSET (1 .. k + 1) : g[S] = h[S]
      BY <2>2
    <3>2. g = h
      BY <3>1
    <3> QED
      BY <3>2 DEF Partial
  <2> QED
    BY <2>3
<1>3. Nat \subseteq K
  <2> HIDE DEF K
  <2> QED
    BY <1>1, <1>2, NatInd
<1> QED
  BY <1>3

\* A fold is a loop: h[i] is what it has come to after the i-th element.
LEMMA Chain ==
  ASSUME NEW t, NEW x, NEW base, NEW A, NEW s \in Seq(A)
  PROVE  \E h : /\ h[0] = base
                /\ \A i \in 1 .. Len(s) : h[i] = LoopStep(t, x, h[i - 1], s[i])
                /\ Fold(t, x, base, s) = h[Len(s)]
<1> DEFINE D == 1 .. Len(s)
           v == CHOOSE f : f = [S \in SUBSET D |->
                  IF S = {} THEN base ELSE LoopStep(t, x, f[S \ {Max(S)}], s[Max(S)])]
           h == [i \in 0 .. Len(s) |-> v[1 .. i]]
<1>1. DOMAIN s = D
  OBVIOUS
<1>2. Fold(t, x, base, s) = v[D]
  BY <1>1 DEF Fold, FoldLeft, MapThenFoldSet
<1>3. v = [S \in SUBSET D |-> IF S = {} THEN base ELSE LoopStep(t, x, v[S \ {Max(S)}], s[Max(S)])]
  <2>1. \E f : Partial(t, x, base, s, Len(s), f)
    <3>1. Len(s) \in Nat
      OBVIOUS
    <3> QED
      BY <3>1, PartialExists
  <2> QED
    BY <2>1 DEF Partial
<1> HIDE DEF v
<1>4. h[0] = base
  <2>1. 1 .. 0 = {}
    OBVIOUS
  <2>2. v[{}] = base
    BY <1>3
  <2> QED
    BY <2>1, <2>2
<1>5. ASSUME NEW i \in 1 .. Len(s) PROVE h[i] = LoopStep(t, x, h[i - 1], s[i])
  <2>1. (1 .. i) \in SUBSET D /\ 1 .. i # {}
    <3>1. Len(s) \in Nat /\ i \in Nat /\ 1 <= i /\ i <= Len(s)
      OBVIOUS
    <3>2. \A j \in 1 .. i : j \in D
      BY <3>1
    <3>3. i \in 1 .. i
      BY <3>1
    <3> QED
      BY <3>2, <3>3
  <2>2. Max(1 .. i) = i
    BY DEF Max
  <2>3. (1 .. i) \ {i} = 1 .. (i - 1)
    OBVIOUS
  <2>4. v[1 .. i] = LoopStep(t, x, v[(1 .. i) \ {Max(1 .. i)}], s[Max(1 .. i)])
    BY <1>3, <2>1
  <2>5. v[1 .. i] = LoopStep(t, x, v[1 .. (i - 1)], s[i])
    BY <2>2, <2>3, <2>4
  <2> QED
    BY <2>5
<1>6. h[Len(s)] = v[D]
  OBVIOUS
<1> HIDE DEF h
<1> QED
  BY <1>2, <1>4, <1>5, <1>6

-----------------------------------------------------------------------------
(* Sequences.                                                              *)

\* Lowest is the least of a set of numbers.
LEMMA NatMin ==
  ASSUME NEW T \in SUBSET Nat, T # {}
  PROVE  Lowest(T) \in T /\ \A j \in T : Lowest(T) <= j
  BY NatLeast DEF Lowest

\* Highest is the greatest of a set of numbers from 1 to n.
LEMMA UpToMax ==
  ASSUME NEW n \in Nat, NEW T \in SUBSET (1 .. n), T # {}
  PROVE  Highest(T) \in T /\ \A j \in T : Highest(T) >= j
  BY UpToGreatest DEF Highest

\* Every finite set of numbers that is not empty has a greatest element.
LEMMA FiniteMax ==
  ASSUME NEW S \in SUBSET Nat, IsFiniteSet(S), S # {}
  PROVE  \E m \in S : \A j \in S : m >= j
<1> DEFINE n == Cardinality(S)
<1>1. n \in Nat /\ ExistsBijection(1 .. n, S)
  BY FS_CardinalityType, FS_NatBijection
<1> HIDE DEF n
<1>2. PICK f \in [1 .. n -> S] : \A s \in S : \E i \in 1 .. n : f[i] = s
  BY <1>1 DEF ExistsBijection, Bijection, Surjection
<1> DEFINE K == {k \in Nat : k + 1 \in 1 .. n =>
                    \E m \in 1 .. k + 1 : \A j \in 1 .. k + 1 : f[m] >= f[j]}
<1>3. \A i \in 1 .. n : f[i] \in Nat
  BY <1>2
<1>4. 0 \in K
  <2>1. ASSUME 0 + 1 \in 1 .. n PROVE \A j \in 1 .. 0 + 1 : f[1] >= f[j]
    BY <1>3, <2>1
  <2> QED
    BY <2>1
<1>5. ASSUME NEW k \in Nat, k \in K PROVE k + 1 \in K
  <2> SUFFICES ASSUME (k + 1) + 1 \in 1 .. n
               PROVE  \E m \in 1 .. (k + 1) + 1 : \A j \in 1 .. (k + 1) + 1 : f[m] >= f[j]
    OBVIOUS
  <2>1. k + 1 \in 1 .. n /\ \A j \in 1 .. (k + 1) + 1 : j \in 1 .. k + 1 \/ j = (k + 1) + 1
    BY <1>1
  <2>2. PICK m \in 1 .. k + 1 : \A j \in 1 .. k + 1 : f[m] >= f[j]
    BY <1>5, <2>1
  <2>3. m \in 1 .. (k + 1) + 1 /\ m \in 1 .. n /\ \A j \in 1 .. k + 1 : j \in 1 .. n
    BY <1>1, <2>1
  <2>4. f[m] \in Nat /\ f[(k + 1) + 1] \in Nat /\ \A j \in 1 .. k + 1 : f[j] \in Nat
    BY <1>3, <2>3
  <2>5. CASE f[m] >= f[(k + 1) + 1]
    <3>1. \A j \in 1 .. (k + 1) + 1 : f[m] >= f[j]
      BY <2>1, <2>2, <2>5
    <3> QED
      BY <2>3, <3>1
  <2>6. CASE f[m] < f[(k + 1) + 1]
    <3>1. \A j \in 1 .. (k + 1) + 1 : f[(k + 1) + 1] >= f[j]
      <4>1. \A j \in 1 .. k + 1 : f[(k + 1) + 1] >= f[j]
        BY <2>2, <2>4, <2>6
      <4> QED
        BY <2>1, <2>4, <4>1
    <3>2. (k + 1) + 1 \in 1 .. (k + 1) + 1
      OBVIOUS
    <3> QED
      BY <3>1, <3>2
  <2> QED
    <3>1. \A a, b \in Nat : a >= b \/ a < b
      OBVIOUS
    <3> QED
      BY <2>4, <2>5, <2>6, <3>1
<1>6. Nat \subseteq K
  <2> HIDE DEF K
  <2> QED
    BY <1>4, <1>5, NatInd
<1>7. n >= 1
  <2>1. PICK z \in S : TRUE
    OBVIOUS
  <2>2. PICK i \in 1 .. n : f[i] = z
    BY <1>2
  <2> QED
    BY <1>1
<1>8. n - 1 \in Nat /\ (n - 1) + 1 = n /\ n \in 1 .. n
  BY <1>1, <1>7
<1>9. \E m \in 1 .. n : \A j \in 1 .. n : f[m] >= f[j]
  BY <1>6, <1>8
<1> QED
  BY <1>2, <1>9

\* The set of a sequence's elements, which is empty if the sequence is.
LEMMA SeqSet ==
  ASSUME NEW A, NEW s \in Seq(A)
  PROVE  /\ ToSet(s) \subseteq A /\ ToSet(s) = {s[i] : i \in 1 .. Len(s)}
         /\ (s = <<>>) <=> (ToSet(s) = {})
<1>1. DOMAIN s = 1 .. Len(s) /\ Len(s) \in Nat /\ \A i \in 1 .. Len(s) : s[i] \in A
  OBVIOUS
<1>2. ToSet(s) = {s[i] : i \in 1 .. Len(s)}
  BY <1>1 DEF ToSet
<1>3. ASSUME s # <<>> PROVE ToSet(s) # {}
  <2>1. 1 \in 1 .. Len(s)
    BY <1>3
  <2> QED
    BY <1>2, <2>1
<1>4. ASSUME s = <<>> PROVE ToSet(s) = {}
  <2>1. 1 .. Len(s) = {}
    BY <1>4
  <2> QED
    BY <1>2, <2>1
<1> QED
  BY <1>1, <1>2, <1>3, <1>4

\* The empty sequence has none.
LEMMA EmptySet == ToSet(<<>>) = {} /\ IsInjective(<<>>)
  BY DEF ToSet, IsInjective

\* An element appended is one more, and no duplicate if it is new.
LEMMA AppendSet ==
  ASSUME NEW A, NEW s \in Seq(A), NEW a \in A
  PROVE  /\ Append(s, a) \in Seq(A) /\ Append(s, a) # <<>>
         /\ ToSet(Append(s, a)) = ToSet(s) \cup {a}
         /\ IsInjective(s) /\ a \notin ToSet(s) => IsInjective(Append(s, a))
         /\ Len(Append(s, a)) = Len(s) + 1
<1> DEFINE t == Append(s, a)
           n == Len(s)
<1>1. n \in Nat /\ DOMAIN s = 1 .. n /\ t \in Seq(A) /\ Len(t) = n + 1
      /\ DOMAIN t = 1 .. n + 1 /\ \A i \in 1 .. n : t[i] = s[i]
  OBVIOUS
<1>2. t[n + 1] = a /\ n + 1 \in 1 .. n + 1 /\ \A i \in 1 .. n + 1 : i \in 1 .. n \/ i = n + 1
  BY <1>1
<1>3. \A i \in 1 .. n : i \in 1 .. n + 1 /\ i # n + 1
  BY <1>1
<1>4. ToSet(s) = {s[i] : i \in 1 .. n} /\ ToSet(t) = {t[i] : i \in 1 .. n + 1}
  BY <1>1 DEF ToSet
<1> HIDE DEF t, n
<1>5. ToSet(t) = ToSet(s) \cup {a}
  BY <1>1, <1>2, <1>3, <1>4
<1>6. ASSUME IsInjective(s), a \notin ToSet(s) PROVE IsInjective(t)
  BY <1>1, <1>2, <1>3, <1>4, <1>6 DEF IsInjective
<1>7. t # <<>>
  BY <1>1
<1> QED
  BY <1>1, <1>5, <1>6, <1>7 DEF t, n

\* The same for an element put in front.
LEMMA ConsSet ==
  ASSUME NEW A, NEW s \in Seq(A), NEW a \in A
  PROVE  /\ <<a>> \o s \in Seq(A)
         /\ ToSet(<<a>> \o s) = ToSet(s) \cup {a}
         /\ IsInjective(s) /\ a \notin ToSet(s) => IsInjective(<<a>> \o s)
         /\ Len(<<a>> \o s) = Len(s) + 1
<1> DEFINE t == <<a>> \o s
           n == Len(s)
<1>1. n \in Nat /\ DOMAIN s = 1 .. n /\ t \in Seq(A) /\ Len(t) = n + 1 /\ t[1] = a
      /\ DOMAIN t = 1 .. n + 1 /\ \A i \in 2 .. n + 1 : t[i] = s[i - 1]
  OBVIOUS
<1>2. /\ \A i \in 1 .. n + 1 : i = 1 \/ (i \in 2 .. n + 1 /\ i - 1 \in 1 .. n)
      /\ \A i \in 1 .. n : i + 1 \in 2 .. n + 1 /\ i + 1 \in 1 .. n + 1 /\ (i + 1) - 1 = i
      /\ 1 \in 1 .. n + 1
  BY <1>1
<1>3. \A i \in 1 .. n : t[i + 1] = s[i]
  BY <1>1, <1>2
<1>4. ToSet(s) = {s[i] : i \in 1 .. n} /\ ToSet(t) = {t[i] : i \in 1 .. n + 1}
  BY <1>1 DEF ToSet
<1> HIDE DEF t, n
<1>5. ToSet(t) = ToSet(s) \cup {a}
  <2>1. \A z \in ToSet(t) : z \in ToSet(s) \cup {a}
    BY <1>1, <1>2, <1>4
  <2>2. \A z \in ToSet(s) : z \in ToSet(t)
    BY <1>2, <1>3, <1>4
  <2>3. a \in ToSet(t)
    BY <1>1, <1>2, <1>4
  <2> QED
    BY <2>1, <2>2, <2>3
<1>6. ASSUME IsInjective(s), a \notin ToSet(s) PROVE IsInjective(t)
  <2> SUFFICES ASSUME NEW i \in 1 .. n + 1, NEW j \in 1 .. n + 1, t[i] = t[j] PROVE i = j
    BY <1>1 DEF IsInjective
  <2>1. \A l \in 2 .. n + 1 : t[l] \in ToSet(s)
    BY <1>1, <1>2, <1>4
  <2>2. CASE i = 1 \/ j = 1
    BY <1>1, <1>2, <1>6, <2>1, <2>2
  <2>3. CASE i # 1 /\ j # 1
    <3>1. s[i - 1] = s[j - 1] /\ i - 1 \in DOMAIN s /\ j - 1 \in DOMAIN s
      BY <1>1, <1>2, <2>3
    <3>2. i - 1 = j - 1
      BY <1>6, <3>1 DEF IsInjective
    <3> QED
      BY <1>1, <3>2
  <2> QED
    BY <2>2, <2>3
<1> QED
  BY <1>1, <1>5, <1>6 DEF t, n

\* What is left without the first element.
LEMMA TailSet ==
  ASSUME NEW A, NEW s \in Seq(A), s # <<>>
  PROVE  /\ Tail(s) \in Seq(A) /\ Head(s) \in A
         /\ ToSet(s) = ToSet(Tail(s)) \cup {Head(s)}
         /\ IsInjective(s) => IsInjective(Tail(s)) /\ Head(s) \notin ToSet(Tail(s))
<1> DEFINE t == Tail(s)
           n == Len(s)
<1>1. n \in Nat /\ n >= 1 /\ DOMAIN s = 1 .. n /\ t \in Seq(A) /\ Head(s) = s[1]
      /\ Head(s) \in A /\ DOMAIN t = 1 .. n - 1 /\ \A i \in 1 .. n - 1 : t[i] = s[i + 1]
  OBVIOUS
<1>2. /\ \A i \in 1 .. n - 1 : i + 1 \in 1 .. n /\ i + 1 # 1
      /\ \A i \in 1 .. n : i = 1 \/ (i - 1 \in 1 .. n - 1 /\ (i - 1) + 1 = i)
      /\ 1 \in 1 .. n
  BY <1>1
<1>3. ToSet(s) = {s[i] : i \in 1 .. n} /\ ToSet(t) = {t[i] : i \in 1 .. n - 1}
  BY <1>1 DEF ToSet
<1> HIDE DEF t, n
<1>4. ToSet(s) = ToSet(t) \cup {Head(s)}
  <2>1. \A z \in ToSet(s) : z \in ToSet(t) \cup {Head(s)}
    BY <1>1, <1>2, <1>3, SMTT(40), ZenonT(20)
  <2>2. \A z \in ToSet(t) : z \in ToSet(s)
    BY <1>1, <1>2, <1>3
  <2>3. Head(s) \in ToSet(s)
    BY <1>1, <1>2, <1>3
  <2> QED
    BY <2>1, <2>2, <2>3
<1>5. ASSUME IsInjective(s) PROVE IsInjective(t) /\ Head(s) \notin ToSet(t)
  <2>1. ASSUME NEW i \in 1 .. n - 1, NEW j \in 1 .. n - 1, t[i] = t[j] PROVE i = j
    <3>1. i + 1 = j + 1
      BY <1>1, <1>2, <1>5, <2>1 DEF IsInjective
    <3> QED
      BY <1>1, <3>1
  <2>2. ASSUME NEW i \in 1 .. n - 1, t[i] = Head(s) PROVE FALSE
    <3>1. i + 1 \in DOMAIN s /\ 1 \in DOMAIN s /\ s[i + 1] = s[1] /\ i + 1 # 1
      BY <1>1, <1>2, <2>2
    <3> QED
      BY <1>5, <3>1 DEF IsInjective
  <2> QED
    BY <1>1, <1>3, <2>1, <2>2 DEF IsInjective
<1> QED
  BY <1>1, <1>4, <1>5 DEF t, n

\* What is left without the first occurrence of an element.
LEMMA WithoutSet ==
  ASSUME NEW A, NEW s \in Seq(A), NEW e \in ToSet(s)
  PROVE  /\ Without(s, e) \in Seq(A) /\ Len(Without(s, e)) = Len(s) - 1
         /\ ToSet(s) = ToSet(Without(s, e)) \cup {e}
         /\ IsInjective(s) => IsInjective(Without(s, e)) /\ e \notin ToSet(Without(s, e))
<1> DEFINE n == Len(s)
           p == CHOOSE i \in 1 .. Len(s) : s[i] = e
           w == Without(s, e)
<1>1. n \in Nat /\ DOMAIN s = 1 .. n /\ \A i \in 1 .. n : s[i] \in A
  OBVIOUS
<1>2. p \in 1 .. n /\ s[p] = e
  BY <1>1 DEF ToSet
<1>3. w = SubSeq(s, 1, p - 1) \o SubSeq(s, p + 1, n)
  BY DEF Without, RemoveAt
<1> HIDE DEF p, n, w
<1>4. p \in Nat /\ 1 <= p /\ p <= n
  BY <1>1, <1>2
<1> DEFINE a == SubSeq(s, 1, p - 1)
           b == SubSeq(s, p + 1, n)
<1>5. a \in Seq(A) /\ Len(a) = p - 1 /\ \A i \in 1 .. p - 1 : a[i] = s[i]
  BY <1>1, <1>4 DEF n
<1>6. b \in Seq(A) /\ Len(b) = n - p /\ \A i \in 1 .. n - p : b[i] = s[i + p]
  <2>1. p + 1 \in 1 .. Len(s) + 1 /\ n \in (p + 1) - 1 .. Len(s)
    BY <1>1, <1>4 DEF n
  <2>2. b \in Seq(A) /\ Len(b) = n - (p + 1) + 1
        /\ \A i \in 1 .. n - (p + 1) + 1 : b[i] = s[(p + 1) + i - 1]
    BY <2>1, SubSeqProperties
  <2>3. n - (p + 1) + 1 = n - p /\ \A i \in 1 .. n - p : (p + 1) + i - 1 = i + p
    BY <1>1, <1>4
  <2> QED
    BY <2>2, <2>3
<1> HIDE DEF a, b
<1>7. w = a \o b
  BY <1>3 DEF a, b
<1>8. w \in Seq(A) /\ Len(w) = n - 1 /\ DOMAIN w = 1 .. n - 1
  <2>1. a \o b \in Seq(A) /\ Len(a \o b) = Len(a) + Len(b)
    BY <1>5, <1>6, ConcatProperties
  <2>2. Len(w) = n - 1 /\ w \in Seq(A)
    BY <1>1, <1>4, <1>5, <1>6, <1>7, <2>1
  <2> QED
    BY <2>2
<1>9. \A i \in 1 .. n - 1 : w[i] = IF i < p THEN s[i] ELSE s[i + 1]
  <2> SUFFICES ASSUME NEW i \in 1 .. n - 1 PROVE w[i] = IF i < p THEN s[i] ELSE s[i + 1]
    OBVIOUS
  <2>1. w[i] = IF i <= Len(a) THEN a[i] ELSE b[i - Len(a)]
    BY <1>1, <1>4, <1>5, <1>6, <1>7, SMTT(40), ZenonT(20)
  <2>2. CASE i < p
    BY <1>1, <1>4, <1>5, <2>1, <2>2
  <2>3. CASE i >= p
    <3>1. i - (p - 1) \in 1 .. n - p /\ (i - (p - 1)) + p = i + 1
      BY <1>1, <1>4, <2>3
    <3>2. b[i - (p - 1)] = s[i + 1]
      BY <1>6, <3>1
    <3> QED
      BY <1>1, <1>4, <1>5, <2>1, <2>3, <3>2
  <2> QED
    BY <1>4, <2>2, <2>3, <1>1
<1> DEFINE f(i) == IF i < p THEN i ELSE i + 1
<1>10. \A i \in 1 .. n - 1 : f(i) \in 1 .. n /\ f(i) # p /\ w[i] = s[f(i)]
  BY <1>1, <1>4, <1>9
<1>11. \A i \in 1 .. n : i # p => \E j \in 1 .. n - 1 : f(j) = i
  <2> SUFFICES ASSUME NEW i \in 1 .. n, i # p PROVE \E j \in 1 .. n - 1 : f(j) = i
    OBVIOUS
  <2>1. CASE i < p
    <3>1. i \in 1 .. n - 1 /\ f(i) = i
      BY <1>1, <1>4, <2>1
    <3> QED
      BY <3>1
  <2>2. CASE i > p
    <3>1. i - 1 \in 1 .. n - 1 /\ f(i - 1) = i
      BY <1>1, <1>4, <2>2
    <3> QED
      BY <3>1
  <2> QED
    BY <1>1, <1>4, <2>1, <2>2
<1>12. \A i, j \in 1 .. n - 1 : f(i) = f(j) => i = j
  BY <1>1, <1>4
<1> HIDE DEF f
<1>13. ToSet(s) = {s[i] : i \in 1 .. n} /\ ToSet(w) = {w[i] : i \in 1 .. n - 1}
  BY <1>1, <1>8 DEF ToSet
<1>14. ToSet(s) = ToSet(w) \cup {e}
  <2>1. \A z \in ToSet(w) : z \in ToSet(s)
    BY <1>10, <1>13
  <2>2. \A z \in ToSet(s) : z \in ToSet(w) \cup {e}
    <3> SUFFICES ASSUME NEW i \in 1 .. n, i # p PROVE s[i] \in ToSet(w)
      BY <1>2, <1>13
    <3>1. PICK j \in 1 .. n - 1 : f(j) = i
      BY <1>11
    <3> QED
      BY <1>10, <1>13, <3>1
  <2> QED
    BY <2>1, <2>2
<1>15. ASSUME IsInjective(s) PROVE IsInjective(w) /\ e \notin ToSet(w)
  <2>1. ASSUME NEW i \in 1 .. n - 1, NEW j \in 1 .. n - 1, w[i] = w[j] PROVE i = j
    BY <1>1, <1>10, <1>12, <1>15, <2>1 DEF IsInjective
  <2>2. ASSUME NEW i \in 1 .. n - 1, w[i] = e PROVE FALSE
    BY <1>1, <1>2, <1>10, <1>15, <2>2 DEF IsInjective
  <2> QED
    BY <1>8, <1>13, <2>1, <2>2 DEF IsInjective
<1> QED
  BY <1>8, <1>14, <1>15 DEF w, n

\* lv_cache_use keeps the entries, in an order of its own.
LEMMA UseSet ==
  ASSUME NEW A, NEW s \in Seq(A), NEW e \in ToSet(s)
  PROVE  /\ Mru(s, e) \in Seq(A) /\ Len(Mru(s, e)) = Len(s) /\ ToSet(Mru(s, e)) = ToSet(s)
         /\ Lru(s, e) \in Seq(A) /\ Len(Lru(s, e)) = Len(s) /\ ToSet(Lru(s, e)) = ToSet(s)
<1>1. e \in A
  BY SeqSet
<1> DEFINE w == Without(s, e)
<1>2. w \in Seq(A) /\ Len(w) = Len(s) - 1 /\ ToSet(s) = ToSet(w) \cup {e} /\ Len(s) \in Nat
  BY WithoutSet
<1>3. Mru(s, e) = <<e>> \o w /\ Lru(s, e) = Append(w, e)
  BY DEF Mru, Lru
<1> HIDE DEF w
<1>4. /\ <<e>> \o w \in Seq(A) /\ Len(<<e>> \o w) = Len(s) /\ ToSet(<<e>> \o w) = ToSet(s)
  BY <1>1, <1>2, ConsSet
<1>5. Append(w, e) \in Seq(A) /\ Len(Append(w, e)) = Len(s) /\ ToSet(Append(w, e)) = ToSet(s)
  BY <1>1, <1>2, AppendSet
<1> QED
  BY <1>3, <1>4, <1>5

-----------------------------------------------------------------------------
(* What the operations on the cache do to its parts.                       *)

\* What MirconsAssumption says of the constants.
LEMMA Consts ==
  /\ NPV \in Nat \ {0} /\ Mirror \subseteq Nat /\ MayMiss \subseteq PV
  /\ IsFiniteSet(Mirror) /\ IsFiniteSet(Entry) /\ IsFiniteSet(Req)
  /\ PvOf \in [Copy -> PV \cup {NoPv}] /\ LvOf \in [Ltg -> Lv]
  /\ None \notin Ltg /\ None \notin Lv /\ NoPv \notin PV /\ PV \subseteq Nat
  /\ CHANGING # FROZEN /\ MayLose \in BOOLEAN /\ MP \in BOOLEAN
  BY MirconsAssumption DEF PV, NoPv, CHANGING, FROZEN

\* A mirror of x is a copy on some PV.
LEMMA MirrorFacts ==
  ASSUME NEW x \in Ltg, NEW m \in MirrorsOf(x)
  PROVE  m \in Mirror /\ PvOf[x, m] \in PV /\ Holds(PvOf[x, m], x) /\ <<x, m>> \in Copy
<1>1. m \in Mirror /\ PvOf[x, m] # NoPv /\ <<x, m>> \in Copy
  BY DEF MirrorsOf, Copy
<1>2. PvOf[x, m] \in PV
  BY <1>1, Consts
<1> QED
  BY <1>1, <1>2 DEF Holds

\* Lowest and Highest choose among mirrors.
LEMMA LowestMirror ==
  ASSUME NEW x \in Ltg, NEW S \in SUBSET MirrorsOf(x), S # {}
  PROVE  Lowest(S) \in S /\ Highest(S) \in S
<1>1. S \in SUBSET Nat /\ S \subseteq Mirror /\ IsFiniteSet(S)
  <2>1. S \subseteq Mirror
    BY DEF MirrorsOf
  <2> QED
    BY <2>1, Consts, FS_Subset
<1>2. Lowest(S) \in S
  BY <1>1, NatMin
<1>3. Highest(S) \in S
  BY <1>1, FiniteMax DEF Highest
<1> QED
  BY <1>2, <1>3

\* The types of the cache's sequences.
LEMMA ChainSet ==
  ASSUME NEW k \in Cache
  PROVE  /\ Hashed(k) \subseteq Entry /\ Hashed(k) = {k.chain[i] : i \in 1 .. Len(k.chain)}
         /\ k.chain \in Seq(Entry) /\ k.lru \in Seq(Entry) /\ k.wait \in Seq(Req)
         /\ k.writeq \in Seq(PV) /\ k.ent \in [Entry -> EntryT]
         /\ k.pvwait \in [PV -> Seq(Req)]
<1>1. /\ k.chain \in Seq(Entry) /\ k.lru \in Seq(Entry) /\ k.wait \in Seq(Req)
      /\ k.writeq \in Seq(PV) /\ k.ent \in [Entry -> EntryT]
      /\ k.pvwait \in [PV -> Seq(Req)]
  BY DEF Cache
<1> QED
  BY <1>1, SeqSet DEF Hashed

\* lv_search_cache finds an entry in the chain, if there is one.
LEMMA SearchFinds ==
  ASSUME NEW k \in Cache, NEW x
  PROVE  /\ Found(k, x) # {} => /\ Search(k, x) \in Hashed(k) /\ Search(k, x) \in Entry
                                /\ k.ent[Search(k, x)].ltg = x
         /\ Found(k, x) = {} => \A e \in Hashed(k) : k.ent[e].ltg # x
<1>1. Found(k, x) \in SUBSET Nat
  <2>1. Len(k.chain) \in Nat
    BY ChainSet
  <2> QED
    BY <2>1 DEF Found
<1>2. ASSUME Found(k, x) # {} PROVE Lowest(Found(k, x)) \in Found(k, x)
  BY <1>1, <1>2, NatMin
<1>3. Hashed(k) \subseteq Entry /\ Hashed(k) = {k.chain[i] : i \in 1 .. Len(k.chain)}
  BY ChainSet
<1>4. ASSUME Found(k, x) # {}
      PROVE  /\ Search(k, x) \in Hashed(k) /\ Search(k, x) \in Entry
             /\ k.ent[Search(k, x)].ltg = x
  BY <1>2, <1>3, <1>4 DEF Search, Found
<1>5. ASSUME Found(k, x) = {} PROVE \A e \in Hashed(k) : k.ent[e].ltg # x
  BY <1>3, <1>5 DEF Found
<1> QED
  BY <1>4, <1>5

\* lv_cache_new finds an entry without requests, if there is one.
LEMMA OldestIdle ==
  ASSUME NEW k, CacheOK(k)
  PROVE  /\ Idle(k) # {} => Oldest(k) \in Entry /\ k.ent[Oldest(k)].iocnt = 0
         /\ Idle(k) = {} => \A e \in Entry : k.ent[e].iocnt # 0
<1>1. k.lru \in Seq(Entry) /\ ToSet(k.lru) = Entry /\ Len(k.lru) \in Nat
      /\ ToSet(k.lru) = {k.lru[i] : i \in 1 .. Len(k.lru)}
  <2>1. k.lru \in Seq(Entry) /\ ToSet(k.lru) = Entry
    BY ChainSet DEF CacheOK
  <2> DEFINE s == k.lru
  <2>2. s \in Seq(Entry)
    BY <2>1
  <2> HIDE DEF s
  <2>3. ToSet(s) = {s[i] : i \in 1 .. Len(s)}
    BY <2>2, SeqSet
  <2>4. Len(s) \in Nat
    BY <2>2
  <2> QED
    BY <2>1, <2>3, <2>4 DEF s
<1>2. Idle(k) \in SUBSET (1 .. Len(k.lru))
  BY DEF Idle
<1>3. ASSUME Idle(k) # {} PROVE Oldest(k) \in Entry /\ k.ent[Oldest(k)].iocnt = 0
  <2>1. Highest(Idle(k)) \in Idle(k)
    BY <1>1, <1>2, <1>3, UpToMax
  <2> QED
    BY <1>1, <2>1 DEF Oldest, Idle
<1>4. ASSUME Idle(k) = {} PROVE \A e \in Entry : k.ent[e].iocnt # 0
  BY <1>1, <1>4 DEF Idle
<1> QED
  BY <1>3, <1>4

\* Changing the count of an entry leaves all else alone.
LEMMA CountChange ==
  ASSUME NEW en \in [Entry -> EntryT], NEW e \in Entry, NEW n \in Int
  PROVE  LET f == [en EXCEPT ![e].iocnt = n] IN
         /\ f \in [Entry -> EntryT] /\ f[e].iocnt = n
         /\ f[e].ltg = en[e].ltg /\ f[e].state = en[e].state /\ f[e].pvol = en[e].pvol
         /\ \A d \in Entry : d # e => f[d] = en[d]
  BY DEF EntryT

\* Changing the PV of an entry leaves all else alone.
LEMMA PvolChange ==
  ASSUME NEW en \in [Entry -> EntryT], NEW e \in Entry, NEW p \in PV
  PROVE  LET f == [en EXCEPT ![e].pvol = p] IN
         /\ f \in [Entry -> EntryT] /\ f[e].pvol = p
         /\ f[e].ltg = en[e].ltg /\ f[e].state = en[e].state /\ f[e].iocnt = en[e].iocnt
         /\ \A d \in Entry : d # e => f[d] = en[d]
  BY DEF EntryT

\* The types of an entry's fields.
LEMMA EntryField ==
  ASSUME NEW en \in [Entry -> EntryT], NEW e \in Entry
  PROVE  /\ en[e].iocnt \in Int /\ en[e].ltg \in Ltg \cup {None}
         /\ en[e].state \in {{}, {CHANGING}} /\ en[e].pvol \in PV \cup {NoPv}
  BY DEF EntryT

\* What k becomes, h, part by part.
HitOf(h, k, e, r) ==
    /\ h \in Cache /\ ToSet(h.lru) = Entry /\ Len(h.lru) = Len(k.lru)
    /\ h.ent = [k.ent EXCEPT ![e].iocnt = @ + 1]
    /\ h.free = IF k.ent[e].iocnt = 0 THEN k.free - 1 ELSE k.free
    /\ h.pvwait = IF k.ent[e].state = {CHANGING}
                  THEN [k.pvwait EXCEPT ![k.ent[e].pvol] = Append(@, r)] ELSE k.pvwait
    /\ h.go = IF k.ent[e].state = {CHANGING} THEN k.go ELSE k.go \cup {r}
    /\ h.chain = k.chain /\ h.wait = k.wait /\ h.writeq = k.writeq /\ h.done = k.done
    /\ h.changed = k.changed /\ h.inflight = k.inflight /\ h.clean = k.clean
    /\ h.toggle = k.toggle /\ h.clock = k.clock /\ h.panic = k.panic
    /\ h.latest = k.latest

\* What a hit does: the request is counted, and waits or is let go.
LEMMA HitFields ==
  ASSUME NEW k \in Cache, NEW e \in Entry, NEW r \in Req, ToSet(k.lru) = Entry,
         k.ent[e].state = {CHANGING} => k.ent[e].pvol \in PV
  PROVE  HitOf(Hit(k, e, r), k, e, r)
<1>1. Mru(k.lru, e) \in Seq(Entry) /\ ToSet(Mru(k.lru, e)) = Entry
      /\ Len(Mru(k.lru, e)) = Len(k.lru)
  BY ChainSet, UseSet
<1> DEFINE l == Mru(k.lru, e)
<1> HIDE DEF l
<1>2. l \in Seq(Entry) /\ ToSet(l) = Entry /\ Len(l) = Len(k.lru) /\ Mru(k.lru, e) = l
  BY <1>1 DEF l
<1>3. \A p \in PV : Append(k.pvwait[p], r) \in Seq(Req)
  BY ChainSet
<1> DEFINE en == [k.ent EXCEPT ![e].iocnt = @ + 1]
           f == IF k.ent[e].iocnt = 0 THEN k.free - 1 ELSE k.free
           g == [k EXCEPT !.lru = l, !.ent = en, !.free = f]
<1>8. en \in [Entry -> EntryT] /\ en[e].state = k.ent[e].state /\ en[e].pvol = k.ent[e].pvol
  <2>1. k.ent \in [Entry -> EntryT] /\ k.ent[e].iocnt + 1 \in Int
    BY ChainSet, EntryField, SMTT(40), ZenonT(20)
  <2> QED
    BY <2>1, CountChange
<1>9. f \in Int
  BY DEF Cache
<1>10. Mru(k.lru, e) = l
  BY <1>2
<1>11. Hit(k, e, r) = IF k.ent[e].state = {CHANGING}
                     THEN [g EXCEPT !.pvwait[k.ent[e].pvol] = Append(@, r)]
                     ELSE [g EXCEPT !.go = @ \cup {r}]
  BY <1>2 DEF Hit
<1> HIDE DEF en, f
<1>4. /\ g \in Cache /\ g.lru = l /\ g.ent = en /\ g.free = f
      /\ g.pvwait = k.pvwait /\ g.go = k.go
      /\ g.chain = k.chain /\ g.wait = k.wait /\ g.writeq = k.writeq /\ g.done = k.done
      /\ g.changed = k.changed /\ g.inflight = k.inflight /\ g.clean = k.clean
      /\ g.toggle = k.toggle /\ g.clock = k.clock /\ g.panic = k.panic
      /\ g.latest = k.latest
  BY <1>2, <1>8, <1>9 DEF Cache
<1> HIDE DEF g
<1>6. CASE k.ent[e].state = {CHANGING}
  <2> DEFINE v == [k.pvwait EXCEPT ![k.ent[e].pvol] = Append(@, r)]
  <2>1. v \in [PV -> Seq(Req)]
    BY <1>3, <1>6, ChainSet
  <2>2. Hit(k, e, r) = [g EXCEPT !.pvwait = v]
    BY <1>4, <1>6, <1>11
  <2> HIDE DEF v
  <2>3. LET h == [g EXCEPT !.pvwait = v] IN
         /\ h \in Cache /\ h.lru = g.lru /\ h.ent = g.ent /\ h.free = g.free
         /\ h.pvwait = v /\ h.go = g.go
         /\ h.chain = g.chain /\ h.wait = g.wait /\ h.writeq = g.writeq /\ h.done = g.done
         /\ h.changed = g.changed /\ h.inflight = g.inflight /\ h.clean = g.clean
         /\ h.toggle = g.toggle /\ h.clock = g.clock /\ h.panic = g.panic
         /\ h.latest = g.latest
    BY <1>4, <2>1 DEF Cache
  <2> QED
    BY <1>2, <1>4, <1>6, <2>2, <2>3 DEF v, en, f, HitOf
<1>7. CASE k.ent[e].state # {CHANGING}
  <2> DEFINE v == k.go \cup {r}
  <2>1. v \in SUBSET Req
    BY DEF Cache
  <2>2. Hit(k, e, r) = [g EXCEPT !.go = v]
    BY <1>4, <1>7, <1>11
  <2> HIDE DEF v
  <2>3. LET h == [g EXCEPT !.go = v] IN
         /\ h \in Cache /\ h.lru = g.lru /\ h.ent = g.ent /\ h.free = g.free
         /\ h.pvwait = g.pvwait /\ h.go = v
         /\ h.chain = g.chain /\ h.wait = g.wait /\ h.writeq = g.writeq /\ h.done = g.done
         /\ h.changed = g.changed /\ h.inflight = g.inflight /\ h.clean = g.clean
         /\ h.toggle = g.toggle /\ h.clock = g.clock /\ h.panic = g.panic
         /\ h.latest = g.latest
    BY <1>4, <2>1 DEF Cache
  <2> QED
    BY <1>2, <1>4, <1>7, <2>2, <2>3 DEF v, en, f, HitOf
<1> QED
  BY <1>6, <1>7

QueueOf(h, k, e, r, p) ==
    /\ h \in Cache
    /\ h.ent = [k.ent EXCEPT ![e].pvol = p]
    /\ h.pvwait = [k.pvwait EXCEPT ![p] = Append(@, r)]
    /\ h.writeq = IF Queued(k, p) THEN k.writeq ELSE Append(k.writeq, p)
    /\ h.lru = k.lru /\ h.free = k.free
    /\ h.chain = k.chain /\ h.wait = k.wait /\ h.go = k.go /\ h.done = k.done
    /\ h.changed = k.changed /\ h.inflight = k.inflight /\ h.clean = k.clean
    /\ h.toggle = k.toggle /\ h.clock = k.clock /\ h.panic = k.panic
    /\ h.latest = k.latest

\* What lv_cache_queue does: the entry gets a PV, on whose queue the request waits.
LEMMA QueueFields ==
  ASSUME NEW k \in Cache, NEW e \in Entry, NEW r \in Req, NEW x \in Ltg, Place(k, x) \in PV
  PROVE  QueueOf(Queue(k, e, r, x), k, e, r, Place(k, x))
<1>1. \A p \in PV : Append(k.pvwait[p], r) \in Seq(Req) /\ Append(k.writeq, p) \in Seq(PV)
  BY ChainSet
<1> DEFINE p == Place(k, x)
<1> HIDE DEF p
<1>2. p \in PV /\ Place(k, x) = p
  BY DEF p
<1> DEFINE w == IF Queued(k, p) THEN k.writeq ELSE Append(k.writeq, p)
           v == Append(k.pvwait[p], r)
           en == [k.ent EXCEPT ![e].pvol = p]
           pw == [k.pvwait EXCEPT ![p] = v]
<1>3. w \in Seq(PV) /\ v \in Seq(Req)
  BY <1>1, <1>2, ChainSet
<1>4. Queue(k, e, r, x) = [k EXCEPT !.ent = en, !.pvwait = pw, !.writeq = w]
  BY <1>2 DEF Queue
<1>8. en \in [Entry -> EntryT] /\ pw \in [PV -> Seq(Req)]
  <2>1. k.ent \in [Entry -> EntryT] /\ k.pvwait \in [PV -> Seq(Req)]
    BY ChainSet
  <2>2. en \in [Entry -> EntryT]
    BY <1>2, <2>1, PvolChange
  <2> QED
    BY <1>3, <2>1, <2>2
<1> HIDE DEF w, en, pw
<1>5. Queue(k, e, r, x) \in Cache
  BY <1>3, <1>4, <1>8 DEF Cache
<1>6. /\ Queue(k, e, r, x).ent = en /\ Queue(k, e, r, x).pvwait = pw
      /\ Queue(k, e, r, x).writeq = w
  BY <1>4 DEF Cache
<1>7. LET h == Queue(k, e, r, x) IN
      /\ h.lru = k.lru /\ h.free = k.free
      /\ h.chain = k.chain /\ h.wait = k.wait /\ h.go = k.go /\ h.done = k.done
      /\ h.changed = k.changed /\ h.inflight = k.inflight /\ h.clean = k.clean
      /\ h.toggle = k.toggle /\ h.clock = k.clock /\ h.panic = k.panic
      /\ h.latest = k.latest
  BY <1>4 DEF Cache
<1> QED
  BY <1>2, <1>5, <1>6, <1>7 DEF w, en, pw, QueueOf

-----------------------------------------------------------------------------
(* The counts.                                                             *)

IdleOf(en) == {e \in Entry : en[e].iocnt = 0}

\* The requests of an LTG can be counted.
LEMMA UsersFinite ==
  ASSUME NEW U \in SUBSET Req, NEW q, NEW x
  PROVE  /\ IsFiniteSet(UsersOf(U, q, x)) /\ Cardinality(UsersOf(U, q, x)) \in Nat
         /\ Cardinality(UsersOf(U, q, x)) <= Cardinality(Req)
<1>1. UsersOf(U, q, x) \subseteq Req
  BY DEF UsersOf
<1> QED
  BY <1>1, Consts, FS_Subset, FS_CardinalityType

\* The entries without requests can be counted.
LEMMA IdleFinite ==
  ASSUME NEW en
  PROVE  /\ IsFiniteSet(IdleOf(en)) /\ Cardinality(IdleOf(en)) \in Nat
         /\ Cardinality(IdleOf(en)) <= Cardinality(Entry)
         /\ Cardinality(IdleOf(en)) = 0 <=> IdleOf(en) = {}
<1>1. IdleOf(en) \subseteq Entry
  BY DEF IdleOf
<1> QED
  BY <1>1, Consts, FS_Subset, FS_CardinalityType, FS_EmptySet

\* From the counts follow the bounds on the counters.
LEMMA StructBounds ==
  ASSUME NEW k \in Cache, NEW q, NEW U \in SUBSET Req, Struct(k, q, U)
  PROVE  /\ k.free \in 0 .. Cardinality(Entry)
         /\ \A e \in Entry : k.ent[e].iocnt \in 0 .. Cardinality(Req)
<1>1. k.free = Cardinality(IdleOf(k.ent))
  BY DEF Struct, IdleOf
<1>2. Cardinality(Entry) \in Nat /\ Cardinality(Req) \in Nat
  BY Consts, FS_CardinalityType
<1>3. k.free \in 0 .. Cardinality(Entry)
  BY <1>1, <1>2, IdleFinite
<1>4. ASSUME NEW e \in Entry PROVE k.ent[e].iocnt \in 0 .. Cardinality(Req)
  <2>1. CASE e \in Hashed(k)
    <3>1. k.ent[e].iocnt = Cardinality(UsersOf(U, q, k.ent[e].ltg))
      BY <2>1 DEF Struct
    <3> QED
      BY <1>2, <3>1, UsersFinite
  <2>2. CASE e \notin Hashed(k)
    BY <1>2, <2>2 DEF Struct
  <2> QED
    BY <2>1, <2>2
<1> QED
  BY <1>3, <1>4

\* Whatever leaves the chain, the LTGs and the counters alone.
LEMMA StructFrame ==
  ASSUME NEW k, NEW n, NEW q, NEW o, NEW U, Struct(k, q, U), Hashed(k) \subseteq Entry,
         Hashed(n) = Hashed(k), n.free = k.free,
         \A e \in Entry : n.ent[e].ltg = k.ent[e].ltg /\ n.ent[e].iocnt = k.ent[e].iocnt,
         \A r \in U : o[r].ltg = q[r].ltg
  PROVE  Struct(n, o, U)
<1>1. \A x : UsersOf(U, o, x) = UsersOf(U, q, x)
  BY DEF UsersOf
<1>2. {e \in Entry : n.ent[e].iocnt = 0} = {e \in Entry : k.ent[e].iocnt = 0}
  OBVIOUS
<1>3. /\ \A e \in Hashed(n) : n.ent[e].ltg \in Ltg
      /\ \A e, d \in Hashed(n) : n.ent[e].ltg = n.ent[d].ltg => e = d
      /\ \A e \in Entry \ Hashed(n) : n.ent[e].iocnt = 0
  BY DEF Struct
<1>4. ASSUME NEW e \in Hashed(n)
      PROVE  n.ent[e].iocnt = Cardinality(UsersOf(U, o, n.ent[e].ltg))
  BY <1>1 DEF Struct
<1>5. \A r \in U : \E e \in Hashed(n) : n.ent[e].ltg = o[r].ltg
  BY DEF Struct
<1>6. n.free = Cardinality({e \in Entry : n.ent[e].iocnt = 0})
  BY <1>2 DEF Struct
<1> QED
  BY <1>3, <1>4, <1>5, <1>6 DEF Struct

\* The same, of requests that stay as they are.
LEMMA StructSame ==
  ASSUME NEW k, NEW n, NEW q, NEW U, Struct(k, q, U), Hashed(k) \subseteq Entry,
         Hashed(n) = Hashed(k), n.free = k.free,
         \A e \in Entry : n.ent[e].ltg = k.ent[e].ltg /\ n.ent[e].iocnt = k.ent[e].iocnt
  PROVE  Struct(n, q, U)
<1>1. \A r \in U : q[r].ltg = q[r].ltg
  OBVIOUS
<1> QED
  BY <1>1, StructFrame

\* A request more for entry e.
LEMMA StructJoin ==
  ASSUME NEW k \in Cache, NEW n, NEW q, NEW U \in SUBSET Req, NEW r \in Req \ U,
         NEW e \in Hashed(k),
         Struct(k, q, U), k.ent[e].ltg = q[r].ltg,
         Hashed(n) = Hashed(k), n.ent = [k.ent EXCEPT ![e].iocnt = @ + 1],
         n.free = IF k.ent[e].iocnt = 0 THEN k.free - 1 ELSE k.free
  PROVE  Struct(n, q, U \cup {r})
<1> DEFINE V == U \cup {r}
<1>1. /\ k.ent \in [Entry -> EntryT] /\ e \in Entry /\ Hashed(k) \subseteq Entry
      /\ k.ent[e].iocnt \in Nat /\ k.free \in Nat
  BY ChainSet, StructBounds
<1>2. /\ n.ent[e].iocnt = k.ent[e].iocnt + 1 /\ n.ent[e].ltg = k.ent[e].ltg
      /\ \A d \in Entry : d # e => n.ent[d] = k.ent[d]
  BY <1>1, CountChange
<1>3. \A d \in Entry : n.ent[d].ltg = k.ent[d].ltg
  BY <1>2
<1>4. \A d \in Hashed(k) : d # e => k.ent[d].ltg # q[r].ltg
  BY DEF Struct
<1>5. ASSUME NEW d \in Hashed(k)
      PROVE  n.ent[d].iocnt = Cardinality(UsersOf(V, q, n.ent[d].ltg))
  <2>1. k.ent[d].iocnt = Cardinality(UsersOf(U, q, k.ent[d].ltg))
    BY DEF Struct
  <2>2. CASE d = e
    <3>1. UsersOf(V, q, q[r].ltg) = UsersOf(U, q, q[r].ltg) \cup {r}
          /\ r \notin UsersOf(U, q, q[r].ltg)
      BY DEF UsersOf
    <3>2. Cardinality(UsersOf(V, q, q[r].ltg)) = Cardinality(UsersOf(U, q, q[r].ltg)) + 1
      BY <3>1, UsersFinite, FS_AddElement
    <3> QED
      BY <1>2, <2>1, <2>2, <3>2
  <2>3. CASE d # e
    <3>1. UsersOf(V, q, k.ent[d].ltg) = UsersOf(U, q, k.ent[d].ltg)
      BY <1>4, <2>3 DEF UsersOf
    <3> QED
      BY <1>1, <1>2, <2>1, <2>3, <3>1
  <2> QED
    BY <2>2, <2>3
<1>6. n.free = Cardinality(IdleOf(n.ent))
  <2>1. k.free = Cardinality(IdleOf(k.ent))
    BY DEF Struct, IdleOf
  <2>2. IdleOf(n.ent) = IdleOf(k.ent) \ {e}
    BY <1>1, <1>2 DEF IdleOf
  <2>3. CASE k.ent[e].iocnt = 0
    <3>1. e \in IdleOf(k.ent)
      BY <1>1, <2>3 DEF IdleOf
    <3> QED
      BY <2>1, <2>2, <2>3, <3>1, IdleFinite, FS_RemoveElement
  <2>4. CASE k.ent[e].iocnt # 0
    <3>1. e \notin IdleOf(k.ent)
      BY <2>4 DEF IdleOf
    <3> QED
      BY <2>1, <2>2, <2>4, <3>1
  <2> QED
    BY <2>3, <2>4
<1>7. \A s \in V : \E d \in Hashed(n) : n.ent[d].ltg = q[s].ltg
  BY <1>1, <1>3 DEF Struct
<1>8. \A d \in Entry \ Hashed(n) : n.ent[d].iocnt = 0
  BY <1>2 DEF Struct
<1>9. /\ \A d \in Hashed(n) : n.ent[d].ltg \in Ltg
      /\ \A d, f \in Hashed(n) : n.ent[d].ltg = n.ent[f].ltg => d = f
  BY <1>1, <1>3 DEF Struct
<1> HIDE DEF V
<1> QED
  BY <1>5, <1>6, <1>7, <1>8, <1>9 DEF Struct, IdleOf, V

\* A request less for entry e.
LEMMA StructLeave ==
  ASSUME NEW k \in Cache, NEW n, NEW q, NEW U \in SUBSET Req, NEW r \in U,
         NEW e \in Hashed(k),
         Struct(k, q, U), k.ent[e].ltg = q[r].ltg,
         Hashed(n) = Hashed(k), n.ent[e].iocnt = k.ent[e].iocnt - 1,
         \A d \in Entry : /\ n.ent[d].ltg = k.ent[d].ltg
                          /\ d # e => n.ent[d].iocnt = k.ent[d].iocnt,
         n.free = IF k.ent[e].iocnt = 1 THEN k.free + 1 ELSE k.free
  PROVE  Struct(n, q, U \ {r}) /\ k.ent[e].iocnt >= 1
<1> DEFINE V == U \ {r}
<1>1. /\ k.ent \in [Entry -> EntryT] /\ e \in Entry /\ Hashed(k) \subseteq Entry
      /\ k.ent[e].iocnt \in Nat /\ k.free \in Nat
  BY ChainSet, StructBounds
<1>4. \A d \in Hashed(k) : d # e => k.ent[d].ltg # q[r].ltg
  BY DEF Struct
<1>2. k.ent[e].iocnt = Cardinality(UsersOf(U, q, q[r].ltg))
  BY DEF Struct
<1>3. /\ UsersOf(V, q, q[r].ltg) = UsersOf(U, q, q[r].ltg) \ {r}
      /\ r \in UsersOf(U, q, q[r].ltg)
  BY DEF UsersOf
<1>10. Cardinality(UsersOf(V, q, q[r].ltg)) = k.ent[e].iocnt - 1 /\ k.ent[e].iocnt >= 1
  <2>1. /\ IsFiniteSet(UsersOf(U, q, q[r].ltg)) /\ Cardinality(UsersOf(U, q, q[r].ltg)) \in Nat
        /\ Cardinality(UsersOf(V, q, q[r].ltg)) \in Nat
    BY UsersFinite
  <2>2. Cardinality(UsersOf(V, q, q[r].ltg)) = Cardinality(UsersOf(U, q, q[r].ltg)) - 1
    <3> DEFINE S == UsersOf(U, q, q[r].ltg)
    <3>1. IsFiniteSet(S) /\ r \in S
      BY <1>3, <2>1
    <3>2. Cardinality(S \ {r}) = Cardinality(S) - 1
      BY <3>1, FS_RemoveElement
    <3> QED
      BY <1>3, <3>2
  <2> QED
    BY <1>2, <2>1, <2>2
<1>5. ASSUME NEW d \in Hashed(k)
      PROVE  n.ent[d].iocnt = Cardinality(UsersOf(V, q, n.ent[d].ltg))
  <2>1. CASE d = e
    BY <1>1, <1>10, <2>1
  <2>2. CASE d # e
    <3>1. UsersOf(V, q, k.ent[d].ltg) = UsersOf(U, q, k.ent[d].ltg)
      BY <1>4, <2>2 DEF UsersOf
    <3>2. k.ent[d].iocnt = Cardinality(UsersOf(U, q, k.ent[d].ltg))
      BY DEF Struct
    <3> QED
      BY <1>1, <2>2, <3>1, <3>2
  <2> QED
    BY <2>1, <2>2
<1>6. n.free = Cardinality(IdleOf(n.ent))
  <2>1. k.free = Cardinality(IdleOf(k.ent))
    BY DEF Struct, IdleOf
  <2>2. e \notin IdleOf(k.ent)
    BY <1>10 DEF IdleOf
  <2>3. CASE k.ent[e].iocnt = 1
    <3>1. IdleOf(n.ent) = IdleOf(k.ent) \cup {e}
      BY <1>1, <2>3 DEF IdleOf
    <3>2. IsFiniteSet(IdleOf(k.ent))
      BY IdleFinite
    <3>3. Cardinality(IdleOf(k.ent) \cup {e}) = Cardinality(IdleOf(k.ent)) + 1
      BY <2>2, <3>2, FS_AddElement
    <3> QED
      BY <2>1, <2>3, <3>1, <3>3
  <2>4. CASE k.ent[e].iocnt # 1
    <3>1. IdleOf(n.ent) = IdleOf(k.ent)
      BY <1>1, <1>10, <2>4 DEF IdleOf
    <3> QED
      BY <2>1, <2>4, <3>1
  <2> QED
    BY <2>3, <2>4
<1>7. \A s \in V : \E d \in Hashed(n) : n.ent[d].ltg = q[s].ltg
  BY <1>1 DEF Struct
<1>8. \A d \in Entry \ Hashed(n) : n.ent[d].iocnt = 0
  BY DEF Struct
<1>9. /\ \A d \in Hashed(n) : n.ent[d].ltg \in Ltg
      /\ \A d, f \in Hashed(n) : n.ent[d].ltg = n.ent[f].ltg => d = f
  BY <1>1 DEF Struct
<1> HIDE DEF V
<1> QED
  BY <1>5, <1>6, <1>7, <1>8, <1>9, <1>10 DEF Struct, IdleOf, V

\* An entry without requests leaves the chain.
LEMMA StructDrop ==
  ASSUME NEW k \in Cache, NEW n, NEW q, NEW U \in SUBSET Req, NEW e \in Entry,
         Struct(k, q, U), k.ent[e].iocnt = 0,
         Hashed(n) = Hashed(k) \ {e}, n.free = k.free, n.ent[e].iocnt = 0,
         \A d \in Entry : d # e => n.ent[d] = k.ent[d]
  PROVE  Struct(n, q, U)
<1>1. Hashed(k) \subseteq Entry
  BY ChainSet
<1>2. {d \in Entry : n.ent[d].iocnt = 0} = {d \in Entry : k.ent[d].iocnt = 0}
  OBVIOUS
<1>3. ASSUME NEW s \in U PROVE \E d \in Hashed(n) : n.ent[d].ltg = q[s].ltg
  <2>1. PICK d \in Hashed(k) : k.ent[d].ltg = q[s].ltg
    BY DEF Struct
  <2>2. ASSUME d = e PROVE FALSE
    <3>1. Cardinality(UsersOf(U, q, q[s].ltg)) = 0
      BY <2>1, <2>2 DEF Struct
    <3>2. s \in UsersOf(U, q, q[s].ltg)
      BY DEF UsersOf
    <3> QED
      BY <3>1, <3>2, UsersFinite, FS_EmptySet
  <2> QED
    BY <1>1, <2>1, <2>2
<1>4. \A d \in Hashed(n) : d # e /\ d \in Hashed(k) /\ n.ent[d] = k.ent[d]
  BY <1>1
<1> QED
  BY <1>1, <1>2, <1>3, <1>4 DEF Struct

\* An entry without requests is given to the first request for x.
LEMMA StructNew ==
  ASSUME NEW k \in Cache, NEW n, NEW q, NEW U \in SUBSET Req, NEW r \in Req \ U,
         NEW e \in Entry \ Hashed(k),
         Struct(k, q, U), q[r].ltg \in Ltg, \A d \in Hashed(k) : k.ent[d].ltg # q[r].ltg,
         Hashed(n) = Hashed(k) \cup {e}, n.free = k.free - 1,
         n.ent[e].iocnt = 1, n.ent[e].ltg = q[r].ltg,
         \A d \in Entry : d # e => n.ent[d] = k.ent[d]
  PROVE  Struct(n, q, U \cup {r})
<1> DEFINE V == U \cup {r}
<1>1. Hashed(k) \subseteq Entry /\ k.ent[e].iocnt = 0
  BY ChainSet DEF Struct
<1>2. UsersOf(V, q, q[r].ltg) = {r}
  BY DEF UsersOf, Struct
<1>3. ASSUME NEW d \in Hashed(n)
      PROVE  n.ent[d].iocnt = Cardinality(UsersOf(V, q, n.ent[d].ltg))
  <2>1. CASE d = e
    BY <1>2, <2>1, FS_Singleton
  <2>2. CASE d # e
    <3>1. d \in Hashed(k) /\ n.ent[d] = k.ent[d]
      BY <1>1, <2>2
    <3>2. UsersOf(V, q, k.ent[d].ltg) = UsersOf(U, q, k.ent[d].ltg)
      BY <3>1 DEF UsersOf
    <3> QED
      BY <3>1, <3>2 DEF Struct
  <2> QED
    BY <2>1, <2>2
<1>4. n.free = Cardinality(IdleOf(n.ent))
  <2>1. k.free = Cardinality(IdleOf(k.ent))
    BY DEF Struct, IdleOf
  <2>2. IdleOf(n.ent) = IdleOf(k.ent) \ {e} /\ e \in IdleOf(k.ent)
    BY <1>1 DEF IdleOf
  <2>3. IsFiniteSet(IdleOf(k.ent))
    BY IdleFinite
  <2>4. Cardinality(IdleOf(k.ent) \ {e}) = Cardinality(IdleOf(k.ent)) - 1
    BY <2>2, <2>3, FS_RemoveElement
  <2> QED
    BY <2>1, <2>2, <2>4
<1>5. \A d \in Hashed(k) : d # e /\ d \in Hashed(n) /\ n.ent[d] = k.ent[d]
  BY <1>1
<1>6. \A s \in V : \E d \in Hashed(n) : n.ent[d].ltg = q[s].ltg
  BY <1>5 DEF Struct
<1>7. \A d \in Entry \ Hashed(n) : n.ent[d].iocnt = 0
  BY DEF Struct
<1>8. /\ \A d \in Hashed(n) : n.ent[d].ltg \in Ltg
      /\ \A d, f \in Hashed(n) : n.ent[d].ltg = n.ent[f].ltg => d = f
  BY <1>5 DEF Struct
<1> HIDE DEF V
<1> QED
  BY <1>3, <1>4, <1>6, <1>7, <1>8 DEF Struct, IdleOf, V

-----------------------------------------------------------------------------
(* lv_checkcache.                                                          *)

\* The PV that lv_cache_queue finds holds a copy; it is the lowest mirror's, or one
\* that requests wait for already.
LEMMA PlaceType ==
  ASSUME NEW k, NEW x \in Ltg, MirrorsOf(x) # {}
  PROVE  /\ Place(k, x) \in PV /\ Holds(Place(k, x), x)
         /\ \/ Place(k, x) \notin missing /\ k.pvwait[Place(k, x)] # <<>>
            \/ Place(k, x) = PvOf[x, Lowest(MirrorsOf(x))]
<1>1. Piggyback(k, x) \subseteq MirrorsOf(x)
  BY DEF Piggyback
<1>2. CASE Piggyback(k, x) # {}
  <2>1. Highest(Piggyback(k, x)) \in Piggyback(k, x)
    BY <1>1, <1>2, LowestMirror
  <2>2. Place(k, x) = PvOf[x, Highest(Piggyback(k, x))]
    BY <1>2 DEF Place
  <2> QED
    BY <1>1, <2>1, <2>2, MirrorFacts DEF Piggyback
<1>3. CASE Piggyback(k, x) = {}
  <2>1. Lowest(MirrorsOf(x)) \in MirrorsOf(x)
    BY LowestMirror
  <2>2. Place(k, x) = PvOf[x, Lowest(MirrorsOf(x))]
    BY <1>3 DEF Place
  <2> QED
    BY <2>1, <2>2, MirrorFacts
<1> QED
  BY <1>2, <1>3

\* The place depends on the queues of the PVs only.
LEMMA SamePlace ==
  ASSUME NEW k, NEW n, NEW x, n.pvwait = k.pvwait
  PROVE  Place(n, x) = Place(k, x) /\ (NoPlace(n, x) <=> NoPlace(k, x))
  BY DEF Place, NoPlace, Piggyback

\* The three ways a request can go.
Waiting(k, r) == [k EXCEPT !.wait = Append(@, r)]
\* lv_checkcache has three cases: a hit, a miss with a free entry, and waiting.
LEMMA CheckCases ==
  ASSUME NEW k \in Cache, NEW r, NEW x
  PROVE  \/ Found(k, x) # {} /\ CheckCache(k, r, x) = Hit(k, Search(k, x), r)
         \/ /\ Found(k, x) = {} /\ k.inflight = NoPv /\ k.free > 0
            /\ CheckCache(k, r, x) = Miss(k, r, x)
         \/ /\ Found(k, x) = {} /\ ~(k.inflight = NoPv /\ k.free > 0)
            /\ CheckCache(k, r, x) = Waiting(k, r)
<1>1. ASSUME Found(k, x) # {} PROVE FROZEN \notin k.ent[Search(k, x)].state
  <2>1. k.ent[Search(k, x)].state \in {{}, {CHANGING}}
    BY <1>1, SearchFinds, ChainSet, EntryField
  <2> QED
    BY <2>1, Consts
<1> QED
  BY <1>1 DEF CheckCache, Waiting

\* The entry that lv_cache_new takes off the chain, and what is left.
Unhash(k, e) == IF e \in ToSet(k.chain) THEN [k EXCEPT !.chain = Without(@, e)] ELSE k
NewEntry(k, e, r, x) ==
    [Queue(Unhash(k, e), e, r, x) EXCEPT
        !.free = @ - 1, !.changed = TRUE,
        !.ent[e] = [@ EXCEPT !.ltg = x, !.iocnt = 1, !.state = {CHANGING}],
        !.chain = <<e>> \o @, !.lru = Mru(@, e)]
Refused(k, e, r) == [Unhash(k, e) EXCEPT !.done = @ \cup {r}]
Panicked(k) == [k EXCEPT !.panic = TRUE]

\* A miss panics, is refused, or takes an entry that is hashed or has no name.
LEMMA MissCases ==
  ASSUME NEW k, CacheOK(k), NEW r, NEW x
  PROVE  \/ /\ Miss(k, r, x) = Panicked(k)
            /\ Idle(k) = {} \/ Unhashed(k, Oldest(k))
         \/ \E e \in Entry :
               /\ k.ent[e].iocnt = 0 /\ (e \in Hashed(k) \/ k.ent[e].ltg = None)
               /\ \/ NoPlace(k, x) /\ Miss(k, r, x) = Refused(k, e, r)
                  \/ ~NoPlace(k, x) /\ Miss(k, r, x) = NewEntry(k, e, r, x)
<1>1. CASE Idle(k) = {} \/ Unhashed(k, Oldest(k))
  BY <1>1 DEF Miss, Panicked
<1>2. CASE ~(Idle(k) = {} \/ Unhashed(k, Oldest(k)))
  <2> DEFINE e == Oldest(k)
  <2>1. e \in Entry /\ k.ent[e].iocnt = 0 /\ (e \in Hashed(k) \/ k.ent[e].ltg = None)
    BY <1>2, OldestIdle DEF Unhashed, Hashed
  <2>2. Unhash(k, e).pvwait = k.pvwait
    BY DEF Unhash, CacheOK, Cache
  <2>3. NoPlace(Unhash(k, e), x) <=> NoPlace(k, x)
    BY <2>2, SamePlace
  <2>4. Miss(k, r, x) = IF NoPlace(Unhash(k, e), x) THEN Refused(k, e, r)
                        ELSE NewEntry(k, e, r, x)
    BY <1>2 DEF Miss, Refused, NewEntry, Unhash
  <2> HIDE DEF e
  <2> QED
    BY <2>1, <2>3, <2>4
<1> QED
  BY <1>1, <1>2

\* lv_cache_new takes the entry off its chain and leaves all else alone.
LEMMA UnhashFields ==
  ASSUME NEW k, CacheOK(k), NEW e \in Entry
  PROVE  LET u == Unhash(k, e) IN
         /\ u \in Cache /\ Hashed(u) = Hashed(k) \ {e} /\ IsInjective(u.chain)
         /\ u.lru = k.lru /\ u.ent = k.ent /\ u.free = k.free /\ u.pvwait = k.pvwait
         /\ u.go = k.go /\ u.wait = k.wait /\ u.writeq = k.writeq /\ u.done = k.done
         /\ u.changed = k.changed /\ u.inflight = k.inflight /\ u.clean = k.clean
         /\ u.toggle = k.toggle /\ u.clock = k.clock /\ u.panic = k.panic
         /\ u.latest = k.latest
<1>1. k \in Cache /\ IsInjective(k.chain) /\ k.chain \in Seq(Entry)
  BY ChainSet DEF CacheOK
<1>2. CASE e \in ToSet(k.chain)
  <2> DEFINE w == Without(k.chain, e)
  <2>1. w \in Seq(Entry) /\ ToSet(k.chain) = ToSet(w) \cup {e} /\ IsInjective(w)
        /\ e \notin ToSet(w)
    BY <1>1, <1>2, WithoutSet
  <2>2. Unhash(k, e) = [k EXCEPT !.chain = w]
    BY <1>2 DEF Unhash
  <2> HIDE DEF w
  <2>3. /\ [k EXCEPT !.chain = w] \in Cache /\ [k EXCEPT !.chain = w].chain = w
    BY <1>1, <2>1 DEF Cache
  <2>4. LET u == [k EXCEPT !.chain = w] IN
         /\ u.lru = k.lru /\ u.ent = k.ent /\ u.free = k.free /\ u.pvwait = k.pvwait
         /\ u.go = k.go /\ u.wait = k.wait /\ u.writeq = k.writeq /\ u.done = k.done
         /\ u.changed = k.changed /\ u.inflight = k.inflight /\ u.clean = k.clean
         /\ u.toggle = k.toggle /\ u.clock = k.clock /\ u.panic = k.panic
         /\ u.latest = k.latest
    BY <1>1 DEF Cache
  <2> QED
    BY <2>1, <2>2, <2>3, <2>4 DEF Hashed
<1>3. CASE e \notin ToSet(k.chain)
  BY <1>1, <1>3 DEF Unhash, Hashed
<1> QED
  BY <1>2, <1>3

\* A refusal for want of a place only takes the entry off its chain, and ends the request.
LEMMA RefusedFields ==
  ASSUME NEW k, CacheOK(k), NEW e \in Entry, NEW r \in Req
  PROVE  LET u == Refused(k, e, r) IN
         /\ u \in Cache /\ Hashed(u) = Hashed(k) \ {e} /\ IsInjective(u.chain)
         /\ u.lru = k.lru /\ u.ent = k.ent /\ u.free = k.free /\ u.pvwait = k.pvwait
         /\ u.go = k.go /\ u.wait = k.wait /\ u.writeq = k.writeq /\ u.done = k.done \cup {r}
         /\ u.changed = k.changed /\ u.inflight = k.inflight /\ u.clean = k.clean
         /\ u.toggle = k.toggle /\ u.clock = k.clock /\ u.panic = k.panic
         /\ u.latest = k.latest
<1> DEFINE v == Unhash(k, e)
           u == [v EXCEPT !.done = k.done \cup {r}]
<1>1. /\ v \in Cache /\ Hashed(v) = Hashed(k) \ {e} /\ IsInjective(v.chain)
      /\ v.lru = k.lru /\ v.ent = k.ent /\ v.free = k.free /\ v.pvwait = k.pvwait
      /\ v.go = k.go /\ v.wait = k.wait /\ v.writeq = k.writeq /\ v.done = k.done
      /\ v.changed = k.changed /\ v.inflight = k.inflight /\ v.clean = k.clean
      /\ v.toggle = k.toggle /\ v.clock = k.clock /\ v.panic = k.panic
      /\ v.latest = k.latest
  BY UnhashFields
<1>2. Refused(k, e, r) = u
  BY <1>1 DEF Refused
<1>5. k.done \cup {r} \in SUBSET Req
  BY DEF CacheOK, Cache
<1> HIDE DEF v
<1>3. /\ u \in Cache /\ u.chain = v.chain /\ u.done = k.done \cup {r}
  BY <1>1, <1>5 DEF Cache
<1>4. /\ u.lru = v.lru /\ u.ent = v.ent /\ u.free = v.free /\ u.pvwait = v.pvwait
      /\ u.go = v.go /\ u.wait = v.wait /\ u.writeq = v.writeq
      /\ u.changed = v.changed /\ u.inflight = v.inflight /\ u.clean = v.clean
      /\ u.toggle = v.toggle /\ u.clock = v.clock /\ u.panic = v.panic
      /\ u.latest = v.latest
  BY <1>1 DEF Cache
<1> QED
  BY <1>1, <1>2, <1>3, <1>4 DEF Hashed

NewEntryOf(n, k, e, r, x, p) ==
    /\ n \in Cache /\ Hashed(n) = Hashed(k) \cup {e} /\ IsInjective(n.chain)
    /\ ToSet(n.lru) = Entry /\ Len(n.lru) = Len(k.lru)
    /\ n.ent[e] = [ltg |-> x, iocnt |-> 1, state |-> {CHANGING}, pvol |-> p]
    /\ \A d \in Entry : d # e => n.ent[d] = k.ent[d]
    /\ n.free = k.free - 1 /\ n.changed = TRUE
    /\ n.pvwait = [k.pvwait EXCEPT ![p] = Append(@, r)]
    /\ n.writeq = IF Queued(k, p) THEN k.writeq ELSE Append(k.writeq, p)
    /\ n.go = k.go /\ n.wait = k.wait /\ n.done = k.done
    /\ n.inflight = k.inflight /\ n.clean = k.clean
    /\ n.toggle = k.toggle /\ n.clock = k.clock /\ n.panic = k.panic
    /\ n.latest = k.latest

\* What a miss does to the entry that it takes: it is CHANGING, on the chain and the most
\* recently used, the request is its only one and waits for its PV.
LEMMA NewEntryFields ==
  ASSUME NEW k, CacheOK(k), NEW e \in Entry, NEW r \in Req, NEW x \in Ltg,
         Place(k, x) \in PV
  PROVE  NewEntryOf(NewEntry(k, e, r, x), k, e, r, x, Place(k, x))
<1> DEFINE v == Unhash(k, e)
           w == Queue(v, e, r, x)
           p == Place(k, x)
<1>1. /\ v \in Cache /\ Hashed(v) = Hashed(k) \ {e} /\ IsInjective(v.chain)
      /\ v.lru = k.lru /\ v.ent = k.ent /\ v.free = k.free /\ v.pvwait = k.pvwait
      /\ v.go = k.go /\ v.wait = k.wait /\ v.writeq = k.writeq /\ v.done = k.done
      /\ v.changed = k.changed /\ v.inflight = k.inflight /\ v.clean = k.clean
      /\ v.toggle = k.toggle /\ v.clock = k.clock /\ v.panic = k.panic
      /\ v.latest = k.latest
  BY UnhashFields
<1>2. Place(v, x) = p
  BY <1>1, SamePlace
<1>3. Queued(v, p) <=> Queued(k, p)
  BY <1>1 DEF Queued
<1> HIDE DEF v, p
<1>4. QueueOf(w, v, e, r, p)
  <2>1. Place(v, x) \in PV
    BY <1>2 DEF p
  <2> QED
    BY <1>1, <1>2, <2>1, QueueFields
<1>15. /\ w \in Cache
       /\ w.ent = [v.ent EXCEPT ![e].pvol = p]
       /\ w.pvwait = [v.pvwait EXCEPT ![p] = Append(@, r)]
       /\ w.writeq = IF Queued(v, p) THEN v.writeq ELSE Append(v.writeq, p)
       /\ w.lru = v.lru /\ w.free = v.free
       /\ w.chain = v.chain /\ w.wait = v.wait /\ w.go = v.go /\ w.done = v.done
       /\ w.changed = v.changed /\ w.inflight = v.inflight /\ w.clean = v.clean
       /\ w.toggle = v.toggle /\ w.clock = v.clock /\ w.panic = v.panic
       /\ w.latest = v.latest
  BY <1>4 DEF QueueOf
<1> DEFINE en == [w.ent EXCEPT ![e] = [ltg |-> x, iocnt |-> 1, state |-> {CHANGING}, pvol |-> p]]
           ch == <<e>> \o w.chain
           l == Mru(w.lru, e)
<1>5. p \in PV
  BY DEF p
<1> HIDE DEF w
<1>6. w.ent \in [Entry -> EntryT] /\ w.ent[e].pvol = p
      /\ \A d \in Entry : d # e => w.ent[d] = k.ent[d]
  <2>1. v.ent \in [Entry -> EntryT] /\ v.ent = k.ent
    BY <1>1, ChainSet
  <2> QED
    BY <1>15, <1>5, <2>1, PvolChange
<1>7. /\ en \in [Entry -> EntryT] /\ \A d \in Entry : d # e => en[d] = k.ent[d]
      /\ en[e] = [ltg |-> x, iocnt |-> 1, state |-> {CHANGING}, pvol |-> p]
  BY <1>5, <1>6 DEF EntryT
<1>8. /\ ch \in Seq(Entry) /\ ToSet(ch) = Hashed(k) \cup {e} /\ IsInjective(ch)
  <2>1. w.chain \in Seq(Entry) /\ ToSet(w.chain) = Hashed(k) \ {e} /\ IsInjective(w.chain)
    BY <1>1, <1>15, ChainSet DEF Hashed
  <2>2. ch \in Seq(Entry) /\ ToSet(ch) = ToSet(w.chain) \cup {e} /\ IsInjective(ch)
    BY <2>1, ConsSet
  <2> QED
    BY <2>1, <2>2
<1>9. l \in Seq(Entry) /\ ToSet(l) = Entry /\ Len(l) = Len(k.lru)
  <2>1. w.lru = k.lru /\ k.lru \in Seq(Entry) /\ ToSet(k.lru) = Entry
    BY <1>1, <1>15, ChainSet DEF CacheOK
  <2> QED
    BY <2>1, UseSet
<1> DEFINE n == [w EXCEPT !.free = k.free - 1, !.changed = TRUE, !.ent = en,
                          !.chain = ch, !.lru = l]
<1>10. NewEntry(k, e, r, x) = n
  <2>1. en = [w.ent EXCEPT ![e] = [@ EXCEPT !.ltg = x, !.iocnt = 1, !.state = {CHANGING}]]
    <3>1. ASSUME NEW a \in EntryT
          PROVE  [a EXCEPT !.ltg = x, !.iocnt = 1, !.state = {CHANGING}]
                 = [ltg |-> x, iocnt |-> 1, state |-> {CHANGING}, pvol |-> a.pvol]
      <4> DEFINE B == [ltg : {x}, iocnt : {1}, state : {{CHANGING}}, pvol : {a.pvol}]
      <4>1. [a EXCEPT !.ltg = x, !.iocnt = 1, !.state = {CHANGING}] \in B
        BY DEF EntryT
      <4>2. \A b \in B : b = [ltg |-> x, iocnt |-> 1, state |-> {CHANGING}, pvol |-> a.pvol]
        OBVIOUS
      <4> HIDE DEF B
      <4> QED
        BY <4>1, <4>2
    <3>2. w.ent[e] \in EntryT
      BY <1>6
    <3> QED
      BY <1>6, <3>1, <3>2
  <2>2. NewEntry(k, e, r, x) =
          [w EXCEPT !.free = @ - 1, !.changed = TRUE,
             !.ent[e] = [@ EXCEPT !.ltg = x, !.iocnt = 1, !.state = {CHANGING}],
             !.chain = <<e>> \o @, !.lru = Mru(@, e)]
    BY DEF NewEntry, w, v
  <2>3. w.free = k.free
    BY <1>1, <1>15
  <2> HIDE DEF en
  <2>4. NewEntry(k, e, r, x) = [w EXCEPT !.free = k.free - 1, !.changed = TRUE,
             !.ent[e] = [@ EXCEPT !.ltg = x, !.iocnt = 1, !.state = {CHANGING}],
             !.chain = ch, !.lru = l]
    BY <2>2, <2>3
  <2> QED
    BY <2>1, <2>4
<1> HIDE DEF en, ch, l
<1>11. n \in Cache /\ n.free = k.free - 1 /\ n.changed = TRUE /\ n.ent = en /\ n.chain = ch
       /\ n.lru = l
  <2>1. k.free - 1 \in Int
    BY <1>1, <1>15 DEF Cache
  <2> QED
    BY <1>15, <1>7, <1>8, <1>9, <2>1 DEF Cache
<1>12. /\ n.pvwait = w.pvwait /\ n.writeq = w.writeq
       /\ n.go = w.go /\ n.wait = w.wait /\ n.done = w.done
       /\ n.inflight = w.inflight /\ n.clean = w.clean
       /\ n.toggle = w.toggle /\ n.clock = w.clock /\ n.panic = w.panic
       /\ n.latest = w.latest
  BY <1>15 DEF Cache
<1> HIDE DEF n
<1>13. /\ Hashed(n) = Hashed(k) \cup {e} /\ IsInjective(n.chain)
       /\ ToSet(n.lru) = Entry /\ Len(n.lru) = Len(k.lru)
       /\ n.ent[e] = [ltg |-> x, iocnt |-> 1, state |-> {CHANGING}, pvol |-> p]
       /\ \A d \in Entry : d # e => n.ent[d] = k.ent[d]
  BY <1>7, <1>8, <1>9, <1>11 DEF Hashed
<1>14. /\ n.pvwait = [k.pvwait EXCEPT ![p] = Append(@, r)]
       /\ n.writeq = IF Queued(k, p) THEN k.writeq ELSE Append(k.writeq, p)
       /\ n.go = k.go /\ n.wait = k.wait /\ n.done = k.done
       /\ n.inflight = k.inflight /\ n.clean = k.clean
       /\ n.toggle = k.toggle /\ n.clock = k.clock /\ n.panic = k.panic
       /\ n.latest = k.latest
  BY <1>1, <1>3, <1>15, <1>12
<1> QED
  BY <1>10, <1>11, <1>13, <1>14 DEF p, NewEntryOf

-----------------------------------------------------------------------------
(* Where the requests are.                                                 *)

\* Requests join queues and sets: what changes is said by the sets alone.
LEMMA CountedSets ==
  ASSUME NEW k, NEW n, NEW q, NEW H, NEW r \in Active(q) \ H
  PROVE  /\ ToSet(n.wait) = ToSet(k.wait) /\ n.done = k.done /\ r \notin ToSet(k.wait)
            /\ r \notin k.done
            => Counted(n, q, H) = Counted(k, q, H \cup {r}) \cup {r}
         /\ ToSet(n.wait) = ToSet(k.wait) \cup {r} /\ n.done = k.done
            => Counted(n, q, H) = Counted(k, q, H \cup {r})
         /\ ToSet(n.wait) = ToSet(k.wait) /\ n.done = k.done \cup {r}
            => Counted(n, q, H) = Counted(k, q, H \cup {r})
         /\ r \notin Counted(k, q, H \cup {r})
  BY DEF Counted

\* r waits for the record on p.
Parked(n, k, r, p) ==
    /\ n.wait = k.wait /\ n.go = k.go /\ n.done = k.done
    /\ n.pvwait = [k.pvwait EXCEPT ![p] = Append(@, r)]

\* A request of those being looked at is put on the queue of p.
Parking(n, k, q, H, G, r, L, p) ==
    /\ k \in Cache /\ n \in Cache /\ H \in SUBSET Req /\ r \in Req \ H /\ p \in PV
    /\ G = H \cup {r} /\ Held(q) \subseteq Active(q) /\ r \in Held(q)
    /\ Waits(k, q, G, L) /\ Parked(n, k, r, p)

\* A request that was being looked at may be put on the queue of a PV.
LEMMA WaitsPark ==
  ASSUME NEW k, NEW n, NEW q, NEW H, NEW G, NEW r, NEW L, NEW p, Parking(n, k, q, H, G, r, L, p)
  PROVE  Waits(n, q, H, L) /\ Counted(n, q, H) = Counted(k, q, G) \cup {r}
<1> USE DEF Parking
<1> DEFINE C == Counted(k, q, G)
<1>0. /\ n.wait = k.wait /\ n.go = k.go /\ n.done = k.done
      /\ n.pvwait = [k.pvwait EXCEPT ![p] = Append(@, r)]
  BY DEF Parked
<1>1. r \notin ToSet(k.wait) /\ r \notin k.done /\ r \notin C /\ r \notin k.go
  BY DEF Waits, Counted
<1>2. Counted(n, q, H) = C \cup {r}
  BY <1>0, <1>1, CountedSets
<1>3. k.pvwait \in [PV -> Seq(Req)]
  BY ChainSet
<1>4. \A o \in PV : r \notin ToSet(k.pvwait[o])
  BY <1>1 DEF Waits
<1>5. r \notin ToSet(L)
  BY <1>1 DEF Waits
<1>6. IsInjective(k.pvwait[p])
  BY DEF Waits
<1>7. ToSet(n.pvwait[p]) = ToSet(k.pvwait[p]) \cup {r} /\ IsInjective(n.pvwait[p])
  <2>1. n.pvwait[p] = Append(k.pvwait[p], r) /\ k.pvwait[p] \in Seq(Req)
    BY <1>0, <1>3
  <2> QED
    BY <1>4, <1>6, <2>1, AppendSet
<1>8. \A o \in PV : o # p => n.pvwait[o] = k.pvwait[o]
  BY <1>0, <1>3
<1> HIDE DEF C
<1>9. ASSUME NEW o \in PV
      PROVE  /\ IsInjective(n.pvwait[o])
             /\ ToSet(n.pvwait[o]) \subseteq (Held(q) \cap (C \cup {r})) \ n.go
             /\ ToSet(n.pvwait[o]) \cap ToSet(L) = {}
             /\ \A a \in PV : a # o => ToSet(n.pvwait[o]) \cap ToSet(n.pvwait[a]) = {}
  <2>1. \A a \in PV : /\ IsInjective(k.pvwait[a])
                      /\ ToSet(k.pvwait[a]) \subseteq (Held(q) \cap C) \ k.go
                      /\ ToSet(k.pvwait[a]) \cap ToSet(L) = {}
                      /\ \A b \in PV : b # a => ToSet(k.pvwait[a]) \cap ToSet(k.pvwait[b]) = {}
    BY DEF Waits, C
  <2>2. \A a \in PV : ToSet(n.pvwait[a]) = IF a = p THEN ToSet(k.pvwait[a]) \cup {r}
                                           ELSE ToSet(k.pvwait[a])
    BY <1>7, <1>8
  <2>3. IsInjective(n.pvwait[o])
    BY <1>7, <1>8, <2>1
  <2>4. ToSet(n.pvwait[o]) \subseteq (Held(q) \cap (C \cup {r})) \ n.go
    <3>1. n.go = k.go /\ r \notin k.go
      BY <1>0, <1>1
    <3>2. ToSet(n.pvwait[o]) \subseteq ToSet(k.pvwait[o]) \cup {r}
      BY <2>2
    <3>3. ToSet(k.pvwait[o]) \subseteq (Held(q) \cap C) \ k.go
      BY <2>1
    <3>4. r \in Held(q)
      OBVIOUS
    <3> QED
      BY <3>1, <3>2, <3>3, <3>4
  <2>5. ToSet(n.pvwait[o]) \cap ToSet(L) = {}
    BY <1>5, <2>1, <2>2
  <2>6. \A a \in PV : a # o => ToSet(n.pvwait[o]) \cap ToSet(n.pvwait[a]) = {}
    <3> SUFFICES ASSUME NEW a \in PV, a # o
                 PROVE  ToSet(n.pvwait[o]) \cap ToSet(n.pvwait[a]) = {}
      OBVIOUS
    <3>1. ToSet(k.pvwait[o]) \cap ToSet(k.pvwait[a]) = {}
      BY <2>1
    <3>2. r \notin ToSet(k.pvwait[o]) /\ r \notin ToSet(k.pvwait[a])
      BY <1>4
    <3>3. CASE o # p /\ a # p
      <4>1. ToSet(n.pvwait[o]) = ToSet(k.pvwait[o]) /\ ToSet(n.pvwait[a]) = ToSet(k.pvwait[a])
        BY <2>2, <3>3
      <4> QED
        BY <3>1, <4>1
    <3>4. CASE o = p
      <4>1. /\ ToSet(n.pvwait[o]) = ToSet(k.pvwait[o]) \cup {r}
            /\ ToSet(n.pvwait[a]) = ToSet(k.pvwait[a])
        BY <2>2, <3>4
      <4> QED
        BY <3>1, <3>2, <4>1
    <3>5. CASE a = p
      <4>1. /\ ToSet(n.pvwait[o]) = ToSet(k.pvwait[o])
            /\ ToSet(n.pvwait[a]) = ToSet(k.pvwait[a]) \cup {r}
        BY <2>2, <3>5
      <4> QED
        BY <3>1, <3>2, <4>1
    <3> QED
      BY <3>3, <3>4, <3>5
  <2> QED
    BY <2>3, <2>4, <2>5, <2>6
<1>10. /\ IsInjective(n.wait) /\ ToSet(n.wait) \cap H = {}
       /\ ToSet(n.wait) \cup H \cup n.done \cup n.go \subseteq Held(q)
       /\ n.go \subseteq C \cup {r} /\ n.done \cap (ToSet(n.wait) \cup H) = {}
       /\ IsInjective(L) /\ ToSet(L) \subseteq (Held(q) \cap (C \cup {r})) \ n.go
  BY <1>0 DEF Waits, C
<1> QED
  BY <1>2, <1>9, <1>10 DEF Waits, C

\* Whatever leaves the queues of PVs alone.
LEMMA WaitsFrame ==
  ASSUME NEW k, NEW n, NEW q, NEW G, NEW H, NEW L,
         Waits(k, q, G, L), n.pvwait = k.pvwait,
         Counted(k, q, G) \subseteq Counted(n, q, H),
         k.go \subseteq n.go, (n.go \ k.go) \cap Counted(k, q, G) = {},
         IsInjective(n.wait), ToSet(n.wait) \cap H = {},
         ToSet(n.wait) \cup H \cup n.done \cup n.go \subseteq Held(q),
         n.go \subseteq Counted(n, q, H), n.done \cap (ToSet(n.wait) \cup H) = {}
  PROVE  Waits(n, q, H, L)
<1>1. \A S : S \subseteq (Held(q) \cap Counted(k, q, G)) \ k.go
             => S \subseteq (Held(q) \cap Counted(n, q, H)) \ n.go
  OBVIOUS
<1>2. \A p \in PV : /\ IsInjective(n.pvwait[p])
                    /\ ToSet(n.pvwait[p]) \subseteq (Held(q) \cap Counted(n, q, H)) \ n.go
                    /\ ToSet(n.pvwait[p]) \cap ToSet(L) = {}
                    /\ \A o \in PV : o # p => ToSet(n.pvwait[p]) \cap ToSet(n.pvwait[o]) = {}
  BY <1>1 DEF Waits
<1>3. IsInjective(L) /\ ToSet(L) \subseteq (Held(q) \cap Counted(n, q, H)) \ n.go
  BY <1>1 DEF Waits
<1> QED
  BY <1>2, <1>3 DEF Waits

\* lv_checkcache keeps the counts and the places: the request joins the users of an
\* entry, waits for one, or is refused.
LEMMA CheckStruct ==
  ASSUME NEW k, CacheOK(k), NEW q, ReqOK(q), NEW H \in SUBSET Req, NEW r \in Req \ H,
         NEW L \in Seq(Req), q[r].at = "held",
         Struct(k, q, Counted(k, q, H \cup {r})), Waits(k, q, H \cup {r}, L)
  PROVE  LET n == CheckCache(k, r, q[r].ltg) IN
         /\ CacheOK(n) /\ n.go \cup n.done \subseteq Held(q)
         /\ ~n.panic => Struct(n, q, Counted(n, q, H)) /\ Waits(n, q, H, L)
<1> DEFINE x == q[r].ltg
           n == CheckCache(k, r, x)
           C == Counted(k, q, H \cup {r})
<1>1. /\ k \in Cache /\ x \in Ltg /\ r \in Active(q) \ H /\ r \in Held(q)
      /\ Held(q) \subseteq Active(q) /\ C \in SUBSET Req /\ ToSet(k.lru) = Entry
      /\ r \in Held(q) \ H /\ k.ent \in [Entry -> EntryT]
  BY ChainSet DEF CacheOK, ReqOK, Active, Held, Counted
<1>2. r \notin C /\ r \notin ToSet(k.wait) /\ r \notin k.done
  BY <1>1 DEF Waits, Counted
<1>3. ASSUME NEW m, m \in Cache, ToSet(m.lru) = Entry, Len(m.lru) = Len(k.lru),
             IsInjective(m.chain), IsInjective(m.writeq), NEW U \in SUBSET Req, Struct(m, q, U),
             \A e \in Entry : m.ent[e].state = {CHANGING} => m.ent[e].pvol \in PV
      PROVE  CacheOK(m)
  BY <1>3, StructBounds DEF CacheOK
<1>7. ASSUME NEW m \in Cache, NEW p \in PV, Parked(m, k, r, p)
      PROVE  Waits(m, q, H, L) /\ Counted(m, q, H) = C \cup {r}
  <2>1. Waits(m, q, H, L) /\ Counted(m, q, H) = Counted(k, q, H \cup {r}) \cup {r}
    <3>1. /\ k \in Cache /\ m \in Cache /\ r \in Held(q) /\ Held(q) \subseteq Active(q)
          /\ Waits(k, q, H \cup {r}, L)
      BY <1>1, <1>7
    <3>2. H \in SUBSET Req /\ r \in Req \ H
      OBVIOUS
    <3> HIDE DEF n, x, C
    <3> QED
      <4> DEFINE G == H \cup {r}
      <4>1. Waits(k, q, G, L) /\ G = H \cup {r}
        BY <3>1
      <4> HIDE DEF G
      <4>2. Parking(m, k, q, H, G, r, L, p)
        BY <1>7, <3>1, <3>2, <4>1 DEF Parking
      <4>3. Waits(m, q, H, L) /\ Counted(m, q, H) = Counted(k, q, G) \cup {r}
        BY ONLY <4>2, WaitsPark
      <4> QED
        BY <4>3 DEF G
  <2> QED
    BY <2>1
<1>8. ASSUME NEW m, Waits(m, q, H, L) PROVE m.go \cup m.done \subseteq Held(q)
  BY <1>8 DEF Waits
<1> HIDE DEF n, x, C
<1>4. CASE Found(k, x) # {} /\ n = Hit(k, Search(k, x), r)
  <2> DEFINE e == Search(k, x)
  <2>1. e \in Hashed(k) /\ e \in Entry /\ k.ent[e].ltg = x
    BY <1>1, <1>4, SearchFinds
  <2> HIDE DEF e
  <2>2. k.ent[e].state = {CHANGING} => k.ent[e].pvol \in PV
    BY <2>1 DEF CacheOK
  <2>8. HitOf(n, k, e, r)
    <3>1. n = Hit(k, e, r)
      BY <1>4 DEF e
    <3>2. k \in Cache /\ e \in Entry /\ r \in Req /\ ToSet(k.lru) = Entry
      BY <1>1, <2>1
    <3> QED
      BY <2>2, <3>1, <3>2, HitFields
  <2>3. /\ n \in Cache /\ ToSet(n.lru) = Entry /\ Len(n.lru) = Len(k.lru)
        /\ n.ent = [k.ent EXCEPT ![e].iocnt = @ + 1]
        /\ n.free = IF k.ent[e].iocnt = 0 THEN k.free - 1 ELSE k.free
        /\ n.pvwait = IF k.ent[e].state = {CHANGING}
                      THEN [k.pvwait EXCEPT ![k.ent[e].pvol] = Append(@, r)] ELSE k.pvwait
        /\ n.go = IF k.ent[e].state = {CHANGING} THEN k.go ELSE k.go \cup {r}
        /\ n.chain = k.chain /\ n.wait = k.wait /\ n.writeq = k.writeq /\ n.done = k.done
    BY <2>8 DEF HitOf
  <2>4. Counted(n, q, H) = C \cup {r}
    BY <1>1, <1>2, <2>3 DEF Counted, C
  <2>5. Struct(n, q, C \cup {r})
    <3>1. Hashed(n) = Hashed(k) /\ r \in Req \ C /\ Struct(k, q, C)
      BY <1>2, <2>3 DEF Hashed, C
    <3> QED
      BY <1>1, <2>1, <2>3, <3>1, StructJoin DEF x
  <2>6. CacheOK(n)
    <3>1. \A d \in Entry : n.ent[d].state = {CHANGING} => n.ent[d].pvol \in PV
      <4>1. k.ent \in [Entry -> EntryT] /\ k.ent[e].iocnt + 1 \in Int
        BY <1>1, <2>1, EntryField
      <4> QED
        <5>1. n.ent = [k.ent EXCEPT ![e].iocnt = k.ent[e].iocnt + 1]
          BY <2>3
        <5>2. /\ n.ent[e].state = k.ent[e].state /\ n.ent[e].pvol = k.ent[e].pvol
              /\ \A d \in Entry : d # e => n.ent[d] = k.ent[d]
          BY <2>1, <4>1, <5>1, CountChange
        <5>3. \A d \in Entry : k.ent[d].state = {CHANGING} => k.ent[d].pvol \in PV
          BY DEF CacheOK
        <5> QED
          BY <5>2, <5>3
    <3>2. C \cup {r} \in SUBSET Req /\ IsInjective(n.chain) /\ IsInjective(n.writeq)
      BY <1>1, <2>3 DEF CacheOK
    <3> QED
      BY <1>3, <2>3, <2>5, <3>1, <3>2
  <2>7. Waits(n, q, H, L)
    <3>1. CASE k.ent[e].state = {CHANGING}
      <4>1. n.pvwait = [k.pvwait EXCEPT ![k.ent[e].pvol] = Append(@, r)] /\ n.go = k.go
            /\ k.ent[e].pvol \in PV /\ n.wait = k.wait /\ n.done = k.done
        BY <2>2, <2>3, <3>1
      <4> DEFINE p == k.ent[e].pvol
      <4>2. p \in PV /\ n.pvwait = [k.pvwait EXCEPT ![p] = Append(@, r)]
        BY <4>1
      <4>4. Parked(n, k, r, p) /\ p \in PV
        BY <2>3, <4>1, <4>2 DEF Parked
      <4> HIDE DEF p
      <4> QED
        BY <1>7, <2>3, <4>4
    <3>2. CASE k.ent[e].state # {CHANGING}
      <4>1. n.pvwait = k.pvwait /\ n.go = k.go \cup {r}
        BY <2>3, <3>2
      <4>2. /\ IsInjective(k.wait) /\ ToSet(k.wait) \cap (H \cup {r}) = {}
            /\ ToSet(k.wait) \cup (H \cup {r}) \cup k.done \cup k.go \subseteq Held(q)
            /\ k.go \subseteq C /\ k.done \cap (ToSet(k.wait) \cup (H \cup {r})) = {}
        BY DEF Waits, C
      <4> QED
        <5>1. /\ Waits(k, q, H \cup {r}, L) /\ n.pvwait = k.pvwait
              /\ Counted(k, q, H \cup {r}) \subseteq Counted(n, q, H)
              /\ k.go \subseteq n.go /\ (n.go \ k.go) \cap Counted(k, q, H \cup {r}) = {}
          BY <1>2, <2>4, <4>1 DEF C
        <5>2. /\ IsInjective(n.wait) /\ ToSet(n.wait) \cap H = {}
              /\ ToSet(n.wait) \cup H \cup n.done \cup n.go \subseteq Held(q)
              /\ n.go \subseteq Counted(n, q, H) /\ n.done \cap (ToSet(n.wait) \cup H) = {}
          BY <1>1, <2>3, <2>4, <4>1, <4>2
        <5> QED
          BY <5>1, <5>2, WaitsFrame
    <3> QED
      BY <3>1, <3>2
  <2> QED
    BY <1>8, <2>4, <2>5, <2>6, <2>7 DEF n, x
<1>5. CASE Found(k, x) = {} /\ k.free > 0 /\ n = Miss(k, r, x)
  <2>1. CASE n = Panicked(k)
    <3>1. n = [k EXCEPT !.panic = TRUE]
      BY <2>1 DEF Panicked
    <3>2. n \in Cache /\ n.panic /\ n.lru = k.lru /\ n.chain = k.chain /\ n.free = k.free
          /\ n.ent = k.ent /\ n.writeq = k.writeq /\ n.go = k.go /\ n.done = k.done
      BY <1>1, <3>1 DEF Cache
    <3>3. k.go \cup k.done \subseteq Held(q)
      BY DEF Waits
    <3> QED
      BY <3>2, <3>3 DEF CacheOK, n, x
  <2>2. ASSUME NEW e \in Entry, k.ent[e].iocnt = 0, NoPlace(k, x), n = Refused(k, e, r)
        PROVE  CacheOK(n) /\ Struct(n, q, Counted(n, q, H)) /\ Waits(n, q, H, L)
    <3>1. /\ n \in Cache /\ Hashed(n) = Hashed(k) \ {e} /\ IsInjective(n.chain)
          /\ n.lru = k.lru /\ n.ent = k.ent /\ n.free = k.free /\ n.pvwait = k.pvwait
          /\ n.go = k.go /\ n.wait = k.wait /\ n.writeq = k.writeq /\ n.done = k.done \cup {r}
      BY <1>1, <2>2, RefusedFields
    <3>2. Counted(n, q, H) = C
      BY <1>1, <1>2, <3>1 DEF Counted, C
    <3>3. Struct(n, q, C)
      BY <1>1, <2>2, <3>1, StructDrop DEF C
    <3>4. CacheOK(n)
      BY <3>1 DEF CacheOK
    <3>5. Waits(n, q, H, L)
      <4>1. /\ IsInjective(k.wait) /\ ToSet(k.wait) \cap (H \cup {r}) = {}
            /\ ToSet(k.wait) \cup (H \cup {r}) \cup k.done \cup k.go \subseteq Held(q)
            /\ k.go \subseteq C /\ k.done \cap (ToSet(k.wait) \cup (H \cup {r})) = {}
        BY DEF Waits, C
      <4> QED
        <5>1. /\ Waits(k, q, H \cup {r}, L) /\ n.pvwait = k.pvwait
              /\ Counted(k, q, H \cup {r}) \subseteq Counted(n, q, H)
              /\ k.go \subseteq n.go /\ (n.go \ k.go) \cap Counted(k, q, H \cup {r}) = {}
          BY <3>1, <3>2 DEF C
        <5>2. /\ IsInjective(n.wait) /\ ToSet(n.wait) \cap H = {}
              /\ ToSet(n.wait) \cup H \cup n.done \cup n.go \subseteq Held(q)
              /\ n.go \subseteq Counted(n, q, H) /\ n.done \cap (ToSet(n.wait) \cup H) = {}
          BY <1>1, <1>2, <3>1, <3>2, <4>1
        <5> QED
          BY <5>1, <5>2, WaitsFrame
    <3> QED
      BY <3>2, <3>3, <3>4, <3>5
  <2>3. ASSUME NEW e \in Entry, k.ent[e].iocnt = 0, ~NoPlace(k, x), n = NewEntry(k, e, r, x)
        PROVE  CacheOK(n) /\ Struct(n, q, Counted(n, q, H)) /\ Waits(n, q, H, L)
    <3> DEFINE p == Place(k, x)
    <3>1. p \in PV
      BY <1>1, <2>3, PlaceType DEF NoPlace
    <3>6. NewEntryOf(n, k, e, r, x, p)
      <4>1. n = NewEntry(k, e, r, x) /\ x \in Ltg /\ Place(k, x) \in PV
        BY <1>1, <2>3, <3>1
      <4> QED
        BY <4>1, NewEntryFields
    <3>2. /\ n \in Cache /\ Hashed(n) = Hashed(k) \cup {e} /\ IsInjective(n.chain)
          /\ ToSet(n.lru) = Entry /\ Len(n.lru) = Len(k.lru)
          /\ n.ent[e] = [ltg |-> x, iocnt |-> 1, state |-> {CHANGING}, pvol |-> p]
          /\ \A d \in Entry : d # e => n.ent[d] = k.ent[d]
          /\ n.free = k.free - 1
          /\ n.pvwait = [k.pvwait EXCEPT ![p] = Append(@, r)]
          /\ n.writeq = IF Queued(k, p) THEN k.writeq ELSE Append(k.writeq, p)
          /\ n.go = k.go /\ n.wait = k.wait /\ n.done = k.done
      BY <3>6 DEF NewEntryOf
    <3> HIDE DEF p
    <3>3. Waits(n, q, H, L) /\ Counted(n, q, H) = C \cup {r}
      <4>1. Parked(n, k, r, p)
        BY <3>2 DEF Parked
      <4> QED
        BY <1>7, <3>1, <3>2, <4>1
    <3>4. Struct(n, q, C \cup {r})
      <4> DEFINE u == Unhash(k, e)
      <4>1. u \in Cache /\ Hashed(u) = Hashed(k) \ {e} /\ u.ent = k.ent /\ u.free = k.free
        BY UnhashFields
      <4> HIDE DEF u
      <4>2. Struct(u, q, C)
        <5>1. /\ k \in Cache /\ C \in SUBSET Req /\ e \in Entry /\ Struct(k, q, C)
              /\ k.ent[e].iocnt = 0
          BY <1>1, <2>3 DEF C
        <5>2. /\ Hashed(u) = Hashed(k) \ {e} /\ u.free = k.free /\ u.ent[e].iocnt = 0
              /\ \A d \in Entry : d # e => u.ent[d] = k.ent[d]
          BY <4>1, <5>1
        <5> QED
          BY ONLY <5>1, <5>2, StructDrop
      <4>3. \A d \in Hashed(u) : u.ent[d].ltg # q[r].ltg
        BY <1>1, <1>5, <4>1, SearchFinds DEF x
      <4>4. /\ Hashed(n) = Hashed(u) \cup {e} /\ n.free = u.free - 1
            /\ n.ent[e].iocnt = 1 /\ n.ent[e].ltg = q[r].ltg
            /\ \A d \in Entry : d # e => n.ent[d] = u.ent[d]
            /\ e \in Entry \ Hashed(u) /\ r \in Req \ C /\ q[r].ltg \in Ltg
        BY <1>1, <1>2, <3>2, <4>1 DEF x
      <4>5. u \in Cache /\ C \in SUBSET Req
        BY <1>1, <4>1
      <4> QED
        BY ONLY <4>2, <4>3, <4>4, <4>5, StructNew
    <3>5. CacheOK(n)
      <4>1. \A d \in Entry : n.ent[d].state = {CHANGING} => n.ent[d].pvol \in PV
        BY <3>1, <3>2 DEF CacheOK
      <4>2. IsInjective(n.writeq)
        <5>1. CASE Queued(k, p)
          BY <3>2, <5>1 DEF CacheOK
        <5>2. CASE ~Queued(k, p)
          <6>1. k.writeq \in Seq(PV) /\ IsInjective(k.writeq)
            BY <1>1, ChainSet DEF CacheOK
          <6>2. p \notin ToSet(k.writeq)
            BY <5>2, <6>1, SeqSet DEF Queued
          <6> QED
            BY <3>1, <3>2, <5>2, <6>1, <6>2, AppendSet
        <5> QED
          BY <5>1, <5>2
      <4>3. C \cup {r} \in SUBSET Req
        BY <1>1
      <4> QED
        BY <1>3, <3>2, <3>4, <4>1, <4>2, <4>3
    <3> QED
      BY <3>3, <3>4, <3>5
  <2> QED
    BY <1>5, <1>8, <2>1, <2>2, <2>3, MissCases DEF n, x
<1>6. CASE n = Waiting(k, r)
  <2> DEFINE w == Append(k.wait, r)
  <2>1. /\ w \in Seq(Req) /\ ToSet(w) = ToSet(k.wait) \cup {r} /\ IsInjective(w)
    <3>1. k.wait \in Seq(Req) /\ IsInjective(k.wait) /\ r \notin ToSet(k.wait)
      BY <1>1, <1>2, ChainSet DEF Waits
    <3> QED
      BY <3>1, AppendSet
  <2>2. n = [k EXCEPT !.wait = w]
    BY <1>6 DEF Waiting
  <2> HIDE DEF w
  <2>3. /\ n \in Cache /\ n.wait = w /\ n.lru = k.lru /\ n.chain = k.chain /\ n.free = k.free
        /\ n.ent = k.ent /\ n.writeq = k.writeq /\ n.done = k.done /\ n.go = k.go
        /\ n.pvwait = k.pvwait
    BY <1>1, <2>1, <2>2 DEF Cache
  <2>4. Counted(n, q, H) = C
    BY <1>1, <1>2, <2>1, <2>3 DEF Counted, C
  <2>5. CacheOK(n)
    BY <2>3 DEF CacheOK
  <2>6. Struct(n, q, C)
    BY <1>1, <2>3, StructFrame, ChainSet DEF Hashed, C
  <2>7. Waits(n, q, H, L)
    <3>2. /\ IsInjective(k.wait) /\ ToSet(k.wait) \cap (H \cup {r}) = {}
          /\ ToSet(k.wait) \cup (H \cup {r}) \cup k.done \cup k.go \subseteq Held(q)
          /\ k.go \subseteq C /\ k.done \cap (ToSet(k.wait) \cup (H \cup {r})) = {}
      BY DEF Waits, C
    <3> QED
      <4>1. /\ Waits(k, q, H \cup {r}, L) /\ n.pvwait = k.pvwait
            /\ Counted(k, q, H \cup {r}) \subseteq Counted(n, q, H)
            /\ k.go \subseteq n.go /\ (n.go \ k.go) \cap Counted(k, q, H \cup {r}) = {}
        BY <2>3, <2>4 DEF C
      <4>2. /\ IsInjective(n.wait) /\ ToSet(n.wait) \cap H = {}
            /\ ToSet(n.wait) \cup H \cup n.done \cup n.go \subseteq Held(q)
            /\ n.go \subseteq Counted(n, q, H) /\ n.done \cap (ToSet(n.wait) \cup H) = {}
        BY <1>1, <1>2, <2>1, <2>3, <2>4, <3>2
      <4> QED
        BY <4>1, <4>2, WaitsFrame
  <2> QED
    BY <1>8, <2>4, <2>5, <2>6, <2>7 DEF n, x
<1> QED
  BY <1>1, <1>4, <1>5, <1>6, CheckCases DEF n, x

-----------------------------------------------------------------------------
(* The other operations.                                                   *)

\* What an operation leaves alone.
SameEntries(n, k) == n.ent = k.ent /\ n.lru = k.lru /\ n.chain = k.chain /\ n.free = k.free
SameQueues(n, k) == n.wait = k.wait /\ n.pvwait = k.pvwait /\ n.go = k.go /\ n.done = k.done
SameRecord(n, k) ==
    /\ n.changed = k.changed /\ n.inflight = k.inflight /\ n.toggle = k.toggle
    /\ n.clock = k.clock

\* What leaves the entries alone keeps Struct.
LEMMA EntriesFrame ==
  ASSUME NEW k, CacheOK(k), NEW n \in Cache, SameEntries(n, k), IsInjective(n.writeq)
  PROVE  /\ CacheOK(n) /\ Hashed(n) = Hashed(k) /\ Named(n) = Named(k)
         /\ \A q, U : Struct(k, q, U) => Struct(n, q, U)
<1>1. CacheOK(n) /\ Hashed(n) = Hashed(k) /\ Named(n) = Named(k)
  BY DEF CacheOK, SameEntries, Hashed, Named
<1>2. ASSUME NEW q, NEW U, Struct(k, q, U) PROVE Struct(n, q, U)
  BY <1>1, <1>2 DEF Struct, SameEntries
<1> QED
  BY <1>1, <1>2

\* What leaves the queues alone keeps Waits.
LEMMA QueuesFrame ==
  ASSUME NEW k, NEW n, NEW q, NEW H, NEW L, SameQueues(n, k)
  PROVE  /\ Waits(k, q, H, L) => Waits(n, q, H, L)
         /\ Counted(n, q, H) = Counted(k, q, H)
<1>1. Counted(n, q, H) = Counted(k, q, H)
  BY DEF Counted, SameQueues
<1>2. ASSUME Waits(k, q, H, L) PROVE Waits(n, q, H, L)
  BY <1>1, <1>2 DEF Waits, SameQueues
<1> QED
  BY <1>1, <1>2

\* Settle: sched_Q and done_Q are passed on.
Settled(k) == [k EXCEPT !.go = {}, !.done = {}]
Passed(k, q) ==
    [r \in Req |-> IF r \in k.done THEN NoReq
                   ELSE IF r \in k.go THEN [q[r] EXCEPT !.at = "below"] ELSE q[r]]

\* Requests that have been let go leave the cache.
LEMMA SettledFields ==
  ASSUME NEW k \in Cache
  PROVE  /\ Settled(k) \in Cache /\ Settled(k).go = {} /\ Settled(k).done = {}
         /\ SameEntries(Settled(k), k) /\ SameRecord(Settled(k), k)
         /\ Settled(k).wait = k.wait /\ Settled(k).pvwait = k.pvwait
         /\ Settled(k).writeq = k.writeq /\ Settled(k).clean = k.clean
         /\ Settled(k).panic = k.panic /\ Settled(k).latest = k.latest
<1>1. Settled(k) \in Cache /\ Settled(k).go = {} /\ Settled(k).done = {}
  BY DEF Settled, Cache
<1>2. /\ SameEntries(Settled(k), k) /\ SameRecord(Settled(k), k)
      /\ Settled(k).wait = k.wait /\ Settled(k).pvwait = k.pvwait
      /\ Settled(k).writeq = k.writeq /\ Settled(k).clean = k.clean
      /\ Settled(k).panic = k.panic /\ Settled(k).latest = k.latest
  BY DEF Settled, Cache, SameEntries, SameRecord
<1> QED
  BY <1>1, <1>2

\* Those let go are below, and those refused are idle.
LEMMA PassedRequests ==
  ASSUME NEW k \in Cache, NEW q, ReqOK(q), k.go \cup k.done \subseteq Held(q)
  PROVE  /\ ReqOK(Passed(k, q))
         /\ Active(Passed(k, q)) = Active(q) \ k.done
         /\ Below(Passed(k, q)) = (Below(q) \cup k.go) \ k.done
         /\ Held(Passed(k, q)) = (Held(q) \ k.go) \ k.done
         /\ \A r \in Req \ k.done : Passed(k, q)[r].ltg = q[r].ltg
<1> DEFINE o == Passed(k, q)
           T == [at : {"idle", "held", "below"}, ltg : Ltg \cup {None}]
<1>1. q \in [Req -> T] /\ \A r \in Active(q) : q[r].ltg \in Ltg
  BY DEF ReqOK, Requests
<1>2. ASSUME NEW r \in Req
      PROVE  /\ o[r] \in T
             /\ r \in k.done => o[r].at = "idle"
             /\ r \in k.go \ k.done => o[r].at = "below" /\ o[r].ltg = q[r].ltg
             /\ r \notin k.go \cup k.done => o[r] = q[r]
  <2>1. q[r] \in T
    BY <1>1
  <2>2. [q[r] EXCEPT !.at = "below"] \in T /\ [q[r] EXCEPT !.at = "below"].at = "below"
        /\ [q[r] EXCEPT !.at = "below"].ltg = q[r].ltg
    BY <2>1
  <2>3. NoReq \in T /\ NoReq.at = "idle"
    BY DEF NoReq
  <2> HIDE DEF T
  <2>4. o[r] = IF r \in k.done THEN NoReq
               ELSE IF r \in k.go THEN [q[r] EXCEPT !.at = "below"] ELSE q[r]
    BY DEF Passed
  <2> QED
    BY <2>1, <2>2, <2>3, <2>4
<1>3. o \in [Req -> T]
  <2>1. o = [r \in Req |-> o[r]]
    BY DEF Passed
  <2> HIDE DEF o, T
  <2> QED
    BY <1>2, <2>1
<1>4. \A r \in Req : q[r].at \in {"idle", "held", "below"}
  BY <1>1
<1> HIDE DEF o, T
<1>5. /\ Active(o) = Active(q) \ k.done
      /\ Below(o) = (Below(q) \cup k.go) \ k.done
      /\ Held(o) = (Held(q) \ k.go) \ k.done
  BY <1>2, <1>4 DEF Active, Below, Held
<1>6. \A r \in Req \ k.done : o[r].ltg = q[r].ltg
  BY <1>2
<1>7. ReqOK(o)
  <2>1. \A r \in Active(o) : o[r].ltg \in Ltg
    BY <1>1, <1>5, <1>6 DEF Active
  <2> QED
    BY <1>3, <2>1 DEF ReqOK, Requests, T
<1> QED
  BY <1>5, <1>6, <1>7 DEF o

\* Letting requests go, at the end of a section, keeps the structure.
LEMMA SettleStruct ==
  ASSUME NEW k, CacheOK(k), NEW q, ReqOK(q), NEW L, k.go \cup k.done \subseteq Held(q),
         ~k.panic => Struct(k, q, Counted(k, q, {})) /\ Waits(k, q, {}, L)
  PROVE  LET n == Settled(k)
             o == Passed(k, q) IN
         /\ CacheOK(n) /\ ReqOK(o)
         /\ ~n.panic => Struct(n, o, Counted(n, o, {})) /\ Waits(n, o, {}, L)
<1> DEFINE n == Settled(k)
           o == Passed(k, q)
<1>1. k \in Cache
  BY DEF CacheOK
<1>2. /\ n \in Cache /\ n.go = {} /\ n.done = {}
      /\ SameEntries(n, k) /\ n.wait = k.wait /\ n.pvwait = k.pvwait
      /\ n.writeq = k.writeq /\ n.panic = k.panic
  BY <1>1, SettledFields
<1>3. /\ ReqOK(o) /\ Active(o) = Active(q) \ k.done
      /\ Held(o) = (Held(q) \ k.go) \ k.done
      /\ \A r \in Req \ k.done : o[r].ltg = q[r].ltg
  BY <1>1, PassedRequests
<1> HIDE DEF n, o
<1>4. IsInjective(n.writeq)
  BY <1>2 DEF CacheOK
<1>5. CacheOK(n) /\ Hashed(n) = Hashed(k) /\ \A U : Struct(k, q, U) => Struct(n, q, U)
  BY <1>2, <1>4, EntriesFrame
<1>6. ASSUME ~n.panic PROVE Struct(n, o, Counted(n, o, {})) /\ Waits(n, o, {}, L)
  <2>1. Struct(k, q, Counted(k, q, {})) /\ Waits(k, q, {}, L)
    BY <1>2, <1>6
  <2>2. Counted(n, o, {}) = Counted(k, q, {})
    BY <1>2, <1>3 DEF Counted
  <2>3. \A r \in Counted(k, q, {}) : o[r].ltg = q[r].ltg
    BY <1>3 DEF Counted, Active
  <2>4. Struct(n, o, Counted(k, q, {}))
    <3>1. Struct(n, q, Counted(k, q, {})) /\ Hashed(n) \subseteq Entry
      BY <1>2, <1>5, <2>1, ChainSet
    <3> QED
      BY <2>3, <3>1, StructFrame
  <2>5. Waits(n, o, {}, L)
    <3> DEFINE C == Counted(k, q, {})
    <3>1. /\ IsInjective(k.wait)
          /\ ToSet(k.wait) \cup k.done \cup k.go \subseteq Held(q)
          /\ k.go \subseteq C /\ k.done \cap ToSet(k.wait) = {}
          /\ IsInjective(L) /\ ToSet(L) \subseteq (Held(q) \cap C) \ k.go
      BY <2>1 DEF Waits
    <3>2. ASSUME NEW p \in PV
          PROVE  /\ IsInjective(k.pvwait[p])
                 /\ ToSet(k.pvwait[p]) \subseteq (Held(q) \cap C) \ k.go
                 /\ ToSet(k.pvwait[p]) \cap ToSet(L) = {}
                 /\ \A a \in PV : a # p => ToSet(k.pvwait[p]) \cap ToSet(k.pvwait[a]) = {}
      BY <2>1 DEF Waits
    <3>3. C \cap k.done = {} /\ C \cap ToSet(k.wait) = {}
      BY DEF Counted
    <3>4. Counted(n, o, {}) = C
      BY <2>2
    <3> HIDE DEF C
    <3>5. (Held(q) \cap C) \ k.go \subseteq (Held(o) \cap C) \ n.go
      BY <1>2, <1>3, <3>3
    <3>6. /\ IsInjective(n.wait) /\ ToSet(n.wait) \cap {} = {}
          /\ ToSet(n.wait) \cup {} \cup n.done \cup n.go \subseteq Held(o)
          /\ n.go \subseteq C /\ n.done \cap (ToSet(n.wait) \cup {}) = {}
          /\ IsInjective(L) /\ ToSet(L) \subseteq (Held(o) \cap C) \ n.go
      BY <1>2, <1>3, <3>1, <3>3, <3>5
    <3>7. \A p \in PV : /\ IsInjective(n.pvwait[p])
                        /\ ToSet(n.pvwait[p]) \subseteq (Held(o) \cap C) \ n.go
                        /\ ToSet(n.pvwait[p]) \cap ToSet(L) = {}
                        /\ \A a \in PV : a # p => ToSet(n.pvwait[p]) \cap ToSet(n.pvwait[a]) = {}
      BY <1>2, <3>2, <3>5
    <3> QED
      BY <3>4, <3>6, <3>7 DEF Waits
  <2> QED
    BY <2>2, <2>4, <2>5
<1> QED
  BY <1>3, <1>5, <1>6 DEF n, o

\* lv_cache_start.
Started(n, k) ==
    /\ k.inflight = NoPv /\ k.writeq # <<>>
    /\ n.inflight = Head(k.writeq) /\ n.writeq = Tail(k.writeq)
    /\ n.toggle = [k.toggle EXCEPT ![Head(k.writeq)] = 1 - @]
    /\ n.clock = (IF k.changed THEN k.clock + 1 ELSE k.clock) /\ n.changed = FALSE
    /\ n.clean = k.clean /\ n.latest = k.latest /\ n.panic = k.panic

\* The fields that it sets have their types.
LEMMA StartCache ==
  ASSUME NEW k \in Cache, NEW h \in PV, NEW t \in Seq(PV), NEW g \in [PV -> {0, 1}], NEW s \in Nat
  PROVE  [k EXCEPT !.inflight = h, !.writeq = t, !.toggle = g, !.clock = s, !.changed = FALSE]
            \in Cache
  BY DEF Cache

\* lv_cache_start writes nothing, or to the first PV in line.
LEMMA StartFields ==
  ASSUME NEW k \in Cache
  PROVE  LET n == CacheStart(k) IN
         /\ n \in Cache /\ SameEntries(n, k) /\ SameQueues(n, k) /\ n.panic = k.panic
         /\ \/ n = k /\ (k.inflight # NoPv \/ k.writeq = <<>>)
            \/ Started(n, k)
<1>1. CASE k.inflight # NoPv \/ k.writeq = <<>>
  BY <1>1 DEF CacheStart, SameEntries, SameQueues
<1>2. CASE k.inflight = NoPv /\ k.writeq # <<>>
  <2> DEFINE h == Head(k.writeq)
             t == Tail(k.writeq)
             g == [k.toggle EXCEPT ![h] = 1 - @]
             s == IF k.changed THEN k.clock + 1 ELSE k.clock
             n == CacheStart(k)
  <2>1. h \in PV /\ t \in Seq(PV)
    BY <1>2, TailSet, ChainSet
  <2>2. g \in [PV -> {0, 1}] /\ s \in Nat
    <3>1. k.toggle \in [PV -> {0, 1}] /\ k.clock \in Nat
      BY DEF Cache
    <3> HIDE DEF h
    <3>2. g \in [PV -> {0, 1}]
      BY <2>1, <3>1
    <3>3. s \in Nat
      BY <3>1
    <3> QED
      BY <3>2, <3>3
  <2>3. n = [k EXCEPT !.inflight = h, !.writeq = t, !.toggle = g, !.clock = s, !.changed = FALSE]
    BY <1>2 DEF CacheStart
  <2> HIDE DEF h, t, g, s
  <2>4. n \in Cache
    <3>1. [k EXCEPT !.inflight = h, !.writeq = t, !.toggle = g, !.clock = s, !.changed = FALSE] \in Cache
      BY <2>1, <2>2, StartCache
    <3> QED
      BY <2>3, <3>1
  <2>5. n.inflight = h /\ n.writeq = t /\ n.toggle = g /\ n.clock = s /\ n.changed = FALSE
    BY <2>3 DEF Cache
  <2>6. /\ SameEntries(n, k) /\ SameQueues(n, k) /\ n.clean = k.clean /\ n.latest = k.latest
        /\ n.panic = k.panic
    BY <2>3 DEF Cache, SameEntries, SameQueues
  <2> HIDE DEF n
  <2>7. Started(n, k)
    BY <1>2, <2>5, <2>6 DEF Started, h, t, g, s
  <2> QED
    BY <2>4, <2>6, <2>7 DEF n
<1> QED
  BY <1>1, <1>2

\* lv_cache_start keeps the structure.
LEMMA StartStruct ==
  ASSUME NEW k, CacheOK(k)
  PROVE  LET n == CacheStart(k) IN
         /\ CacheOK(n) /\ n.panic = k.panic /\ n.go = k.go /\ n.done = k.done
         /\ Hashed(n) = Hashed(k) /\ Named(n) = Named(k)
         /\ \A q, H, L : /\ Counted(n, q, H) = Counted(k, q, H)
                         /\ Waits(k, q, H, L) => Waits(n, q, H, L)
         /\ \A q, U : Struct(k, q, U) => Struct(n, q, U)
<1> DEFINE n == CacheStart(k)
<1>1. k \in Cache /\ IsInjective(k.writeq) /\ k.writeq \in Seq(PV)
  BY ChainSet DEF CacheOK
<1>2. /\ n \in Cache /\ SameEntries(n, k) /\ SameQueues(n, k) /\ n.panic = k.panic
      /\ \/ n = k /\ (k.inflight # NoPv \/ k.writeq = <<>>)
         \/ Started(n, k)
  BY <1>1, StartFields
<1> HIDE DEF n
<1>3. IsInjective(n.writeq)
  <2>1. CASE n = k
    BY <1>1, <2>1
  <2>2. CASE Started(n, k)
    BY <1>1, <2>2, TailSet DEF Started
  <2> QED
    BY <1>2, <2>1, <2>2
<1>4. /\ CacheOK(n) /\ Hashed(n) = Hashed(k) /\ Named(n) = Named(k)
      /\ \A q, U : Struct(k, q, U) => Struct(n, q, U)
  BY <1>2, <1>3, EntriesFrame
<1>5. \A q, H, L : /\ Counted(n, q, H) = Counted(k, q, H)
                   /\ Waits(k, q, H, L) => Waits(n, q, H, L)
  BY <1>2, QueuesFrame
<1> QED
  BY <1>2, <1>4, <1>5 DEF n, SameQueues

-----------------------------------------------------------------------------
(* The loops: lv_cache_scrub, lv_cache_update, and the walk over the       *)
(* requests that waited for an entry.                                      *)

\* The fields that lv_cache_remove sets have their types.
LEMMA RemoveCache ==
  ASSUME NEW k \in Cache, NEW ch \in Seq(Entry), NEW en \in [Entry -> EntryT], NEW l \in Seq(Entry)
  PROVE  [k EXCEPT !.chain = ch, !.ent = en, !.lru = l] \in Cache
  BY DEF Cache

\* lv_cache_remove takes an entry off its chain and clears it.
LEMMA RemoveFields ==
  ASSUME NEW k, CacheOK(k), NEW e \in Hashed(k)
  PROVE  LET n == CacheRemove(k, e) IN
         /\ n \in Cache /\ CacheOK(n) /\ Hashed(n) = Hashed(k) \ {e}
         /\ n.ent[e] = NoEntry /\ \A d \in Entry : d # e => n.ent[d] = k.ent[d]
         /\ n.free = k.free /\ SameQueues(n, k) /\ SameRecord(n, k)
         /\ n.writeq = k.writeq /\ n.clean = k.clean /\ n.panic = k.panic
         /\ n.latest = k.latest
<1> DEFINE ch == Without(k.chain, e)
           en == [k.ent EXCEPT ![e] = NoEntry]
           l == Lru(k.lru, e)
           n == CacheRemove(k, e)
<1>1. /\ k \in Cache /\ e \in Entry /\ e \in ToSet(k.chain) /\ k.chain \in Seq(Entry)
      /\ k.lru \in Seq(Entry) /\ ToSet(k.lru) = Entry /\ Len(k.lru) = Cardinality(Entry)
      /\ IsInjective(k.chain) /\ k.ent \in [Entry -> EntryT]
  BY ChainSet DEF CacheOK, Hashed
<1>2. /\ ch \in Seq(Entry) /\ ToSet(k.chain) = ToSet(ch) \cup {e} /\ IsInjective(ch)
      /\ e \notin ToSet(ch)
  BY <1>1, WithoutSet, SMTT(40), ZenonT(20)
<1>3. l \in Seq(Entry) /\ ToSet(l) = Entry /\ Len(l) = Cardinality(Entry)
  BY <1>1, UseSet
<1>4. /\ en \in [Entry -> EntryT] /\ en[e] = NoEntry
      /\ \A d \in Entry : d # e => en[d] = k.ent[d]
  <2>1. NoEntry \in EntryT
    BY DEF NoEntry, EntryT
  <2> QED
    BY <1>1, <2>1
<1>5. n = [k EXCEPT !.chain = ch, !.ent = en, !.lru = l]
  BY <1>1 DEF CacheRemove
<1> HIDE DEF ch, en, l
<1>6. n \in Cache /\ n.chain = ch /\ n.ent = en /\ n.lru = l
  <2>1. n \in Cache
    <3>1. [k EXCEPT !.chain = ch, !.ent = en, !.lru = l] \in Cache
      BY <1>1, <1>2, <1>3, <1>4, RemoveCache
    <3> HIDE DEF n
    <3> QED
      BY <1>5, <3>1
  <2>2. n.chain = ch /\ n.ent = en /\ n.lru = l
    BY <1>1, <1>5 DEF Cache
  <2> QED
    BY <2>1, <2>2
<1>7. /\ n.free = k.free /\ SameQueues(n, k) /\ SameRecord(n, k)
      /\ n.writeq = k.writeq /\ n.clean = k.clean /\ n.panic = k.panic
      /\ n.latest = k.latest
  BY <1>1, <1>5 DEF Cache, SameQueues, SameRecord
<1> HIDE DEF n
<1>8. Hashed(n) = Hashed(k) \ {e}
  BY <1>1, <1>2, <1>6 DEF Hashed
<1>9. CacheOK(n)
  <2>1. Cardinality(Req) \in Nat /\ NoEntry.iocnt = 0 /\ NoEntry.state = {}
    BY Consts, FS_CardinalityType DEF NoEntry
  <2>2. ASSUME NEW d \in Entry
        PROVE  /\ n.ent[d].iocnt \in 0 .. Cardinality(Req)
               /\ n.ent[d].state = {CHANGING} => n.ent[d].pvol \in PV
    <3>1. CASE d = e
      BY <1>4, <1>6, <2>1, <3>1
    <3>2. CASE d # e
      BY <1>4, <1>6, <3>2 DEF CacheOK
    <3> QED
      BY <3>1, <3>2
  <2> QED
    BY <1>2, <1>3, <1>6, <1>7, <2>2 DEF CacheOK
<1> QED
  BY <1>4, <1>6, <1>7, <1>8, <1>9 DEF n

\* What lv_cache_scrub does to k as far as it goes: entries without requests are
\* taken off.
Scrubbed(n, k, q, U) ==
    /\ CacheOK(n) /\ SameQueues(n, k) /\ SameRecord(n, k)
    /\ n.writeq = k.writeq /\ n.clean = k.clean /\ n.latest = k.latest
    /\ Hashed(n) \subseteq Hashed(k) /\ \A e \in Hashed(n) : n.ent[e] = k.ent[e]
    /\ \A e \in Entry : n.ent[e] = k.ent[e] \/ (k.ent[e].iocnt = 0 /\ n.ent[e] = NoEntry)
    /\ \A e \in Hashed(k) \ Hashed(n) : n.ent[e] = NoEntry
    /\ k.panic => n.panic
    /\ ~n.panic /\ Struct(k, q, U) => Struct(n, q, U)

\* A step of lv_cache_scrub removes an entry without requests, panics, or does nothing.
LEMMA ScrubEntryStruct ==
  ASSUME NEW k \in Cache, NEW n, NEW q, NEW U \in SUBSET Req, NEW l, NEW e \in Entry,
         Struct(k, q, U), Scrubbed(n, k, q, U)
  PROVE  Scrubbed(ScrubEntry(n, l, e), k, q, U)
<1> DEFINE m == ScrubEntry(n, l, e)
<1>1. CASE n.panic \/ ~Mine(n, l, e)
  BY <1>1 DEF ScrubEntry
<1>2. CASE ~n.panic /\ Mine(n, l, e) /\ (n.ent[e].iocnt # 0 \/ e \notin Hashed(n))
  <2>1. m = [n EXCEPT !.panic = TRUE]
    BY <1>2 DEF ScrubEntry, CacheRemove, Hashed
  <2>2. n \in Cache
    BY DEF Scrubbed, CacheOK
  <2>3. /\ m \in Cache /\ SameEntries(m, n) /\ SameQueues(m, n) /\ SameRecord(m, n)
        /\ m.writeq = n.writeq /\ m.clean = n.clean /\ m.latest = n.latest /\ m.panic
    BY <2>1, <2>2 DEF Cache, SameEntries, SameQueues, SameRecord
  <2> HIDE DEF m
  <2>4. CacheOK(n) /\ IsInjective(m.writeq)
    BY <2>3 DEF Scrubbed, CacheOK
  <2>5. CacheOK(m) /\ Hashed(m) = Hashed(n)
    BY <2>3, <2>4, EntriesFrame
  <2> QED
    BY <2>3, <2>5 DEF Scrubbed, SameEntries, SameQueues, SameRecord, m
<1>3. CASE ~n.panic /\ n.ent[e].iocnt = 0 /\ e \in Hashed(n) /\ m = CacheRemove(n, e)
  <2>1. CacheOK(n) /\ n \in Cache
    BY DEF Scrubbed, CacheOK
  <2>2. /\ m \in Cache /\ CacheOK(m) /\ Hashed(m) = Hashed(n) \ {e}
        /\ m.ent[e] = NoEntry /\ \A d \in Entry : d # e => m.ent[d] = n.ent[d]
        /\ m.free = n.free /\ SameQueues(m, n) /\ SameRecord(m, n)
        /\ m.writeq = n.writeq /\ m.clean = n.clean /\ m.panic = n.panic
        /\ m.latest = n.latest
    BY <1>3, <2>1, RemoveFields
  <2> HIDE DEF m
  <2>3. NoEntry.ltg = None /\ NoEntry.iocnt = 0
    BY DEF NoEntry
  <2>4. Struct(n, q, U)
    BY <1>3 DEF Scrubbed
  <2>5. Struct(m, q, U)
    BY <1>3, <2>1, <2>2, <2>3, <2>4, StructDrop
  <2>6. Hashed(n) \subseteq Entry
    BY <2>1, ChainSet
  <2>7. /\ Hashed(m) \subseteq Hashed(k) /\ \A d \in Hashed(m) : m.ent[d] = k.ent[d]
        /\ \A d \in Entry : m.ent[d] = k.ent[d] \/ (k.ent[d].iocnt = 0 /\ m.ent[d] = NoEntry)
        /\ \A d \in Hashed(k) \ Hashed(m) : m.ent[d] = NoEntry
    <3>1. /\ Hashed(n) \subseteq Hashed(k) /\ \A d \in Hashed(n) : n.ent[d] = k.ent[d]
          /\ \A d \in Entry : n.ent[d] = k.ent[d] \/ (k.ent[d].iocnt = 0 /\ n.ent[d] = NoEntry)
          /\ \A d \in Hashed(k) \ Hashed(n) : n.ent[d] = NoEntry
      BY DEF Scrubbed
    <3> QED
      <4>1. /\ Hashed(m) \subseteq Hashed(k) /\ \A d \in Hashed(m) : m.ent[d] = k.ent[d]
        BY <2>2, <2>6, <3>1
      <4>2. ASSUME NEW d \in Entry
            PROVE  m.ent[d] = k.ent[d] \/ (k.ent[d].iocnt = 0 /\ m.ent[d] = NoEntry)
        <5>1. CASE d = e
          BY <1>3, <2>2, <3>1, <5>1
        <5>2. CASE d # e
          BY <2>2, <3>1, <5>2
        <5> QED
          BY <5>1, <5>2
      <4>3. Hashed(k) \subseteq Entry
        BY ChainSet
      <4>4. ASSUME NEW d \in Hashed(k) \ Hashed(m) PROVE m.ent[d] = NoEntry
        <5>1. CASE d = e
          BY <2>2, <5>1
        <5>2. CASE d # e
          BY <2>2, <3>1, <5>2, <4>3, <4>4
        <5> QED
          BY <5>1, <5>2
      <4> QED
        BY <4>1, <4>2, <4>4
  <2>8. SameQueues(m, k) /\ SameRecord(m, k)
    BY <2>2 DEF Scrubbed, SameQueues, SameRecord
  <2>9. /\ m.writeq = k.writeq /\ m.clean = k.clean /\ m.latest = k.latest
        /\ (k.panic => m.panic)
    BY <2>2 DEF Scrubbed
  <2> QED
    BY <2>2, <2>5, <2>7, <2>8, <2>9 DEF Scrubbed, m
<1>4. \/ n.panic \/ ~Mine(n, l, e)
      \/ n.ent[e].iocnt # 0 \/ e \notin Hashed(n)
      \/ m = CacheRemove(n, e)
  BY DEF ScrubEntry
<1> QED
  BY <1>1, <1>2, <1>3, <1>4

\* A sequence turned round has the same elements.
LEMMA ReverseSet ==
  ASSUME NEW A, NEW s \in Seq(A)
  PROVE  /\ Reverse(s) \in Seq(A) /\ Len(Reverse(s)) = Len(s)
         /\ \A i \in 1 .. Len(s) : Reverse(s)[i] \in A
<1> DEFINE n == Len(s)
           t == [i \in 1 .. n |-> s[(n - i) + 1]]
<1>1. n \in Nat /\ Reverse(s) = t
  BY DEF Reverse
<1>2. \A i \in 1 .. n : s[(n - i) + 1] \in A
  <2>1. \A i \in 1 .. n : (n - i) + 1 \in 1 .. n
    BY <1>1
  <2>2. \A i \in 1 .. n : s[i] \in A
    OBVIOUS
  <2> QED
    BY <2>1, <2>2
<1>3. t \in Seq(A) /\ Len(t) = n
  <2>1. t \in [1 .. n -> A]
    BY <1>2
  <2> HIDE DEF t
  <2> QED
    BY <1>1, <2>1, SeqDef, LenProperties
<1> QED
  BY <1>1, <1>3

ScrubAll(k, l, s) == FoldLeft(LAMBDA n, e : ScrubEntry(n, l, e), k, s)

\* The loop of lv_cache_scrub only removes entries without requests, unless it panics.
LEMMA ScrubWalk ==
  ASSUME NEW k, CacheOK(k), NEW q, NEW U \in SUBSET Req, NEW l, NEW s \in Seq(Entry),
         Struct(k, q, U)
  PROVE  Scrubbed(ScrubAll(k, l, s), k, q, U)
<1>1. ScrubAll(k, l, s) = Fold("scrub", l, k, s)
  BY DEF ScrubAll, Fold, LoopStep, FoldLeft, MapThenFoldSet
<1>2. PICK h : /\ h[0] = k /\ \A i \in 1 .. Len(s) : h[i] = ScrubEntry(h[i - 1], l, s[i])
               /\ Fold("scrub", l, k, s) = h[Len(s)]
  BY Chain, LoopSteps
<1> DEFINE S == {i \in Nat : i <= Len(s) => Scrubbed(h[i], k, q, U)}
<1>3. 0 \in S
  <2>1. SameQueues(k, k) /\ SameRecord(k, k)
    BY DEF SameQueues, SameRecord
  <2>2. \A e \in Hashed(k) \ Hashed(k) : k.ent[e] = NoEntry
    OBVIOUS
  <2>3. Scrubbed(k, k, q, U)
    BY <2>1, <2>2, Zenon DEF Scrubbed
  <2> QED
    BY <1>2, <2>3
<1>4. ASSUME NEW i \in Nat, i \in S PROVE i + 1 \in S
  <2>1. SUFFICES ASSUME i + 1 <= Len(s) PROVE Scrubbed(h[i + 1], k, q, U)
    BY <1>4
  <2>2. Len(s) \in Nat /\ i + 1 \in 1 .. Len(s) /\ (i + 1) - 1 = i /\ i <= Len(s)
    BY <2>1
  <2>3. s[i + 1] \in Entry /\ Scrubbed(h[i], k, q, U) /\ k \in Cache
    BY <1>4, <2>2 DEF CacheOK
  <2>4. h[i + 1] = ScrubEntry(h[i], l, s[i + 1])
    BY <1>2, <2>2
  <2> QED
    BY <2>3, <2>4, ScrubEntryStruct
<1>5. Nat \subseteq S
  <2> HIDE DEF S
  <2> QED
    BY <1>3, <1>4, NatInd
<1>6. Len(s) \in Nat
  OBVIOUS
<1>7. Scrubbed(Fold("scrub", l, k, s), k, q, U)
  BY <1>2, <1>5, <1>6
<1> QED
  BY <1>1, <1>7

\* lv_cache_update puts PVs on the queue of writes, and does nothing else.
Updated(n, k) ==
    /\ n \in Cache /\ SameEntries(n, k) /\ SameQueues(n, k)
    /\ n.inflight = k.inflight /\ n.toggle = k.toggle /\ n.clock = k.clock
    /\ n.clean = k.clean /\ n.panic = k.panic /\ n.latest = k.latest
    /\ IsInjective(n.writeq) /\ (k.writeq # <<>> => n.writeq # <<>>)
    /\ ToSet(k.writeq) \subseteq ToSet(n.writeq)

\* PV_CACHE_QUEUED says that the PV is in line.
LEMMA QueuedSet ==
  ASSUME NEW k \in Cache, NEW p
  PROVE  Queued(k, p) <=> p \in ToSet(k.writeq)
<1>1. k.writeq \in Seq(PV)
  BY ChainSet
<1> QED
  BY <1>1, SeqSet DEF Queued

\* A step of lv_cache_update appends a PV to the line at most once.
LEMMA QueueLatestUpdates ==
  ASSUME NEW k, NEW n, Updated(n, k), n.changed = k.changed, NEW p \in PV
  PROVE  Updated(QueueLatest(n, p), k) /\ QueueLatest(n, p).changed = k.changed
<1> DEFINE m == QueueLatest(n, p)
           w == Append(n.writeq, p)
<1>1. CASE m = n
  BY <1>1
<1>2. CASE ~Queued(n, p) /\ m = [n EXCEPT !.writeq = w]
  <2>1. n \in Cache /\ n.writeq \in Seq(PV) /\ IsInjective(n.writeq) /\ p \notin ToSet(n.writeq)
    BY <1>2, QueuedSet, ChainSet DEF Updated
  <2>2. w \in Seq(PV) /\ w # <<>> /\ IsInjective(w) /\ ToSet(w) = ToSet(n.writeq) \cup {p}
    BY <2>1, AppendSet
  <2> HIDE DEF w
  <2>3. /\ m \in Cache /\ m.writeq = w
    BY <1>2, <2>1, <2>2 DEF Cache
  <2>4. /\ SameEntries(m, n) /\ SameQueues(m, n) /\ m.changed = n.changed
        /\ m.inflight = n.inflight /\ m.toggle = n.toggle /\ m.clock = n.clock
        /\ m.clean = n.clean /\ m.panic = n.panic /\ m.latest = n.latest
    BY <1>2, <2>1 DEF Cache, SameEntries, SameQueues
  <2> HIDE DEF m
  <2>5. ToSet(k.writeq) \subseteq ToSet(m.writeq)
    BY <2>2, <2>3 DEF Updated
  <2> QED
    BY <2>2, <2>3, <2>4, <2>5 DEF Updated, SameEntries, SameQueues, m
<1> QED
  BY <1>1, <1>2 DEF QueueLatest

\* lv_cache_update appends PVs to the line, each once, and marks the record changed.
LEMMA UpdateFields ==
  ASSUME NEW k \in Cache, IsInjective(k.writeq)
  PROVE  Updated(CacheUpdate(k), k) /\ CacheUpdate(k).changed = TRUE
<1> DEFINE s == AllPvs
           f == FoldLeft(QueueLatest, k, s)
<1>1. s \in Seq(PV)
  <2>1. NPV \in Nat /\ \A i \in 1 .. NPV : i - 1 \in PV
    BY Consts DEF PV
  <2> QED
    BY <2>1 DEF AllPvs
<1>2. f = Fold("update", 0, k, s)
  BY DEF Fold, LoopStep, FoldLeft, MapThenFoldSet
<1> HIDE DEF s
<1>3. PICK h : /\ h[0] = k /\ \A i \in 1 .. Len(s) : h[i] = QueueLatest(h[i - 1], s[i])
               /\ Fold("update", 0, k, s) = h[Len(s)]
  BY <1>1, Chain, LoopSteps
<1> DEFINE S == {i \in Nat : i <= Len(s) => Updated(h[i], k) /\ h[i].changed = k.changed}
<1>4. 0 \in S
  <2>1. Updated(k, k)
    BY DEF Updated, SameQueues, SameEntries
  <2> QED
    BY <1>3, <2>1
<1>5. ASSUME NEW i \in Nat, i \in S PROVE i + 1 \in S
  <2>1. SUFFICES ASSUME i + 1 <= Len(s)
                 PROVE Updated(h[i + 1], k) /\ h[i + 1].changed = k.changed
    BY <1>5
  <2>2. Len(s) \in Nat /\ i + 1 \in 1 .. Len(s) /\ (i + 1) - 1 = i /\ i <= Len(s)
    BY <1>1, <2>1
  <2>3. s[i + 1] \in PV /\ Updated(h[i], k) /\ h[i].changed = k.changed
    BY <1>1, <1>5, <2>2
  <2>4. h[i + 1] = QueueLatest(h[i], s[i + 1])
    BY <1>3, <2>2
  <2> QED
    BY <2>3, <2>4, QueueLatestUpdates
<1>6. Nat \subseteq S
  <2> HIDE DEF S
  <2> QED
    BY <1>4, <1>5, NatInd
<1>7. Len(s) \in Nat
  BY <1>1
<1>8. Updated(f, k)
  <2>1. Updated(Fold("update", 0, k, s), k)
    BY <1>3, <1>6, <1>7
  <2> QED
    BY <1>2, <2>1
<1> DEFINE n == CacheUpdate(k)
<1>9. n = [f EXCEPT !.changed = TRUE]
  BY DEF CacheUpdate, s
<1> HIDE DEF f, n
<1>10. f \in Cache
  BY <1>8 DEF Updated
<1>11. /\ n \in Cache /\ n.changed = TRUE
       /\ SameEntries(n, f) /\ SameQueues(n, f) /\ n.writeq = f.writeq
       /\ n.inflight = f.inflight /\ n.toggle = f.toggle /\ n.clock = f.clock
       /\ n.clean = f.clean /\ n.panic = f.panic /\ n.latest = f.latest
  BY <1>9, <1>10 DEF Cache, SameEntries, SameQueues
<1> QED
  BY <1>8, <1>11 DEF Updated, SameEntries, SameQueues, n

\* lv_cache_scrub as a whole.
ScrubOf(n, k, q, U) ==
    /\ CacheOK(n) /\ SameQueues(n, k)
    /\ n.inflight = k.inflight /\ n.toggle = k.toggle /\ n.clock = k.clock
    /\ n.clean = k.clean /\ n.latest = k.latest /\ (k.panic => n.panic)
    /\ Hashed(n) \subseteq Hashed(k) /\ \A e \in Hashed(n) : n.ent[e] = k.ent[e]
    /\ \A e \in Entry : n.ent[e] = k.ent[e] \/ (k.ent[e].iocnt = 0 /\ n.ent[e] = NoEntry)
    /\ \A e \in Hashed(k) \ Hashed(n) : n.ent[e] = NoEntry
    /\ ~n.panic => Struct(n, q, U)
    /\ ToSet(k.writeq) \subseteq ToSet(n.writeq) /\ (k.writeq # <<>> => n.writeq # <<>>)
    /\ n = k \/ n.changed = TRUE

\* A volume without entries is scrubbed at once.
LEMMA ScrubNone ==
  ASSUME NEW k, CacheOK(k), NEW q, NEW U, Struct(k, q, U)
  PROVE  ScrubOf(k, k, q, U)
<1>1. SameQueues(k, k)
  BY DEF SameQueues
<1>2. \A e \in Hashed(k) \ Hashed(k) : k.ent[e] = NoEntry
  OBVIOUS
<1> QED
  BY <1>1, <1>2, Zenon DEF ScrubOf

\* lv_cache_scrub keeps the structure.
LEMMA ScrubStruct ==
  ASSUME NEW k, CacheOK(k), NEW q, NEW U \in SUBSET Req, NEW l, Struct(k, q, U)
  PROVE  ScrubOf(Scrub(k, l), k, q, U)
<1>1. CASE ~\E e \in Entry : Mine(k, l, e)
  <2>1. Scrub(k, l) = k
    BY <1>1 DEF Scrub
  <2> QED
    BY <2>1, ScrubNone
<1>2. CASE \E e \in Entry : Mine(k, l, e)
  <2> DEFINE s == Reverse(k.lru)
             f == ScrubAll(k, l, s)
             n == CacheUpdate(f)
  <2>1. Scrub(k, l) = n
    BY <1>2 DEF Scrub, ScrubAll
  <2>2. s \in Seq(Entry)
    BY ChainSet, ReverseSet DEF CacheOK
  <2> HIDE DEF s
  <2>3. Scrubbed(f, k, q, U)
    BY <2>2, ScrubWalk
  <2> HIDE DEF f
  <2>4. CacheOK(f) /\ f \in Cache /\ IsInjective(f.writeq)
    BY <2>3 DEF Scrubbed, CacheOK
  <2>5. Updated(n, f) /\ n.changed = TRUE
    BY <2>4, UpdateFields
  <2> HIDE DEF n
  <2>6. n \in Cache /\ SameEntries(n, f) /\ IsInjective(n.writeq)
    BY <2>5 DEF Updated
  <2>7. CacheOK(n) /\ Hashed(n) = Hashed(f) /\ \A V : Struct(f, q, V) => Struct(n, q, V)
    BY <2>4, <2>6, EntriesFrame
  <2>8. /\ SameQueues(n, k)
        /\ n.inflight = k.inflight /\ n.toggle = k.toggle /\ n.clock = k.clock
        /\ n.clean = k.clean /\ n.latest = k.latest /\ (k.panic => n.panic)
        /\ ToSet(k.writeq) \subseteq ToSet(n.writeq) /\ (k.writeq # <<>> => n.writeq # <<>>)
    BY <2>3, <2>5 DEF Scrubbed, Updated, SameQueues, SameRecord
  <2>9. /\ Hashed(n) \subseteq Hashed(k) /\ \A e \in Hashed(n) : n.ent[e] = k.ent[e]
        /\ \A e \in Entry : n.ent[e] = k.ent[e] \/ (k.ent[e].iocnt = 0 /\ n.ent[e] = NoEntry)
        /\ \A e \in Hashed(k) \ Hashed(n) : n.ent[e] = NoEntry
    BY <2>3, <2>7, <2>6 DEF Scrubbed, SameEntries
  <2>10. ~n.panic => Struct(n, q, U)
    BY <2>3, <2>5, <2>7 DEF Scrubbed, Updated
  <2> QED
    BY <2>1, <2>5, <2>7, <2>8, <2>9, <2>10 DEF ScrubOf
<1> QED
  BY <1>1, <1>2

\* What is known of the cache while the requests that waited for an entry are looked
\* at: H are those still to come.
AgainOK(k, q, H, L) ==
    /\ CacheOK(k) /\ k.go \cup k.done \subseteq Held(q)
    /\ ~k.panic => Struct(k, q, Counted(k, q, H)) /\ Waits(k, q, H, L)

\* The requests of s that come after the i-th.
Rest(s, i) == {s[j] : j \in i + 1 .. Len(s)}

\* What is left of a sequence after i elements.
LEMMA RestSet ==
  ASSUME NEW A, NEW s \in Seq(A), IsInjective(s)
  PROVE  /\ Rest(s, 0) = ToSet(s) /\ Rest(s, Len(s)) = {}
         /\ \A i \in Nat : i + 1 <= Len(s) =>
               /\ Rest(s, i) = Rest(s, i + 1) \cup {s[i + 1]} /\ s[i + 1] \notin Rest(s, i + 1)
               /\ s[i + 1] \in A /\ Rest(s, i + 1) \subseteq A
<1>1. Len(s) \in Nat /\ DOMAIN s = 1 .. Len(s) /\ \A j \in 1 .. Len(s) : s[j] \in A
  OBVIOUS
<1>2. Rest(s, 0) = ToSet(s)
  <2>1. ToSet(s) = {s[i] : i \in 1 .. Len(s)}
    BY SeqSet
  <2>2. 0 + 1 = 1
    OBVIOUS
  <2> QED
    BY <2>1, <2>2 DEF Rest
<1>3. Rest(s, Len(s)) = {}
  <2>1. Len(s) + 1 .. Len(s) = {}
    BY <1>1
  <2> QED
    BY <2>1 DEF Rest
<1>4. ASSUME NEW i \in Nat, i + 1 <= Len(s)
      PROVE  /\ Rest(s, i) = Rest(s, i + 1) \cup {s[i + 1]} /\ s[i + 1] \notin Rest(s, i + 1)
             /\ s[i + 1] \in A /\ Rest(s, i + 1) \subseteq A
  <2>1. i + 1 .. Len(s) = ((i + 1) + 1 .. Len(s)) \cup {i + 1} /\ i + 1 \in 1 .. Len(s)
    BY <1>1, <1>4
  <2>2. Rest(s, i) = Rest(s, i + 1) \cup {s[i + 1]}
    BY <2>1 DEF Rest
  <2>3. ASSUME NEW j \in (i + 1) + 1 .. Len(s) PROVE j \in 1 .. Len(s) /\ s[j] # s[i + 1]
    <3>1. j \in 1 .. Len(s) /\ j # i + 1
      BY <1>1
    <3>2. \A a, b \in DOMAIN s : s[a] = s[b] => a = b
      BY DEF IsInjective
    <3> QED
      BY <1>1, <2>1, <3>1, <3>2
  <2>4. s[i + 1] \notin Rest(s, i + 1) /\ Rest(s, i + 1) \subseteq A
    BY <1>1, <2>3 DEF Rest
  <2> QED
    BY <1>1, <2>1, <2>2, <2>4
<1> QED
  BY <1>2, <1>3, <1>4

\* A step of the walk over vg_cache_wait keeps the structure: the request looked at is
\* counted, or waits again, or is refused.
LEMMA CheckAgainStruct ==
  ASSUME ReqOK(req), NEW H \in SUBSET Req, NEW r \in Req \ H, NEW L \in Seq(Req),
         NEW k, AgainOK(k, req, H \cup {r}, L)
  PROVE  AgainOK(CheckAgain(k, r), req, H, L)
<1>1. CASE k.panic
  <2>1. CheckAgain(k, r) = k
    BY <1>1 DEF CheckAgain
  <2> QED
    BY <1>1, <2>1 DEF AgainOK
<1>2. CASE ~k.panic
  <2>1. CheckAgain(k, r) = CheckCache(k, r, req[r].ltg)
    BY <1>2 DEF CheckAgain
  <2>2. /\ CacheOK(k) /\ Struct(k, req, Counted(k, req, H \cup {r}))
        /\ Waits(k, req, H \cup {r}, L)
    BY <1>2 DEF AgainOK
  <2>3. req[r].at = "held"
    BY <2>2 DEF Waits, Held
  <2> DEFINE n == CheckCache(k, r, req[r].ltg)
  <2>4. /\ CacheOK(n) /\ n.go \cup n.done \subseteq Held(req)
        /\ ~n.panic => Struct(n, req, Counted(n, req, H)) /\ Waits(n, req, H, L)
    BY <2>2, <2>3, CheckStruct
  <2> HIDE DEF n
  <2> QED
    BY <2>1, <2>4 DEF AgainOK, n
<1> QED
  BY <1>1, <1>2

-----------------------------------------------------------------------------
(* The cache after lv_cache_init.                                          *)

\* A finite set as a sequence without duplicates.
LEMMA SetSequence ==
  ASSUME NEW S, IsFiniteSet(S)
  PROVE  SetToSeq(S) \in Seq(S) /\ ToSet(SetToSeq(S)) = S /\ Len(SetToSeq(S)) = Cardinality(S)
<1> DEFINE n == Cardinality(S)
           D == 1 .. n
           s == SetToSeq(S)
<1>1. n \in Nat /\ ExistsBijection(D, S)
  BY FS_CardinalityType
<1>2. PICK f \in Bijection(D, S) : TRUE
  BY <1>1 DEF ExistsBijection
<1>3. f \in [D -> S] /\ IsInjective(f)
  BY <1>2 DEF Bijection, Injection, IsInjective
<1>4. s \in [D -> S] /\ IsInjective(s)
  BY <1>3 DEF SetToSeq
<1> HIDE DEF s, n
<1>5. IsFiniteSet(D) /\ Cardinality(D) = n
  BY <1>1, FS_Interval
<1>6. s \in Injection(D, S)
  BY <1>4 DEF Injection, IsInjective
<1>7. s \in Surjection(D, S)
  BY <1>5, <1>6, FS_Injection DEF n
<1>8. s \in Seq(S) /\ Len(s) = n
  BY <1>1, <1>4, SeqDef, LenProperties
<1>9. ToSet(s) = S
  <2>1. ToSet(s) = {s[i] : i \in D}
    BY <1>8, SeqSet
  <2>2. \A a \in S : \E i \in D : s[i] = a
    BY <1>7 DEF Surjection
  <2> QED
    BY <1>4, <2>1, <2>2
<1> QED
  BY <1>8, <1>9 DEF s, n

Initial(k, time) ==
    /\ CacheOK(k) /\ Hashed(k) = {} /\ Named(k) = {} /\ k.chain = <<>>
    /\ k.ent = [e \in Entry |-> NoEntry] /\ k.free = Cardinality(Entry)
    /\ k.go = {} /\ k.done = {} /\ k.wait = <<>> /\ k.pvwait = [p \in PV |-> <<>>]
    /\ k.inflight = NoPv /\ k.clean = None /\ k.clock = time

\* The cache that lv_cache_init makes.
LEMMA PlainInitial ==
  ASSUME NEW time \in Nat
  PROVE  LET k == CacheInit(time) IN
         /\ Initial(k, time) /\ ~k.panic /\ k.toggle = [p \in PV |-> 0]
         /\ k.writeq = <<>> /\ k.changed = FALSE
<1> DEFINE en == [e \in Entry |-> NoEntry]
           s == SetToSeq(Entry)
           pw == [p \in PV |-> <<>>]
           n == Cardinality(Entry)
           tg == [p \in PV |-> 0]
           k == CacheInit(time)
<1>1. s \in Seq(Entry) /\ ToSet(s) = Entry /\ Len(s) = n /\ n \in Nat
  BY Consts, SetSequence, FS_CardinalityType
<1>2. NoEntry \in EntryT /\ NoEntry.ltg = None /\ NoEntry.iocnt = 0 /\ NoEntry.state = {}
  BY DEF NoEntry, EntryT
<1>3. en \in [Entry -> EntryT] /\ pw \in [PV -> Seq(Req)] /\ tg \in [PV -> {0, 1}]
      /\ <<>> \in Seq(Entry) /\ <<>> \in Seq(Req) /\ <<>> \in Seq(PV)
  BY <1>2
<1>4. ToSet(<<>>) = {} /\ IsInjective(<<>>)
  BY EmptySet
<1>5. k = [ent |-> en, lru |-> s, chain |-> <<>>, free |-> n, changed |-> FALSE,
           inflight |-> NoPv, clean |-> None, wait |-> <<>>, pvwait |-> pw, writeq |-> <<>>,
           toggle |-> tg, latest |-> {}, clock |-> time, go |-> {}, done |-> {}, panic |-> FALSE]
  BY DEF CacheInit
<1> HIDE DEF en, s, pw, n, tg, k
<1>6. k \in Cache
  BY <1>1, <1>3, <1>5 DEF Cache
<1>7. /\ k.ent = en /\ k.lru = s /\ k.chain = <<>> /\ k.free = n /\ k.changed = FALSE
      /\ k.inflight = NoPv /\ k.clean = None /\ k.wait = <<>> /\ k.pvwait = pw /\ k.writeq = <<>>
      /\ k.toggle = tg /\ k.clock = time /\ k.go = {} /\ k.done = {}
      /\ k.panic = FALSE
  BY <1>5
<1>8. \A e \in Entry : en[e] = NoEntry
  BY DEF en
<1>9. Cardinality(Req) \in Nat
  BY Consts, FS_CardinalityType
<1>10. CacheOK(k)
  <2>1. \A e \in Entry : /\ k.ent[e].iocnt \in 0 .. Cardinality(Req)
                         /\ k.ent[e].state = {CHANGING} => k.ent[e].pvol \in PV
    <3>1. \A e \in Entry : k.ent[e] = NoEntry
      BY <1>7, <1>8
    <3>2. {} # {CHANGING} /\ 0 \in 0 .. Cardinality(Req)
      BY <1>9
    <3> QED
      BY <1>2, <3>1, <3>2
  <2>2. k.free \in 0 .. Cardinality(Entry)
    BY <1>1, <1>7 DEF n
  <2> QED
    BY <1>1, <1>4, <1>6, <1>7, <2>1, <2>2 DEF CacheOK, n
<1>11. Hashed(k) = {} /\ Named(k) = {}
  BY <1>2, <1>4, <1>7, <1>8 DEF Hashed, Named
<1> QED
  BY <1>7, <1>10, <1>11 DEF Initial, k, en, pw, n, tg

Flagged(k, l, t, b) == [k EXCEPT !.latest = l, !.toggle = t, !.panic = b]
FlaggedOf(k, time, l, t, b) ==
    /\ Initial(k, time) /\ k.toggle = t /\ k.panic = b /\ k.latest = l
    /\ k.writeq = <<>> /\ k.changed = FALSE

\* Nothing is hashed, counted or waiting in a new cache.
LEMMA InitialCache ==
  ASSUME NEW time \in Nat, NEW t \in [PV -> {0, 1}], NEW l \in SUBSET PV, NEW b \in BOOLEAN
  PROVE  FlaggedOf(Flagged(CacheInit(time), l, t, b), time, l, t, b)
<1> DEFINE o == CacheInit(time)
           k == Flagged(o, l, t, b)
<1>8. k = [o EXCEPT !.latest = l, !.toggle = t, !.panic = b]
  BY DEF Flagged
<1> HIDE DEF k
<1>1. Initial(o, time) /\ o.writeq = <<>> /\ o.changed = FALSE
  BY PlainInitial
<1> HIDE DEF o
<1>2. o \in Cache
  BY <1>1 DEF Initial, CacheOK
<1>3. k \in Cache /\ k.toggle = t /\ k.panic = b /\ k.latest = l
  BY <1>2, <1>8 DEF Cache
<1>4. /\ SameEntries(k, o) /\ SameQueues(k, o) /\ k.writeq = o.writeq /\ k.changed = o.changed
      /\ k.inflight = o.inflight /\ k.clean = o.clean /\ k.clock = o.clock
  BY <1>2, <1>8 DEF Cache, SameEntries, SameQueues
<1>5. CacheOK(o) /\ IsInjective(k.writeq)
  BY <1>1, <1>4 DEF Initial, CacheOK
<1>6. CacheOK(k) /\ Hashed(k) = Hashed(o) /\ Named(k) = Named(o)
  BY <1>3, <1>4, <1>5, EntriesFrame
<1>7. Initial(k, time)
  BY <1>1, <1>4, <1>6 DEF Initial, SameEntries, SameQueues
<1> QED
  BY <1>1, <1>3, <1>4, <1>7 DEF FlaggedOf, o, k

\* No requests, and no entries in use.
LEMMA InitialStruct ==
  ASSUME NEW k, NEW time, Initial(k, time), NEW q, NEW L, Active(q) = {}, Held(q) = {}, L = <<>>
  PROVE  Struct(k, q, Counted(k, q, {})) /\ Waits(k, q, {}, L)
<1>1. ToSet(<<>>) = {} /\ IsInjective(<<>>)
  BY EmptySet
<1>2. Counted(k, q, {}) = {}
  BY DEF Counted
<1>3. \A e \in Entry : k.ent[e].iocnt = 0
  BY DEF Initial, NoEntry
<1>4. {e \in Entry : k.ent[e].iocnt = 0} = Entry
  BY <1>3
<1>5. Struct(k, q, {})
  BY <1>3, <1>4 DEF Struct, Initial
<1>6. \A p \in PV : k.pvwait[p] = <<>>
  BY DEF Initial
<1>7. Waits(k, q, {}, L)
  BY <1>1, <1>2, <1>6 DEF Waits, Initial
<1> QED
  BY <1>2, <1>5, <1>7

\* After a crash there are no requests.
LEMMA NoRequests ==
  LET q == [r \in Req |-> NoReq] IN ReqOK(q) /\ Active(q) = {} /\ Held(q) = {} /\ Below(q) = {}
<1>1. NoReq \in [at : {"idle", "held", "below"}, ltg : Ltg \cup {None}] /\ NoReq.at = "idle"
  BY DEF NoReq
<1> QED
  BY <1>1 DEF ReqOK, Requests, Active, Held, Below

-----------------------------------------------------------------------------
(* The structure of the cache is kept by every step.                       *)

\* What is to be shown of a step.
LEMMA NextStructure ==
  ASSUME StateOK', CacheOK(c'), ReqOK(req'), c'.go = {}, c'.done = {},
         ~c'.panic => Struct(c', req', Counted(c', req', {})) /\ Waits(c', req', {}, list')
  PROVE  SInv'
  BY DEF SInv

Asked(q, r, x) == [q EXCEPT ![r] = [at |-> "held", ltg |-> x]]

\* A request that lv_mwcm takes is held.
LEMMA NewRequest ==
  ASSUME ReqOK(req), NEW r \in Req, NEW x \in Ltg, req[r].at = "idle"
  PROVE  LET q == Asked(req, r, x) IN
         /\ ReqOK(q) /\ Active(q) = Active(req) \cup {r} /\ Held(q) = Held(req) \cup {r}
         /\ Below(q) = Below(req) /\ q[r].at = "held" /\ q[r].ltg = x
         /\ \A o \in Req : o # r => q[o] = req[o]
<1> DEFINE q == Asked(req, r, x)
           T == [at : {"idle", "held", "below"}, ltg : Ltg \cup {None}]
<1>1. req \in [Req -> T] /\ \A o \in Active(req) : req[o].ltg \in Ltg
  BY DEF ReqOK, Requests
<1>2. [at |-> "held", ltg |-> x] \in T
  OBVIOUS
<1> HIDE DEF T
<1>3. q \in [Req -> T] /\ q[r] = [at |-> "held", ltg |-> x] /\ \A o \in Req : o # r => q[o] = req[o]
  BY <1>1, <1>2 DEF Asked
<1> HIDE DEF q
<1>4. q[r].at = "held" /\ q[r].ltg = x
  BY <1>3
<1>5. /\ Active(q) = Active(req) \cup {r} /\ Held(q) = Held(req) \cup {r}
      /\ Below(q) = Below(req)
  BY <1>3, <1>4 DEF Active, Held, Below
<1>6. ReqOK(q)
  <2>1. ASSUME NEW o \in Active(q) PROVE q[o].ltg \in Ltg
    BY <1>1, <1>3, <1>4, <1>5 DEF Active
  <2> QED
    BY <1>3, <2>1 DEF ReqOK, Requests, T
<1> QED
  BY <1>3, <1>4, <1>5, <1>6 DEF q

\* lv_mwcm: what lv_checkcache is given and what it leaves.
LEMMA MwcmAgain ==
  ASSUME SInv, ~c.panic, NEW r \in Req, NEW x \in Ltg, req[r].at = "idle",
         NEW q, q = Asked(req, r, x)
  PROVE  /\ AgainOK(c, q, {r}, list) /\ AgainOK(CheckCache(c, r, x), q, {}, list)
         /\ Counted(c, q, {r}) = Counted(c, req, {})
<1>1. /\ CacheOK(c) /\ ReqOK(req) /\ c.go = {} /\ c.done = {} /\ list \in Seq(Req)
      /\ Struct(c, req, Counted(c, req, {})) /\ Waits(c, req, {}, list)
  BY DEF SInv, StateOK
<1>2. /\ ReqOK(q) /\ Active(q) = Active(req) \cup {r} /\ Held(q) = Held(req) \cup {r}
      /\ q[r].at = "held" /\ q[r].ltg = x
      /\ \A o \in Req : o # r => q[o] = req[o]
  BY <1>1, NewRequest
<1>3. r \notin Active(req) /\ Held(req) \subseteq Active(req) /\ Active(req) \subseteq Req
  BY DEF Active, Held
<1>4. Counted(c, q, {r}) = Counted(c, req, {})
  BY <1>1, <1>2, <1>3 DEF Counted
<1>5. Struct(c, q, Counted(c, q, {r}))
  <2>1. Hashed(c) \subseteq Entry
    BY <1>1, ChainSet DEF CacheOK
  <2>2. \A o \in Counted(c, req, {}) : q[o].ltg = req[o].ltg
    BY <1>2, <1>3 DEF Counted
  <2> QED
    BY <1>1, <1>4, <2>1, <2>2, StructFrame
<1>6. Waits(c, q, {r}, list)
  <2>1. r \notin ToSet(c.wait)
    BY <1>1, <1>3 DEF Waits
  <2> HIDE DEF Held
  <2> QED
    BY <1>1, <1>2, <1>4, <2>1 DEF Waits
<1>7. AgainOK(c, q, {r}, list)
  BY <1>1, <1>4, <1>5, <1>6 DEF AgainOK
<1>8. AgainOK(CheckCache(c, r, x), q, {}, list)
  <2> DEFINE n == CheckCache(c, r, q[r].ltg)
             H == {}
  <2>1. H \cup {r} = {r} /\ r \in Req \ H /\ H \in SUBSET Req
    OBVIOUS
  <2> HIDE DEF H, n
  <2>2. Struct(c, q, Counted(c, q, H \cup {r})) /\ Waits(c, q, H \cup {r}, list)
    BY <1>5, <1>6, <2>1
  <2>3. /\ CacheOK(n) /\ n.go \cup n.done \subseteq Held(q)
        /\ ~n.panic => Struct(n, q, Counted(n, q, H)) /\ Waits(n, q, H, list)
    BY <1>1, <1>2, <2>1, <2>2, CheckStruct DEF n
  <2>4. AgainOK(n, q, {}, list)
    BY <2>3 DEF AgainOK, H
  <2> QED
    BY <1>2, <2>4 DEF n
<1> QED
  BY <1>4, <1>7, <1>8

\* lv_mwcm keeps the structure.
LEMMA MwcmStructure ==
  ASSUME SInv, NEW r \in Req, NEW x \in Ltg, Mwcm(r, x)
  PROVE  SInv'
<1> DEFINE q == Asked(req, r, x)
           k == CheckCache(c, r, x)
<1>1. ~c.panic /\ req[r].at = "idle" /\ up = "up"
  BY DEF Mwcm, ThreadRuns, Running
<1>2. c' = Settled(k) /\ req' = Passed(k, q)
  BY DEF Mwcm, Settle, Settled, Passed, Asked
<1>3. AgainOK(k, q, {}, list) /\ ReqOK(q)
  BY <1>1, MwcmAgain, NewRequest DEF SInv
<1> HIDE DEF q, k
<1>4. /\ CacheOK(c') /\ ReqOK(req')
      /\ ~c'.panic => Struct(c', req', Counted(c', req', {})) /\ Waits(c', req', {}, list)
  BY <1>2, <1>3, SettleStruct DEF AgainOK
<1>5. c'.go = {} /\ c'.done = {}
  BY <1>2, <1>3, SettledFields DEF AgainOK, CacheOK
<1>6. StateOK' /\ list' = list
  <2>1. StateOK /\ UNCHANGED <<up, intr, list, err, disk, vgsa, torn, recover, errors, crashes>>
        /\ thr' = "start"
    BY DEF SInv, Mwcm
  <2> QED
    BY <1>1, <2>1 DEF StateOK, vgsa
<1> QED
  BY <1>4, <1>5, <1>6, NextStructure

\* Whatever leaves the queues of PVs alone, also when requests move.
LEMMA WaitsMove ==
  ASSUME NEW k, NEW n, NEW q, NEW o, NEW G, NEW H, NEW L,
         Waits(k, q, G, L), n.pvwait = k.pvwait,
         (Held(q) \cap Counted(k, q, G)) \ k.go \subseteq (Held(o) \cap Counted(n, o, H)) \ n.go,
         IsInjective(n.wait), ToSet(n.wait) \cap H = {},
         ToSet(n.wait) \cup H \cup n.done \cup n.go \subseteq Held(o),
         n.go \subseteq Counted(n, o, H), n.done \cap (ToSet(n.wait) \cup H) = {}
  PROVE  Waits(n, o, H, L)
<1>1. \A p \in PV : /\ IsInjective(n.pvwait[p])
                    /\ ToSet(n.pvwait[p]) \subseteq (Held(o) \cap Counted(n, o, H)) \ n.go
                    /\ ToSet(n.pvwait[p]) \cap ToSet(L) = {}
                    /\ \A a \in PV : a # p => ToSet(n.pvwait[p]) \cap ToSet(n.pvwait[a]) = {}
  BY DEF Waits
<1>2. IsInjective(L) /\ ToSet(L) \subseteq (Held(o) \cap Counted(n, o, H)) \ n.go
  BY DEF Waits
<1> QED
  BY <1>1, <1>2 DEF Waits

\* The request's entry has one request less.
ReleaseOf(n, k, e) ==
    /\ n \in Cache /\ n.ent[e].iocnt = k.ent[e].iocnt - 1
    /\ \A d \in Entry : /\ d # e => n.ent[d] = k.ent[d]
                        /\ n.ent[d].ltg = k.ent[d].ltg /\ n.ent[d].state = k.ent[d].state
                        /\ n.ent[d].pvol = k.ent[d].pvol
    /\ n.free = (IF k.ent[e].iocnt = 1 THEN k.free + 1 ELSE k.free)
    /\ n.lru = k.lru /\ n.chain = k.chain /\ SameQueues(n, k) /\ SameRecord(n, k)
    /\ n.writeq = k.writeq /\ n.clean = k.clean /\ n.panic = k.panic /\ n.latest = k.latest

\* A request returns: its entry's count is one less, and the entry is free after the last.
LEMMA ReleaseFields ==
  ASSUME NEW k \in Cache, NEW e \in Entry
  PROVE  ReleaseOf(Release(k, e, FALSE), k, e)
<1> DEFINE s == k.ent[e].state
           i == k.ent[e].iocnt - 1
           a == [k.ent EXCEPT ![e].iocnt = i]
           b == [a EXCEPT ![e].state = s]
           f == IF k.ent[e].iocnt = 1 THEN k.free + 1 ELSE k.free
           n == Release(k, e, FALSE)
<1>1. k.ent \in [Entry -> EntryT] /\ s \in {{}, {CHANGING}} /\ i \in Int /\ f \in Int
      /\ FROZEN \notin s
  <2>1. k.ent \in [Entry -> EntryT] /\ k.free \in Int
    BY ChainSet DEF Cache
  <2>2. k.ent[e].iocnt \in Int /\ s \in {{}, {CHANGING}}
    BY <2>1, EntryField
  <2>3. FROZEN \notin s
    BY <2>2, Consts
  <2> QED
    BY <2>1, <2>2, <2>3
<1>2. n = [k EXCEPT !.ent = b, !.free = f]
  <2>1. n = [k EXCEPT !.ent[e].iocnt = @ - 1, !.ent[e].state = s,
                      !.free = IF k.ent[e].iocnt = 1 THEN @ + 1 ELSE @]
    BY <1>1 DEF Release
  <2> QED
    BY <2>1
<1> HIDE DEF s, i, f
<1>3. /\ a \in [Entry -> EntryT] /\ a[e].iocnt = i
      /\ a[e].ltg = k.ent[e].ltg /\ a[e].state = k.ent[e].state /\ a[e].pvol = k.ent[e].pvol
      /\ \A d \in Entry : d # e => a[d] = k.ent[d]
  BY <1>1, CountChange
<1> HIDE DEF a
<1>4. /\ b \in [Entry -> EntryT] /\ b[e].state = s
      /\ b[e].ltg = a[e].ltg /\ b[e].iocnt = a[e].iocnt /\ b[e].pvol = a[e].pvol
      /\ \A d \in Entry : d # e => b[d] = a[d]
  <2>1. a \in [Entry -> EntryT] /\ s \in {{}, {CHANGING}}
    BY <1>1, <1>3
  <2> QED
    BY <2>1 DEF EntryT
<1> HIDE DEF b
<1>5. n \in Cache /\ n.ent = b /\ n.free = f
  BY <1>1, <1>2, <1>4 DEF Cache
<1>6. /\ n.lru = k.lru /\ n.chain = k.chain /\ SameQueues(n, k) /\ SameRecord(n, k)
      /\ n.writeq = k.writeq /\ n.clean = k.clean /\ n.panic = k.panic /\ n.latest = k.latest
  BY <1>2 DEF Cache, SameQueues, SameRecord
<1> HIDE DEF n
<1>7. /\ n.ent[e].iocnt = k.ent[e].iocnt - 1
      /\ \A d \in Entry : /\ d # e => n.ent[d] = k.ent[d]
                          /\ n.ent[d].ltg = k.ent[d].ltg /\ n.ent[d].state = k.ent[d].state
                          /\ n.ent[d].pvol = k.ent[d].pvol
  BY <1>3, <1>4, <1>5 DEF s, i
<1> QED
  BY <1>5, <1>6, <1>7 DEF ReleaseOf, n, f

\* What follows for the structure from the counts of the users.
LEMMA CountedCacheOK ==
  ASSUME NEW k, CacheOK(k), NEW n \in Cache, NEW q, NEW U \in SUBSET Req, Struct(n, q, U),
         n.lru = k.lru, IsInjective(n.chain), IsInjective(n.writeq),
         \A d \in Entry : n.ent[d].state = {CHANGING} => n.ent[d].pvol \in PV
  PROVE  CacheOK(n)
  BY StructBounds DEF CacheOK

\* A request that is below, or on the list, is found in the cache.
LEMMA FoundBelow ==
  ASSUME NEW k \in Cache, NEW q, NEW U, Struct(k, q, U), NEW r \in U
  PROVE  /\ Found(k, q[r].ltg) # {} /\ Search(k, q[r].ltg) \in Hashed(k)
         /\ Search(k, q[r].ltg) \in Entry
         /\ k.ent[Search(k, q[r].ltg)].ltg = q[r].ltg
<1>1. PICK e \in Hashed(k) : k.ent[e].ltg = q[r].ltg
  BY DEF Struct
<1> QED
  BY <1>1, SearchFinds

\* A request that the scheduler has is counted by an entry.
LEMMA BelowCounted ==
  ASSUME SInv, ~c.panic, NEW r \in Req, req[r].at = "below"
  PROVE  r \in Counted(c, req, {}) /\ r \notin Held(req) /\ req[r].ltg \in Ltg
<1>1. Waits(c, req, {}, list) /\ c.done = {} /\ ReqOK(req)
  BY DEF SInv
<1>2. r \in Active(req) /\ r \notin Held(req)
  BY DEF Active, Held
<1>3. r \notin ToSet(c.wait)
  BY <1>1, <1>2 DEF Waits
<1> QED
  BY <1>1, <1>2, <1>3 DEF Counted, ReqOK

Dropped(q, r) == [q EXCEPT ![r] = NoReq]
\* A request that has returned is idle.
LEMMA DropRequest ==
  ASSUME ReqOK(req), NEW r \in Req
  PROVE  LET q == Dropped(req, r) IN
         /\ ReqOK(q) /\ Active(q) = Active(req) \ {r} /\ Held(q) = Held(req) \ {r}
         /\ Below(q) = Below(req) \ {r}
         /\ \A o \in Req : o # r => q[o] = req[o]
<1> DEFINE q == Dropped(req, r)
           T == [at : {"idle", "held", "below"}, ltg : Ltg \cup {None}]
<1>1. req \in [Req -> T] /\ \A o \in Active(req) : req[o].ltg \in Ltg
  BY DEF ReqOK, Requests
<1>2. NoReq \in T /\ NoReq.at = "idle"
  BY DEF NoReq
<1> HIDE DEF T
<1>3. q \in [Req -> T] /\ q[r] = NoReq /\ \A o \in Req : o # r => q[o] = req[o]
  BY <1>1, <1>2 DEF Dropped
<1> HIDE DEF q
<1>5. /\ Active(q) = Active(req) \ {r} /\ Held(q) = Held(req) \ {r}
      /\ Below(q) = Below(req) \ {r}
  BY <1>2, <1>3 DEF Active, Held, Below
<1>6. ReqOK(q)
  <2>1. ASSUME NEW o \in Active(q) PROVE q[o].ltg \in Ltg
    BY <1>1, <1>3, <1>5 DEF Active
  <2> QED
    BY <1>3, <2>1 DEF ReqOK, Requests, T
<1> QED
  BY <1>3, <1>5, <1>6 DEF q

\* What MwcDone does, without its choices.
LEMMA DoneFields ==
  ASSUME SInv, ~MayLose, NEW r \in Req, MwcDone(r)
  PROVE  LET e == Search(c, req[r].ltg) IN
         /\ ~c.panic /\ up = "up" /\ intr = "idle" /\ req[r].at = "below"
         /\ r \in Counted(c, req, {}) /\ req[r].ltg \in Ltg
         /\ e \in Hashed(c) /\ e \in Entry /\ c.ent[e].ltg = req[r].ltg
         /\ c' = Release(c, e, FALSE) /\ ReleaseOf(c', c, e)
         /\ req' = Dropped(req, r)
         /\ intr' = (IF c'.free > c.free THEN "wait" ELSE "start")
<1> DEFINE e == Search(c, req[r].ltg)
<1>1. ~c.panic /\ up = "up" /\ intr = "idle" /\ req[r].at = "below"
      /\ req' = [req EXCEPT ![r] = NoReq]
  BY DEF MwcDone, Running
<1>2. /\ CacheOK(c) /\ c \in Cache /\ Struct(c, req, Counted(c, req, {}))
  BY <1>1 DEF SInv, CacheOK
<1>3. r \in Counted(c, req, {}) /\ req[r].ltg \in Ltg
  BY <1>1, BelowCounted
<1>4. Found(c, req[r].ltg) # {} /\ e \in Hashed(c) /\ e \in Entry /\ c.ent[e].ltg = req[r].ltg
  BY <1>2, <1>3, FoundBelow
<1>5. c' = Release(c, e, FALSE) /\ intr' = (IF c'.free > c.free THEN "wait" ELSE "start")
  <2>1. PICK fail \in SUBSET Fresh(req[r].ltg), frozen \in {FALSE, MayLose} :
          LET x == req[r].ltg
              k == IF Found(c, x) = {} THEN [c EXCEPT !.panic = TRUE]
                   ELSE Release(c, Search(c, x), frozen)
          IN  c' = k /\ intr' = (IF k.free > c.free THEN "wait" ELSE "start")
    BY DEF MwcDone
  <2>2. frozen = FALSE
    BY Consts
  <2> QED
    BY <1>4, <2>1, <2>2
<1>6. ReleaseOf(c', c, e)
  BY <1>2, <1>4, <1>5, ReleaseFields
<1> QED
  BY <1>1, <1>3, <1>4, <1>5, <1>6 DEF Dropped

\* lv_mwc_done keeps the structure when a request returns.
LEMMA DoneStructure ==
  ASSUME SInv, ~MayLose, NEW r \in Req, MwcDone(r)
  PROVE  SInv'
<1> DEFINE e == Search(c, req[r].ltg)
           U == Counted(c, req, {})
<1>1. /\ ~c.panic /\ up = "up" /\ intr = "idle" /\ req[r].at = "below"
      /\ r \in U /\ req[r].ltg \in Ltg
      /\ e \in Hashed(c) /\ e \in Entry /\ c.ent[e].ltg = req[r].ltg
      /\ ReleaseOf(c', c, e) /\ req' = Dropped(req, r)
      /\ intr' = (IF c'.free > c.free THEN "wait" ELSE "start")
  BY DoneFields
<1>2. /\ StateOK /\ CacheOK(c) /\ c \in Cache /\ ReqOK(req) /\ c.go = {} /\ c.done = {}
      /\ Struct(c, req, U) /\ Waits(c, req, {}, list)
  BY <1>1 DEF SInv, CacheOK
<1>3. /\ ReqOK(req') /\ Active(req') = Active(req) \ {r} /\ Held(req') = Held(req) \ {r}
      /\ \A o \in Req : o # r => req'[o] = req[o]
  BY <1>1, <1>2, DropRequest
<1>4. /\ c' \in Cache /\ c'.lru = c.lru /\ c'.chain = c.chain /\ SameQueues(c', c)
      /\ c'.writeq = c.writeq
  BY <1>1 DEF ReleaseOf
<1>5. c'.wait = c.wait /\ c'.pvwait = c.pvwait /\ c'.go = {} /\ c'.done = {}
  BY <1>2, <1>4 DEF SameQueues
<1> HIDE DEF e
<1>6. Counted(c', req', {}) = U \ {r}
  BY <1>2, <1>3, <1>5 DEF Counted
<1>7. Struct(c', req', U \ {r})
  <2>1. Struct(c', req, U \ {r})
    <3>1. U \in SUBSET Req /\ Hashed(c') = Hashed(c)
      BY <1>4 DEF Counted, Active, Hashed
    <3>2. c'.ent[e].iocnt = c.ent[e].iocnt - 1
      BY <1>1 DEF ReleaseOf
    <3>3. \A d \in Entry : /\ c'.ent[d].ltg = c.ent[d].ltg
                           /\ d # e => c'.ent[d].iocnt = c.ent[d].iocnt
      BY <1>1 DEF ReleaseOf
    <3>4. c'.free = IF c.ent[e].iocnt = 1 THEN c.free + 1 ELSE c.free
      BY <1>1 DEF ReleaseOf
    <3> HIDE DEF U
    <3> QED
      BY <1>1, <1>2, <3>1, <3>2, <3>3, <3>4, StructLeave
  <2>2. Hashed(c') \subseteq Entry
    BY <1>4, ChainSet
  <2>3. \A o \in U \ {r} : req'[o].ltg = req[o].ltg
    BY <1>3 DEF Counted, Active
  <2> HIDE DEF U
  <2> QED
    BY <2>1, <2>2, <2>3, StructFrame
<1>8. CacheOK(c')
  <2>1. IsInjective(c'.chain) /\ IsInjective(c'.writeq)
    BY <1>2, <1>4 DEF CacheOK
  <2>2. \A d \in Entry : c'.ent[d].state = {CHANGING} => c'.ent[d].pvol \in PV
    BY <1>1, <1>2 DEF ReleaseOf, CacheOK
  <2>3. U \ {r} \in SUBSET Req
    BY DEF Counted, Active
  <2> HIDE DEF U
  <2> QED
    BY <1>2, <1>4, <1>7, <2>1, <2>2, <2>3, CountedCacheOK
<1>9. Waits(c', req', {}, list)
  <2>1. r \notin Held(req)
    BY <1>1 DEF Held
  <2>2. Held(req') = Held(req)
    BY <1>3, <2>1
  <2>3. IsInjective(c.wait) /\ ToSet(c.wait) \subseteq Held(req)
    BY <1>2 DEF Waits
  <2>4. (Held(req) \cap Counted(c, req, {})) \ c.go
        \subseteq (Held(req') \cap Counted(c', req', {})) \ c'.go
    BY <1>2, <1>5, <1>6, <2>1, <2>2
  <2> HIDE DEF U
  <2> QED
    BY <1>2, <1>5, <2>2, <2>3, <2>4, WaitsMove
<1>10. StateOK' /\ list' = list
  <2>1. UNCHANGED <<up, thr, list, err, disk, missing, away, recover, crashes>>
    BY DEF MwcDone
  <2>2. lost' = FALSE /\ errors' \in Nat /\ stale' \subseteq Copy /\ torn' \subseteq Ltg
    <3>1. PICK fail \in SUBSET Fresh(req[r].ltg), frozen \in {FALSE, MayLose} :
             LET x == req[r].ltg
                 bad == fail \cup {m \in Fresh(x) : PvOf[x, m] \in missing}
                 broken == IF bad = {} THEN {} ELSE Broken(x, bad)
             IN  /\ errors' = IF fail # {} THEN errors + 1 ELSE errors
                 /\ Scheduled(x, broken, frozen) /\ lost' = (lost \/ frozen)
      BY DEF MwcDone
    <3> DEFINE x == req[r].ltg
               bad == fail \cup {m \in Fresh(x) : PvOf[x, m] \in missing}
               broken == IF bad = {} THEN {} ELSE Broken(x, bad)
    <3>2. frozen = FALSE
      BY Consts
    <3>3. broken \subseteq Fresh(x)
      BY DEF Broken
    <3>4. \A m \in Fresh(x) : <<x, m>> \in Copy
      BY <1>1 DEF Fresh, MirrorsOf, Copy
    <3>5. stale' = stale \cup {<<x, m>> : m \in broken} /\ torn' = torn
      BY <3>1, <3>2 DEF Scheduled
    <3>6. lost' = FALSE /\ errors' \in Nat
      <4>1. lost = FALSE /\ errors \in Nat
        BY <1>2 DEF StateOK
      <4>2. lost' = (lost \/ frozen) /\ errors' = (IF fail # {} THEN errors + 1 ELSE errors)
        BY <3>1
      <4>3. lost' = FALSE
        <5>1. lost' = (FALSE \/ FALSE)
          BY <3>2, <4>1, <4>2, Zenon
        <5> QED
          BY <5>1, Zenon
      <4>4. errors' = (IF fail # {} THEN errors + 1 ELSE errors)
        BY <4>2
      <4> QED
        BY <4>1, <4>3, <4>4
    <3> QED
      BY <1>2, <3>3, <3>4, <3>5, <3>6 DEF StateOK
  <2>3. intr' \in {"wait", "start"}
    BY <1>1
  <2> QED
    BY <1>1, <1>2, <2>1, <2>2, <2>3 DEF StateOK
<1> QED
  BY <1>3, <1>5, <1>6, <1>7, <1>8, <1>9, <1>10, NextStructure

\* lv_mwc_cache_done, as far as the list is taken: k before the entries are scrubbed, s
\* after, n in the end.
Taken(k) ==
    [k EXCEPT !.inflight = NoPv, !.pvwait[k.inflight] = <<>>, !.clean = None,
              !.panic = k.changed]
TakenOf(n, k) ==
    /\ n \in Cache /\ SameEntries(n, k) /\ n.inflight = NoPv /\ n.clean = None
    /\ n.panic = k.changed /\ n.pvwait = [k.pvwait EXCEPT ![k.inflight] = <<>>]
    /\ n.wait = k.wait /\ n.go = k.go /\ n.done = k.done /\ n.changed = k.changed
    /\ n.toggle = k.toggle /\ n.clock = k.clock /\ n.writeq = k.writeq
    /\ n.latest = k.latest

\* The fields that this sets have their types.
LEMMA TakenCache ==
  ASSUME NEW k \in Cache, NEW w \in [PV -> Seq(Req)], NEW b \in BOOLEAN
  PROVE  [k EXCEPT !.inflight = NoPv, !.pvwait = w, !.clean = None, !.panic = b] \in Cache
  BY DEF Cache

\* The queue of the PV that was written is taken as a whole.
LEMMA TakenFields ==
  ASSUME NEW k \in Cache, k.inflight # NoPv
  PROVE  TakenOf(Taken(k), k)
<1> DEFINE p == k.inflight
           w == [k.pvwait EXCEPT ![p] = <<>>]
           b == k.changed
           n == Taken(k)
<1>1. p \in PV /\ b \in BOOLEAN
  BY DEF Cache
<1>2. w \in [PV -> Seq(Req)]
  BY <1>1, ChainSet
<1>3. n = [k EXCEPT !.inflight = NoPv, !.pvwait = w, !.clean = None, !.panic = b]
  BY DEF Taken
<1> HIDE DEF w, b
<1>4. /\ n \in Cache /\ n.inflight = NoPv /\ n.clean = None /\ n.panic = b /\ n.pvwait = w
  <2>1. n \in Cache
    <3>1. [k EXCEPT !.inflight = NoPv, !.pvwait = w, !.clean = None, !.panic = b] \in Cache
      BY <1>1, <1>2, TakenCache
    <3> HIDE DEF n
    <3> QED
      BY <1>3, <3>1
  <2> QED
    BY <1>3, <2>1 DEF Cache
<1>5. /\ SameEntries(n, k) /\ n.wait = k.wait /\ n.go = k.go /\ n.done = k.done
      /\ n.changed = k.changed /\ n.toggle = k.toggle /\ n.clock = k.clock
      /\ n.writeq = k.writeq /\ n.latest = k.latest
  BY <1>3 DEF Cache, SameEntries
<1> HIDE DEF n
<1> QED
  BY <1>4, <1>5 DEF TakenOf, n, w, b

\* The record was written, or not: then the other location is the next one.
Written(k, p) == [k EXCEPT !.latest = @ \cup {p}]
Failed(k, p) == [k EXCEPT !.toggle[p] = 1 - @]
WriteEnd(n, k) ==
    /\ n \in Cache /\ SameEntries(n, k) /\ SameQueues(n, k)
    /\ n.changed = k.changed /\ n.inflight = k.inflight /\ n.clock = k.clock
    /\ n.writeq = k.writeq /\ n.clean = k.clean /\ n.panic = k.panic

\* How a write of the record ends: written, or failed, which turns the toggle round.
LEMMA WriteEndFields ==
  ASSUME NEW k \in Cache, NEW p \in PV
  PROVE  /\ WriteEnd(Written(k, p), k) /\ Written(k, p).toggle = k.toggle
         /\ WriteEnd(Failed(k, p), k) /\ Failed(k, p).toggle = [k.toggle EXCEPT ![p] = 1 - @]
<1>1. WriteEnd(Written(k, p), k) /\ Written(k, p).toggle = k.toggle
  <2> DEFINE l == k.latest \cup {p}
             n == Written(k, p)
  <2>1. l \in SUBSET PV
    BY DEF Cache
  <2>2. n = [k EXCEPT !.latest = l]
    BY DEF Written
  <2> HIDE DEF l
  <2>3. n \in Cache
    BY <2>1, <2>2 DEF Cache
  <2>4. /\ SameEntries(n, k) /\ SameQueues(n, k)
        /\ n.changed = k.changed /\ n.inflight = k.inflight /\ n.clock = k.clock
        /\ n.writeq = k.writeq /\ n.clean = k.clean /\ n.panic = k.panic
        /\ n.toggle = k.toggle
    BY <2>2 DEF Cache, SameEntries, SameQueues
  <2> QED
    BY <2>3, <2>4 DEF WriteEnd
<1>2. WriteEnd(Failed(k, p), k) /\ Failed(k, p).toggle = [k.toggle EXCEPT ![p] = 1 - @]
  <2> DEFINE t == [k.toggle EXCEPT ![p] = 1 - @]
             n == Failed(k, p)
  <2>1. t \in [PV -> {0, 1}]
    <3>1. k.toggle \in [PV -> {0, 1}]
      BY DEF Cache
    <3> QED
      BY <3>1
  <2>2. n = [k EXCEPT !.toggle = t]
    BY DEF Failed
  <2> HIDE DEF t
  <2>3. n \in Cache /\ n.toggle = t
    BY <2>1, <2>2 DEF Cache
  <2>4. /\ SameEntries(n, k) /\ SameQueues(n, k)
        /\ n.changed = k.changed /\ n.inflight = k.inflight /\ n.clock = k.clock
        /\ n.writeq = k.writeq /\ n.clean = k.clean /\ n.panic = k.panic
    BY <2>2 DEF Cache, SameEntries, SameQueues
  <2> QED
    BY <2>3, <2>4 DEF WriteEnd, t
<1> QED
  BY <1>1, <1>2

\* RecordDone step by step.
ScrubFor(k, l) == IF l # None THEN Scrub(k, l) ELSE k
RecordTo(p) == [ts |-> c.clock, ltgs |-> Named(c)]
\* What the first section of lv_mwc_cache_done does.
LEMMA RecordDoneFields ==
  ASSUME SInv, RecordDone
  PROVE  LET p == c.inflight
             k == Taken(c)
             s == ScrubFor(k, c.clean) IN
         /\ ~c.panic /\ up = "up" /\ intr = "idle" /\ p \in PV /\ list = <<>>
         /\ TakenOf(k, c) /\ ScrubOf(s, k, req, Counted(c, req, {}))
         /\ WriteEnd(c', s) /\ list' = c.pvwait[p] /\ req' = req
         /\ intr' = (IF c.pvwait[p] = <<>> THEN "wait" ELSE "list")
         /\ err' \in BOOLEAN
         /\ ~err' => /\ c'.toggle = c.toggle /\ errors' = errors
                     /\ disk' = [disk EXCEPT ![p][c.toggle[p]] = RecordTo(p)]
         /\ err' => /\ c'.toggle = [c.toggle EXCEPT ![p] = 1 - @] /\ errors' = errors + 1
                    /\ \/ disk' = disk
                       \/ disk' = [disk EXCEPT ![p][c.toggle[p]] = NoRec]
<1> DEFINE p == c.inflight
           k == Taken(c)
           s == ScrubFor(k, c.clean)
           U == Counted(c, req, {})
<1>1. /\ ~c.panic /\ up = "up" /\ intr = "idle" /\ p # NoPv /\ list' = c.pvwait[p]
      /\ intr' = (IF c.pvwait[p] = <<>> THEN "wait" ELSE "list") /\ req' = req
  BY DEF RecordDone, Running
<1>2. CacheOK(c) /\ c \in Cache /\ Struct(c, req, U) /\ list = <<>>
  BY <1>1 DEF SInv, CacheOK, StateOK
<1>3. TakenOf(k, c) /\ p \in PV
  BY <1>1, <1>2, TakenFields DEF Cache
<1>4. \/ /\ disk' = [disk EXCEPT ![p][c.toggle[p]] = RecordTo(p)]
         /\ c' = Written(s, p) /\ err' = FALSE /\ errors' = errors
      \/ /\ errors' = errors + 1 /\ c' = Failed(s, p) /\ err' = TRUE
         /\ disk' \in {disk, [disk EXCEPT ![p][c.toggle[p]] = NoRec]}
  BY DEF RecordDone, ScrubFor, Written, Failed, Taken, RecordTo
<1> HIDE DEF k
<1>5. k \in Cache /\ SameEntries(k, c) /\ IsInjective(k.writeq) /\ k.toggle = c.toggle
  BY <1>2, <1>3 DEF TakenOf, CacheOK
<1>6. CacheOK(k) /\ Struct(k, req, U)
  BY <1>2, <1>5, EntriesFrame
<1>7. ScrubOf(s, k, req, U)
  <2>1. CASE c.clean = None
    <3>1. s = k
      BY <2>1 DEF ScrubFor
    <3> QED
      BY <1>6, <3>1, ScrubNone
  <2>2. CASE c.clean # None
    <3>1. s = Scrub(k, c.clean)
      BY <2>2 DEF ScrubFor
    <3>2. U \in SUBSET Req
      BY DEF Counted, Active
    <3> HIDE DEF U
    <3> QED
      BY <1>6, <3>1, <3>2, ScrubStruct
  <2> QED
    BY <2>1, <2>2
<1> HIDE DEF s, U
<1>8. s \in Cache /\ s.toggle = c.toggle
  BY <1>5, <1>7 DEF ScrubOf, CacheOK
<1>9. /\ WriteEnd(Written(s, p), s) /\ Written(s, p).toggle = c.toggle
      /\ WriteEnd(Failed(s, p), s) /\ Failed(s, p).toggle = [c.toggle EXCEPT ![p] = 1 - @]
  BY <1>3, <1>8, WriteEndFields
<1> QED
  BY <1>1, <1>2, <1>3, <1>4, <1>7, <1>9 DEF s, U, k

\* The first section of lv_mwc_cache_done keeps the structure.
LEMMA RecordDoneStructure ==
  ASSUME SInv, RecordDone
  PROVE  SInv'
<1> DEFINE p == c.inflight
           k == Taken(c)
           s == ScrubFor(k, c.clean)
           U == Counted(c, req, {})
<1>1. /\ ~c.panic /\ up = "up" /\ intr = "idle" /\ p \in PV /\ list = <<>>
      /\ TakenOf(k, c) /\ ScrubOf(s, k, req, U)
      /\ WriteEnd(c', s) /\ list' = c.pvwait[p] /\ req' = req
      /\ intr' = (IF c.pvwait[p] = <<>> THEN "wait" ELSE "list")
      /\ err' \in BOOLEAN
  BY RecordDoneFields
<1>2. /\ StateOK /\ CacheOK(c) /\ c \in Cache /\ ReqOK(req) /\ c.go = {} /\ c.done = {}
      /\ Struct(c, req, U) /\ Waits(c, req, {}, list)
  BY <1>1 DEF SInv, CacheOK
<1> HIDE DEF k, s
<1>3. /\ CacheOK(c')
      /\ ~c'.panic => Struct(c', req, U)
  <2>1. CacheOK(s) /\ c' \in Cache /\ SameEntries(c', s) /\ IsInjective(c'.writeq)
        /\ c'.panic = s.panic
    BY <1>1 DEF ScrubOf, WriteEnd, CacheOK
  <2>2. CacheOK(c') /\ \A q, V : Struct(s, q, V) => Struct(c', q, V)
    BY <2>1, EntriesFrame
  <2> QED
    BY <1>1, <2>1, <2>2 DEF ScrubOf
<1>4. /\ c'.wait = c.wait /\ c'.go = {} /\ c'.done = {}
      /\ c'.pvwait = [c.pvwait EXCEPT ![p] = <<>>]
  BY <1>1, <1>2 DEF TakenOf, ScrubOf, WriteEnd, SameQueues
<1>5. Counted(c', req, {}) = U
  BY <1>2, <1>4 DEF Counted
<1>6. Waits(c', req, {}, list')
  <2> DEFINE M == Held(req) \cap U
  <2>1. \A a \in PV : /\ IsInjective(c.pvwait[a])
                      /\ ToSet(c.pvwait[a]) \subseteq M
                      /\ \A b \in PV : b # a => ToSet(c.pvwait[a]) \cap ToSet(c.pvwait[b]) = {}
    BY <1>2 DEF Waits
  <2>2. c.pvwait \in [PV -> Seq(Req)]
    BY <1>2, ChainSet
  <2>3. c'.pvwait[p] = <<>> /\ \A a \in PV : a # p => c'.pvwait[a] = c.pvwait[a]
    BY <1>1, <1>4, <2>2
  <2>4. ToSet(<<>>) = {} /\ IsInjective(<<>>)
    BY EmptySet
  <2> HIDE DEF M
  <2>5. \A a \in PV : /\ IsInjective(c'.pvwait[a])
                      /\ ToSet(c'.pvwait[a]) \subseteq M \ c'.go
                      /\ ToSet(c'.pvwait[a]) \cap ToSet(list') = {}
                      /\ \A b \in PV : b # a => ToSet(c'.pvwait[a]) \cap ToSet(c'.pvwait[b]) = {}
    BY <1>1, <1>4, <2>1, <2>3, <2>4
  <2>6. IsInjective(list') /\ ToSet(list') \subseteq M \ c'.go
    BY <1>1, <1>4, <2>1
  <2>7. /\ IsInjective(c'.wait) /\ ToSet(c'.wait) \cap {} = {}
        /\ ToSet(c'.wait) \cup {} \cup c'.done \cup c'.go \subseteq Held(req)
        /\ c'.go \subseteq U /\ c'.done \cap (ToSet(c'.wait) \cup {}) = {}
    BY <1>2, <1>4 DEF Waits
  <2> QED
    BY <1>5, <2>5, <2>6, <2>7 DEF Waits, M
<1>7. StateOK'
  <2>1. UNCHANGED <<up, req, thr, vgsa, torn, recover, crashes>>
    BY DEF RecordDone
  <2>2. list' \in Seq(Req) /\ (intr' = "list" <=> list' # <<>>) /\ intr' \in {"wait", "list"}
    BY <1>1, <1>2, ChainSet
  <2>3. disk' \in [PV -> [{0, 1} -> Rec]] /\ errors' \in Nat
    <3>1. RecordTo(p) \in Rec
      <4>1. Named(c) \subseteq Ltg
        <5>1. \A e \in Entry : c.ent[e].ltg \in Ltg \cup {None}
          BY <1>2, ChainSet, EntryField
        <5> QED
          BY <5>1 DEF Named
      <4>2. c.clock \in Nat
        BY <1>2 DEF Cache
      <4> QED
        BY <4>1, <4>2 DEF RecordTo, Rec
    <3>2. NoRec \in Rec
      BY DEF NoRec, Rec
    <3>3. disk \in [PV -> [{0, 1} -> Rec]] /\ c.toggle[p] \in {0, 1} /\ errors \in Nat
      <4>1. c.toggle \in [PV -> {0, 1}]
        BY <1>2 DEF Cache
      <4> QED
        BY <1>1, <1>2, <4>1 DEF StateOK
    <3>4. \A x \in Rec : [disk EXCEPT ![p][c.toggle[p]] = x] \in [PV -> [{0, 1} -> Rec]]
      BY <1>1, <3>3
    <3>5. \/ disk' = [disk EXCEPT ![p][c.toggle[p]] = RecordTo(p)] /\ errors' = errors
          \/ disk' = disk /\ errors' = errors + 1
          \/ disk' = [disk EXCEPT ![p][c.toggle[p]] = NoRec] /\ errors' = errors + 1
      BY RecordDoneFields
    <3> QED
      BY <3>1, <3>2, <3>3, <3>4, <3>5
  <2> QED
    BY <1>1, <1>2, <2>1, <2>2, <2>3 DEF StateOK, vgsa
<1> QED
  BY <1>1, <1>2, <1>3, <1>4, <1>5, <1>6, <1>7, NextStructure

\* The next request of the list: err is FALSE.
Recovered(k, e, r) == [k EXCEPT !.ent[e].state = @ \ {CHANGING}, !.go = {r}]
RecoveredOf(n, k, e, r) ==
    /\ n \in Cache /\ n.go = {r} /\ n.ent[e].state = {}
    /\ \A d \in Entry : /\ d # e => n.ent[d] = k.ent[d]
                        /\ n.ent[d].ltg = k.ent[d].ltg /\ n.ent[d].iocnt = k.ent[d].iocnt
                        /\ n.ent[d].pvol = k.ent[d].pvol
    /\ n.lru = k.lru /\ n.chain = k.chain /\ n.free = k.free
    /\ n.wait = k.wait /\ n.pvwait = k.pvwait /\ n.done = k.done /\ SameRecord(n, k)
    /\ n.writeq = k.writeq /\ n.clean = k.clean /\ n.panic = k.panic /\ n.latest = k.latest

\* A request whose record is written is let go, and its entry is no more CHANGING.
LEMMA RecoveredFields ==
  ASSUME NEW k \in Cache, NEW e \in Entry, NEW r \in Req
  PROVE  RecoveredOf(Recovered(k, e, r), k, e, r)
<1> DEFINE a == [k.ent EXCEPT ![e].state = {}]
           n == Recovered(k, e, r)
<1>1. k.ent \in [Entry -> EntryT] /\ k.ent[e].state \in {{}, {CHANGING}}
  BY ChainSet, EntryField
<1>2. k.ent[e].state \ {CHANGING} = {}
  BY <1>1
<1>3. n = [k EXCEPT !.ent = a, !.go = {r}]
  <2>1. [k.ent EXCEPT ![e].state = @ \ {CHANGING}] = a
    BY <1>1, <1>2
  <2>2. n = [k EXCEPT !.ent = [k.ent EXCEPT ![e].state = @ \ {CHANGING}], !.go = {r}]
    BY DEF Recovered
  <2> HIDE DEF a, n
  <2> QED
    BY <2>1, <2>2
<1>4. /\ a \in [Entry -> EntryT] /\ a[e].state = {}
      /\ a[e].ltg = k.ent[e].ltg /\ a[e].iocnt = k.ent[e].iocnt /\ a[e].pvol = k.ent[e].pvol
      /\ \A d \in Entry : d # e => a[d] = k.ent[d]
  BY <1>1 DEF EntryT
<1> HIDE DEF a
<1>5. n \in Cache /\ n.ent = a /\ n.go = {r}
  <2>1. k \in Cache /\ {r} \in SUBSET Req
    OBVIOUS
  <2> QED
    BY <1>3, <1>4, <2>1 DEF Cache
<1>6. /\ n.lru = k.lru /\ n.chain = k.chain /\ n.free = k.free
      /\ n.wait = k.wait /\ n.pvwait = k.pvwait /\ n.done = k.done /\ SameRecord(n, k)
      /\ n.writeq = k.writeq /\ n.clean = k.clean /\ n.panic = k.panic /\ n.latest = k.latest
  BY <1>3 DEF Cache, SameRecord
<1> HIDE DEF n
<1> QED
  BY <1>4, <1>5, <1>6 DEF RecoveredOf, n

\* With an error, and no PV for the record: the request leaves, and with the last one
\* the entry.
GivenUp(n, k, e, r) ==
    /\ n \in Cache /\ n.done = {r}
    /\ \/ /\ k.ent[e].iocnt # 1 /\ Hashed(n) = Hashed(k) /\ n.free = k.free
          /\ n.ent[e].iocnt = k.ent[e].iocnt - 1 /\ n.ent[e].ltg = k.ent[e].ltg
          /\ n.ent[e].state = k.ent[e].state /\ n.ent[e].pvol = k.ent[e].pvol
       \/ /\ k.ent[e].iocnt = 1 /\ Hashed(n) = Hashed(k) \ {e} /\ n.free = k.free + 1
          /\ n.ent[e] = NoEntry
    /\ \A d \in Entry : d # e => n.ent[d] = k.ent[d]
    /\ n.wait = k.wait /\ n.pvwait = k.pvwait /\ n.go = k.go /\ SameRecord(n, k)
    /\ n.writeq = k.writeq /\ n.clean = k.clean /\ n.panic = k.panic
    /\ ToSet(n.lru) = Entry /\ Len(n.lru) = Len(k.lru) /\ IsInjective(n.chain)

\* A request whose record can be written nowhere is refused; the entry forgets it.
LEMMA GiveUpFields ==
  ASSUME NEW k, CacheOK(k), NEW e \in Hashed(k), NEW r \in Req, k.ent[e].iocnt >= 1
  PROVE  GivenUp(GiveUp(k, e, r), k, e, r)
<1> DEFINE i == k.ent[e].iocnt - 1
           a == [k.ent EXCEPT ![e].iocnt = i]
           m == [k EXCEPT !.ent = a, !.done = {r}]
           n == GiveUp(k, e, r)
<1>1. /\ k \in Cache /\ k.ent \in [Entry -> EntryT] /\ e \in Entry /\ i \in Nat
      /\ k.ent[e].iocnt \in 0 .. Cardinality(Req) /\ Cardinality(Req) \in Nat
      /\ ToSet(k.lru) = Entry /\ IsInjective(k.chain) /\ IsInjective(k.writeq)
      /\ k.free \in Int
  <2>1. k \in Cache /\ k.ent \in [Entry -> EntryT] /\ e \in Entry /\ Cardinality(Req) \in Nat
    BY ChainSet, Consts, FS_CardinalityType DEF CacheOK
  <2>2. k.ent[e].iocnt \in 0 .. Cardinality(Req)
    BY <2>1 DEF CacheOK
  <2> QED
    BY <2>1, <2>2 DEF CacheOK, Cache
<1>2. /\ a \in [Entry -> EntryT] /\ a[e].iocnt = i
      /\ a[e].ltg = k.ent[e].ltg /\ a[e].state = k.ent[e].state /\ a[e].pvol = k.ent[e].pvol
      /\ \A d \in Entry : d # e => a[d] = k.ent[d]
  BY <1>1, CountChange
<1>3. n = IF m.ent[e].iocnt > 0 THEN m ELSE [CacheRemove(m, e) EXCEPT !.free = @ + 1]
  BY DEF GiveUp
<1> HIDE DEF a
<1>4. m \in Cache /\ m.ent = a /\ m.done = {r}
  BY <1>1, <1>2 DEF Cache
<1>5. /\ m.lru = k.lru /\ m.chain = k.chain /\ m.free = k.free
      /\ m.wait = k.wait /\ m.pvwait = k.pvwait /\ m.go = k.go /\ SameRecord(m, k)
      /\ m.writeq = k.writeq /\ m.clean = k.clean /\ m.panic = k.panic
  BY <1>1 DEF Cache, SameRecord
<1> HIDE DEF m, n
<1>6. Hashed(m) = Hashed(k)
  BY <1>5 DEF Hashed
<1>7. CacheOK(m)
  <2>1. ASSUME NEW d \in Entry
        PROVE  /\ m.ent[d].iocnt \in 0 .. Cardinality(Req)
               /\ m.ent[d].state = {CHANGING} => m.ent[d].pvol \in PV
    <3>1. /\ k.ent[d].iocnt \in 0 .. Cardinality(Req)
          /\ k.ent[d].state = {CHANGING} => k.ent[d].pvol \in PV
      BY DEF CacheOK
    <3>2. i \in 0 .. Cardinality(Req)
      BY <1>1
    <3> QED
      BY <1>2, <1>4, <3>1, <3>2
  <2> QED
    BY <1>4, <1>5, <2>1 DEF CacheOK
<1>8. CASE k.ent[e].iocnt # 1
  <2>1. m.ent[e].iocnt > 0
    BY <1>1, <1>2, <1>4, <1>8
  <2>2. n = m
    BY <1>3, <2>1
  <2>3. /\ n \in Cache /\ n.done = {r} /\ Hashed(n) = Hashed(k) /\ n.free = k.free
        /\ n.ent[e].iocnt = k.ent[e].iocnt - 1 /\ n.ent[e].ltg = k.ent[e].ltg
        /\ n.ent[e].state = k.ent[e].state /\ n.ent[e].pvol = k.ent[e].pvol
        /\ \A d \in Entry : d # e => n.ent[d] = k.ent[d]
    BY <1>2, <1>4, <1>5, <1>6, <2>2
  <2>4. /\ n.wait = k.wait /\ n.pvwait = k.pvwait /\ n.go = k.go /\ SameRecord(n, k)
        /\ n.writeq = k.writeq /\ n.clean = k.clean /\ n.panic = k.panic
        /\ n.lru = k.lru /\ n.chain = k.chain
    BY <1>5, <2>2
  <2>5. ToSet(n.lru) = Entry /\ Len(n.lru) = Len(k.lru) /\ IsInjective(n.chain)
    BY <1>1, <2>4
  <2> HIDE DEF i
  <2> QED
    BY <1>8, <2>3, <2>4, <2>5 DEF GivenUp, n
<1>9. CASE k.ent[e].iocnt = 1
  <2> DEFINE s == CacheRemove(m, e)
  <2>1. ~(m.ent[e].iocnt > 0)
    BY <1>1, <1>2, <1>4, <1>9
  <2>2. n = [s EXCEPT !.free = @ + 1]
    BY <1>3, <2>1
  <2>3. /\ s \in Cache /\ CacheOK(s) /\ Hashed(s) = Hashed(m) \ {e}
        /\ s.ent[e] = NoEntry /\ \A d \in Entry : d # e => s.ent[d] = m.ent[d]
        /\ s.free = m.free /\ SameQueues(s, m) /\ SameRecord(s, m)
        /\ s.writeq = m.writeq /\ s.clean = m.clean /\ s.panic = m.panic
    BY <1>6, <1>7, RemoveFields
  <2> HIDE DEF s
  <2>4. s.free + 1 \in Int
    BY <1>1, <1>5, <2>3
  <2>5. n \in Cache /\ n.free = s.free + 1
    BY <2>2, <2>3, <2>4 DEF Cache
  <2>6. /\ n.ent = s.ent /\ n.chain = s.chain /\ n.lru = s.lru /\ SameQueues(n, s)
        /\ SameRecord(n, s) /\ n.writeq = s.writeq /\ n.clean = s.clean /\ n.panic = s.panic
    BY <2>2, <2>3 DEF Cache, SameQueues, SameRecord
  <2>7. Hashed(n) = Hashed(k) \ {e} /\ n.free = k.free + 1
    BY <1>5, <1>6, <2>3, <2>5, <2>6 DEF Hashed
  <2>8. \A d \in Entry : d # e => n.ent[d] = k.ent[d]
    BY <1>2, <1>4, <2>3, <2>6
  <2>9. /\ n.wait = k.wait /\ n.pvwait = k.pvwait /\ n.go = k.go /\ SameRecord(n, k)
        /\ n.writeq = k.writeq /\ n.clean = k.clean /\ n.panic = k.panic /\ n.done = {r}
    BY <1>4, <1>5, <2>3, <2>6 DEF SameQueues, SameRecord
  <2>10. ToSet(n.lru) = Entry /\ Len(n.lru) = Len(k.lru) /\ IsInjective(n.chain)
    BY <1>1, <2>3, <2>6 DEF CacheOK
  <2>11. n.ent[e] = NoEntry
    BY <2>3, <2>6
  <2>12. /\ n \in Cache /\ k.ent[e].iocnt = 1 /\ Hashed(n) = Hashed(k) \ {e}
         /\ n.free = k.free + 1 /\ n.ent[e] = NoEntry
    BY <1>9, <2>5, <2>7, <2>11
  <2> HIDE DEF i
  <2> QED
    BY <2>8, <2>9, <2>10, <2>12 DEF GivenUp, n
<1> QED
  BY <1>8, <1>9 DEF n

\* What the next request of the list comes to.
LEMMA NextFields ==
  ASSUME SInv, RecordDoneNext
  PROVE  LET r == Head(list)
             x == req[r].ltg
             e == Search(c, x) IN
         /\ ~c.panic /\ up = "up" /\ intr = "list" /\ list # <<>> /\ r \in Req
         /\ x \in Ltg /\ r \in Held(req) /\ r \in Counted(c, req, {})
         /\ e \in Hashed(c) /\ e \in Entry /\ c.ent[e].ltg = x
         /\ list' = Tail(list) /\ intr' = (IF Tail(list) = <<>> THEN "wait" ELSE "list")
         /\ err' = err
         /\ \/ /\ ~err
               /\ c' = Settled(Recovered(c, e, r)) /\ req' = Passed(Recovered(c, e, r), req)
            \/ /\ err /\ NoPlace(c, x)
               /\ c' = Settled(GiveUp(c, e, r)) /\ req' = Passed(GiveUp(c, e, r), req)
            \/ /\ err /\ ~NoPlace(c, x)
               /\ c' = Settled(Queue(c, e, r, x)) /\ req' = Passed(Queue(c, e, r, x), req)
<1> DEFINE r == Head(list)
           x == req[r].ltg
           e == Search(c, x)
           U == Counted(c, req, {})
<1>1. ~c.panic /\ up = "up" /\ intr = "list" /\ err' = err
  BY DEF RecordDoneNext, Running
<1>2. /\ c \in Cache /\ Struct(c, req, U) /\ Waits(c, req, {}, list) /\ ReqOK(req)
      /\ list \in Seq(Req) /\ list # <<>>
  BY <1>1 DEF SInv, CacheOK, StateOK
<1>3. r \in Req /\ r \in ToSet(list)
  BY <1>2, TailSet
<1>4. r \in Held(req) /\ r \in U
  BY <1>2, <1>3 DEF Waits
<1>5. x \in Ltg
  BY <1>2, <1>4 DEF ReqOK, Counted
<1>6. Found(c, x) # {} /\ e \in Hashed(c) /\ e \in Entry /\ c.ent[e].ltg = x
  BY <1>2, <1>4, FoundBelow
<1>7. list' = Tail(list) /\ intr' = (IF Tail(list) = <<>> THEN "wait" ELSE "list")
  BY DEF RecordDoneNext
<1>8. Settle(IF ~err THEN Recovered(c, e, r)
             ELSE IF NoPlace(c, x) THEN GiveUp(c, e, r)
             ELSE Queue(c, e, r, x), req)
  BY <1>6 DEF RecordDoneNext, Recovered
<1> HIDE DEF e, x, r
<1>9. \A k : Settle(k, req) => c' = Settled(k) /\ req' = Passed(k, req)
  BY DEF Settle, Settled, Passed
<1>10. \/ /\ ~err
          /\ c' = Settled(Recovered(c, e, r)) /\ req' = Passed(Recovered(c, e, r), req)
       \/ /\ err /\ NoPlace(c, x)
          /\ c' = Settled(GiveUp(c, e, r)) /\ req' = Passed(GiveUp(c, e, r), req)
       \/ /\ err /\ ~NoPlace(c, x)
          /\ c' = Settled(Queue(c, e, r, x)) /\ req' = Passed(Queue(c, e, r, x), req)
  <2>1. CASE ~err
    BY <1>8, <1>9, <2>1
  <2>2. CASE err /\ NoPlace(c, x)
    BY <1>8, <1>9, <2>2
  <2>3. CASE err /\ ~NoPlace(c, x)
    BY <1>8, <1>9, <2>3
  <2> QED
    BY <2>1, <2>2, <2>3
<1> QED
  BY <1>1, <1>2, <1>3, <1>4, <1>5, <1>6, <1>7, <1>10 DEF e, x, r

\* The head of the list leaves it.
LEMMA HeadLeaves ==
  ASSUME NEW k, NEW q, NEW L \in Seq(Req), L # <<>>, Waits(k, q, {}, L), k.go = {}
  PROVE  LET r == Head(L)
             M == Held(q) \cap Counted(k, q, {}) IN
         /\ r \in M /\ Waits(k, q, {}, Tail(L)) /\ r \notin ToSet(Tail(L))
         /\ \A p \in PV : r \notin ToSet(k.pvwait[p])
         /\ \A p \in PV : /\ IsInjective(k.pvwait[p]) /\ ToSet(k.pvwait[p]) \subseteq M \ {r}
                          /\ ToSet(k.pvwait[p]) \cap ToSet(Tail(L)) = {}
                          /\ \A o \in PV : o # p =>
                                ToSet(k.pvwait[p]) \cap ToSet(k.pvwait[o]) = {}
         /\ IsInjective(Tail(L)) /\ ToSet(Tail(L)) \subseteq M \ {r}
         /\ IsInjective(k.wait) /\ ToSet(k.wait) \cup k.done \subseteq Held(q)
         /\ k.done \cap ToSet(k.wait) = {} /\ r \notin ToSet(k.wait)
<1> DEFINE r == Head(L)
           M == Held(q) \cap Counted(k, q, {})
<1>1. /\ ToSet(L) = ToSet(Tail(L)) \cup {r} /\ IsInjective(Tail(L)) /\ r \notin ToSet(Tail(L))
  <2>1. IsInjective(L)
    BY DEF Waits
  <2> QED
    BY <2>1, TailSet
<1> HIDE DEF r
<1>2. /\ IsInjective(k.wait) /\ ToSet(k.wait) \cup k.done \subseteq Held(q)
      /\ k.done \cap ToSet(k.wait) = {} /\ ToSet(L) \subseteq M
  BY DEF Waits
<1>3. \A p \in PV : /\ IsInjective(k.pvwait[p]) /\ ToSet(k.pvwait[p]) \subseteq M
                    /\ ToSet(k.pvwait[p]) \cap ToSet(L) = {}
                    /\ \A o \in PV : o # p => ToSet(k.pvwait[p]) \cap ToSet(k.pvwait[o]) = {}
  BY DEF Waits
<1>4. r \in M /\ r \notin ToSet(k.wait)
  <2>1. r \in M
    BY <1>1, <1>2
  <2>2. Counted(k, q, {}) \cap ToSet(k.wait) = {}
    BY DEF Counted
  <2> QED
    BY <2>1, <2>2
<1>5. \A p \in PV : r \notin ToSet(k.pvwait[p])
  BY <1>1, <1>3
<1>6. Waits(k, q, {}, Tail(L))
  <2>1. \A p \in PV : /\ IsInjective(k.pvwait[p])
                      /\ ToSet(k.pvwait[p]) \subseteq M \ k.go
                      /\ ToSet(k.pvwait[p]) \cap ToSet(Tail(L)) = {}
                      /\ \A o \in PV : o # p => ToSet(k.pvwait[p]) \cap ToSet(k.pvwait[o]) = {}
    BY <1>1, <1>3
  <2>2. IsInjective(Tail(L)) /\ ToSet(Tail(L)) \subseteq M \ k.go
    BY <1>1, <1>2
  <2>3. /\ IsInjective(k.wait) /\ ToSet(k.wait) \cap {} = {}
        /\ ToSet(k.wait) \cup {} \cup k.done \cup k.go \subseteq Held(q)
        /\ k.go \subseteq Counted(k, q, {}) /\ k.done \cap (ToSet(k.wait) \cup {}) = {}
    BY DEF Waits
  <2> QED
    BY <2>1, <2>2, <2>3 DEF Waits
<1>7. \A p \in PV : /\ IsInjective(k.pvwait[p]) /\ ToSet(k.pvwait[p]) \subseteq M \ {r}
                    /\ ToSet(k.pvwait[p]) \cap ToSet(Tail(L)) = {}
                    /\ \A o \in PV : o # p => ToSet(k.pvwait[p]) \cap ToSet(k.pvwait[o]) = {}
  BY <1>1, <1>3, <1>5
<1> HIDE DEF M
<1> QED
  BY <1>1, <1>2, <1>4, <1>5, <1>6, <1>7 DEF r, M

\* The request that lv_mwc_cache_done looks at has an entry that counts it.
LEMMA NextEntry ==
  ASSUME NEW k, CacheOK(k), NEW q, NEW U \in SUBSET Req, Struct(k, q, U), NEW r \in U,
         NEW e \in Hashed(k), k.ent[e].ltg = q[r].ltg
  PROVE  e \in Entry /\ k.ent[e].iocnt >= 1
<1>1. k \in Cache /\ e \in Entry
  BY ChainSet DEF CacheOK
<1>2. r \in UsersOf(U, q, k.ent[e].ltg) /\ k.ent[e].iocnt = Cardinality(UsersOf(U, q, k.ent[e].ltg))
  BY DEF UsersOf, Struct
<1>3. /\ IsFiniteSet(UsersOf(U, q, k.ent[e].ltg))
      /\ Cardinality(UsersOf(U, q, k.ent[e].ltg)) \in Nat
  BY UsersFinite
<1>4. Cardinality(UsersOf(U, q, k.ent[e].ltg)) # 0
  BY <1>2, <1>3, FS_EmptySet
<1> QED
  BY <1>1, <1>2, <1>3, <1>4

\* Letting the next request go keeps the structure.
LEMMA RecoveredAgain ==
  ASSUME SInv, RecordDoneNext, NEW e, e = Search(c, req[Head(list)].ltg),
         NEW n, n = Recovered(c, e, Head(list))
  PROVE  AgainOK(n, req, {}, Tail(list)) /\ RecoveredOf(n, c, e, Head(list))
<1> DEFINE r == Head(list)
           U == Counted(c, req, {})
           M == Held(req) \cap U
<1>1. /\ ~c.panic /\ list # <<>> /\ r \in Req /\ r \in M /\ e \in Entry
  BY NextFields
<1>2. /\ CacheOK(c) /\ c \in Cache /\ c.go = {} /\ c.done = {} /\ list \in Seq(Req)
      /\ Struct(c, req, U) /\ Waits(c, req, {}, list) /\ Hashed(c) \subseteq Entry
  BY <1>1, ChainSet DEF SInv, CacheOK, StateOK
<1>3. RecoveredOf(n, c, e, r)
  BY <1>1, <1>2, RecoveredFields
<1> HIDE DEF r
<1>4. /\ n \in Cache /\ n.go = {r} /\ n.done = {} /\ n.wait = c.wait /\ n.pvwait = c.pvwait
      /\ n.lru = c.lru /\ n.chain = c.chain /\ n.free = c.free /\ n.writeq = c.writeq
      /\ n.panic = c.panic
      /\ \A d \in Entry : n.ent[d].ltg = c.ent[d].ltg /\ n.ent[d].iocnt = c.ent[d].iocnt
  BY <1>2, <1>3 DEF RecoveredOf
<1>5. Counted(n, req, {}) = U
  BY <1>2, <1>4 DEF Counted
<1>6. Struct(n, req, U)
  <2>1. Hashed(n) = Hashed(c)
    BY <1>4 DEF Hashed
  <2> HIDE DEF U
  <2>2. Struct(c, req, U) /\ Hashed(c) \subseteq Entry
    BY <1>2
  <2>3. n.free = c.free
    BY <1>4
  <2>4. \A d \in Entry : n.ent[d].ltg = c.ent[d].ltg /\ n.ent[d].iocnt = c.ent[d].iocnt
    BY <1>4
  <2> QED
    BY ONLY <2>1, <2>2, <2>3, <2>4, StructSame
<1>7. CacheOK(n)
  <2>1. ASSUME NEW d \in Entry, n.ent[d].state = {CHANGING} PROVE n.ent[d].pvol \in PV
    <3>1. d # e
      BY <1>3, <2>1 DEF RecoveredOf
    <3> QED
      BY <1>2, <1>3, <2>1, <3>1 DEF RecoveredOf, CacheOK
  <2>2. IsInjective(n.chain) /\ IsInjective(n.writeq)
    BY <1>2, <1>4 DEF CacheOK
  <2>3. U \in SUBSET Req
    BY DEF Counted, Active
  <2> HIDE DEF U
  <2> QED
    BY <1>2, <1>4, <1>6, <2>1, <2>2, <2>3, CountedCacheOK
<1>8. Waits(n, req, {}, Tail(list))
  <2>1. /\ r \in M /\ r \notin ToSet(Tail(list))
        /\ \A p \in PV : /\ IsInjective(c.pvwait[p]) /\ ToSet(c.pvwait[p]) \subseteq M \ {r}
                         /\ ToSet(c.pvwait[p]) \cap ToSet(Tail(list)) = {}
                         /\ \A o \in PV : o # p =>
                               ToSet(c.pvwait[p]) \cap ToSet(c.pvwait[o]) = {}
        /\ IsInjective(Tail(list)) /\ ToSet(Tail(list)) \subseteq M \ {r}
        /\ IsInjective(c.wait) /\ ToSet(c.wait) \subseteq Held(req)
    BY <1>1, <1>2, HeadLeaves DEF r
  <2>2. {r} \subseteq Held(req) /\ {r} \subseteq U
    BY <2>1
  <2>3. /\ IsInjective(n.wait) /\ ToSet(n.wait) \cap {} = {}
        /\ ToSet(n.wait) \cup {} \cup n.done \cup n.go \subseteq Held(req)
        /\ n.go \subseteq U /\ n.done \cap (ToSet(n.wait) \cup {}) = {}
    BY <1>4, <2>1, <2>2
  <2>4. /\ \A p \in PV : /\ IsInjective(n.pvwait[p]) /\ ToSet(n.pvwait[p]) \subseteq M \ n.go
                         /\ ToSet(n.pvwait[p]) \cap ToSet(Tail(list)) = {}
                         /\ \A o \in PV : o # p =>
                               ToSet(n.pvwait[p]) \cap ToSet(n.pvwait[o]) = {}
        /\ IsInjective(Tail(list)) /\ ToSet(Tail(list)) \subseteq M \ n.go
    BY <1>4, <2>1
  <2>5. M \ n.go = (Held(req) \cap U) \ n.go
    OBVIOUS
  <2>6. \A p \in PV : /\ IsInjective(n.pvwait[p])
                      /\ ToSet(n.pvwait[p]) \subseteq (Held(req) \cap U) \ n.go
                      /\ ToSet(n.pvwait[p]) \cap ToSet(Tail(list)) = {}
                      /\ \A o \in PV : o # p => ToSet(n.pvwait[p]) \cap ToSet(n.pvwait[o]) = {}
    BY <2>4, <2>5
  <2>7. IsInjective(Tail(list)) /\ ToSet(Tail(list)) \subseteq (Held(req) \cap U) \ n.go
    BY <2>4, <2>5
  <2> HIDE DEF M, U
  <2> QED
    BY ONLY <1>5, <2>3, <2>6, <2>7 DEF Waits
<1>9. n.go \cup n.done \subseteq Held(req)
  BY <1>1, <1>4
<1> QED
  BY <1>3, <1>5, <1>6, <1>7, <1>8, <1>9 DEF AgainOK, r

\* Refusing the next request keeps the structure.
LEMMA GivenUpAgain ==
  ASSUME SInv, RecordDoneNext, NEW e, e = Search(c, req[Head(list)].ltg),
         NEW n, n = GiveUp(c, e, Head(list))
  PROVE  AgainOK(n, req, {}, Tail(list)) /\ GivenUp(n, c, e, Head(list))
<1> DEFINE r == Head(list)
           U == Counted(c, req, {})
           M == Held(req) \cap U
<1>1. /\ ~c.panic /\ list # <<>> /\ r \in Req /\ r \in M /\ e \in Entry /\ e \in Hashed(c)
      /\ c.ent[e].ltg = req[r].ltg
  BY NextFields
<1>2. /\ CacheOK(c) /\ c \in Cache /\ c.go = {} /\ c.done = {} /\ list \in Seq(Req)
      /\ Struct(c, req, U) /\ Waits(c, req, {}, list) /\ Hashed(c) \subseteq Entry
      /\ U \in SUBSET Req
  BY <1>1, ChainSet DEF SInv, CacheOK, StateOK, Counted, Active
<1> HIDE DEF r
<1>3. c.ent[e].iocnt >= 1
  BY <1>1, <1>2, NextEntry
<1>4. GivenUp(n, c, e, r)
  BY <1>1, <1>2, <1>3, GiveUpFields DEF r
<1>5. /\ n \in Cache /\ n.go = {} /\ n.done = {r} /\ n.wait = c.wait /\ n.pvwait = c.pvwait
      /\ n.writeq = c.writeq /\ n.panic = c.panic
      /\ ToSet(n.lru) = Entry /\ Len(n.lru) = Len(c.lru) /\ IsInjective(n.chain)
      /\ \A d \in Entry : d # e => n.ent[d] = c.ent[d]
  BY <1>2, <1>4 DEF GivenUp
<1>6. r \notin ToSet(c.wait)
  BY <1>1 DEF Counted
<1>7. Counted(n, req, {}) = U \ {r}
  BY <1>2, <1>5 DEF Counted
<1>8. Struct(n, req, U \ {r})
  <2> DEFINE m == Release(c, e, FALSE)
  <2>1. ReleaseOf(m, c, e)
    BY <1>1, <1>2, ReleaseFields
  <2> HIDE DEF m, U
  <2>2. /\ m \in Cache /\ Hashed(m) = Hashed(c) /\ m.ent[e].iocnt = c.ent[e].iocnt - 1
        /\ \A d \in Entry : /\ m.ent[d].ltg = c.ent[d].ltg
                            /\ d # e => m.ent[d].iocnt = c.ent[d].iocnt
        /\ \A d \in Entry : d # e => m.ent[d] = c.ent[d]
        /\ m.free = IF c.ent[e].iocnt = 1 THEN c.free + 1 ELSE c.free
    BY <2>1 DEF ReleaseOf, Hashed
  <2>3. Struct(m, req, U \ {r})
    <3>1. r \in U
      BY <1>1
    <3> QED
      BY <1>1, <1>2, <2>2, <3>1, StructLeave
  <2>4. CASE c.ent[e].iocnt # 1
    <3>1. /\ Hashed(n) = Hashed(c) /\ n.free = c.free
          /\ n.ent[e].iocnt = c.ent[e].iocnt - 1 /\ n.ent[e].ltg = c.ent[e].ltg
      BY <1>4, <2>4 DEF GivenUp
    <3>2. \A d \in Entry : n.ent[d].ltg = m.ent[d].ltg /\ n.ent[d].iocnt = m.ent[d].iocnt
      <4>1. ASSUME NEW d \in Entry, d = e
            PROVE  n.ent[d].ltg = m.ent[d].ltg /\ n.ent[d].iocnt = m.ent[d].iocnt
        BY <2>2, <3>1, <4>1
      <4>2. ASSUME NEW d \in Entry, d # e PROVE n.ent[d] = m.ent[d]
        BY <1>5, <2>2, <4>2
      <4> QED
        BY <4>1, <4>2
    <3>3. Hashed(n) = Hashed(m) /\ n.free = m.free /\ Hashed(m) \subseteq Entry
      BY <1>2, <2>2, <2>4, <3>1
    <3> QED
      BY <2>3, <3>2, <3>3, StructSame
  <2>5. CASE c.ent[e].iocnt = 1
    <3>1. /\ Hashed(n) = Hashed(m) \ {e} /\ n.free = m.free /\ n.ent[e] = NoEntry
      <4>1. Hashed(n) = Hashed(c) \ {e} /\ n.free = c.free + 1 /\ n.ent[e] = NoEntry
        BY <1>4, <2>5 DEF GivenUp
      <4>2. Hashed(m) = Hashed(c) /\ m.free = c.free + 1
        BY <2>2, <2>5
      <4> QED
        BY <4>1, <4>2
    <3>2. m.ent[e].iocnt = 0 /\ n.ent[e].iocnt = 0
      <4>1. m.ent[e].iocnt = 0
        BY <2>2, <2>5
      <4>2. NoEntry.iocnt = 0
        BY DEF NoEntry
      <4> QED
        BY <3>1, <4>1, <4>2
    <3>3. \A d \in Entry : d # e => n.ent[d] = m.ent[d]
      BY ONLY <1>5, <2>2
    <3>4. U \ {r} \in SUBSET Req
      BY <1>2
    <3> QED
      <4>1. e \in Entry /\ m \in Cache
        BY <1>1, <2>2
      <4>2. Hashed(n) = Hashed(m) \ {e} /\ n.free = m.free
        BY <3>1
      <4> DEFINE V == U \ {r}
      <4>3. V \in SUBSET Req /\ Struct(m, req, V)
        BY <2>3, <3>4
      <4> HIDE DEF V
      <4>4. Struct(n, req, V)
        BY <3>2, <3>3, <4>1, <4>2, <4>3, StructDrop
      <4> QED
        BY <4>4 DEF V
  <2> QED
    BY <2>4, <2>5
<1>9. CacheOK(n)
  <2>1. ASSUME NEW d \in Entry, n.ent[d].state = {CHANGING} PROVE n.ent[d].pvol \in PV
    <3>1. CASE d # e
      BY <1>2, <1>5, <2>1, <3>1 DEF CacheOK
    <3>2. CASE d = e /\ c.ent[e].iocnt # 1
      BY <1>2, <1>4, <2>1, <3>2 DEF GivenUp, CacheOK
    <3>3. CASE d = e /\ c.ent[e].iocnt = 1
      <4>1. n.ent[e] = NoEntry
        BY <1>4, <3>3 DEF GivenUp
      <4>2. n.ent[d].state = {}
        <5>1. n.ent[d] = NoEntry
          BY <3>3, <4>1
        <5>2. NoEntry.state = {}
          BY DEF NoEntry
        <5> QED
          BY <5>1, <5>2
      <4> QED
        BY <2>1, <4>2
    <3> QED
      BY <3>1, <3>2, <3>3
  <2>2. /\ n.free \in 0 .. Cardinality(Entry)
        /\ \A d \in Entry : n.ent[d].iocnt \in 0 .. Cardinality(Req)
    <3>1. U \ {r} \in SUBSET Req
      BY <1>2
    <3> HIDE DEF U
    <3> QED
      BY <1>5, <1>8, <3>1, StructBounds
  <2> QED
    BY <1>2, <1>5, <2>1, <2>2 DEF CacheOK
<1>10. Waits(n, req, {}, Tail(list))
  <2>1. /\ r \in M /\ Waits(c, req, {}, Tail(list)) /\ r \notin ToSet(Tail(list))
        /\ \A p \in PV : /\ IsInjective(c.pvwait[p]) /\ ToSet(c.pvwait[p]) \subseteq M \ {r}
                         /\ ToSet(c.pvwait[p]) \cap ToSet(Tail(list)) = {}
                         /\ \A o \in PV : o # p =>
                               ToSet(c.pvwait[p]) \cap ToSet(c.pvwait[o]) = {}
        /\ IsInjective(Tail(list)) /\ ToSet(Tail(list)) \subseteq M \ {r}
        /\ IsInjective(c.wait) /\ ToSet(c.wait) \subseteq Held(req)
    BY <1>1, <1>2, HeadLeaves DEF r
  <2>2. {r} \subseteq Held(req) /\ M \ {r} \subseteq (Held(req) \cap (U \ {r})) \ n.go
    BY <1>5, <2>1
  <2>3. /\ IsInjective(n.wait) /\ ToSet(n.wait) \cap {} = {}
        /\ ToSet(n.wait) \cup {} \cup n.done \cup n.go \subseteq Held(req)
        /\ n.go \subseteq U \ {r} /\ n.done \cap (ToSet(n.wait) \cup {}) = {}
    <3>1. IsInjective(n.wait) /\ ToSet(n.wait) \subseteq Held(req)
      BY <1>5, <2>1
    <3>2. r \notin ToSet(n.wait)
      BY <1>5, <1>6
    <3>3. n.go = {} /\ n.done = {r}
      BY <1>5
    <3> QED
      BY <2>2, <3>1, <3>2, <3>3
  <2>4. /\ \A p \in PV : /\ IsInjective(n.pvwait[p])
                         /\ ToSet(n.pvwait[p]) \subseteq (Held(req) \cap (U \ {r})) \ n.go
                         /\ ToSet(n.pvwait[p]) \cap ToSet(Tail(list)) = {}
                         /\ \A o \in PV : o # p =>
                               ToSet(n.pvwait[p]) \cap ToSet(n.pvwait[o]) = {}
        /\ IsInjective(Tail(list))
        /\ ToSet(Tail(list)) \subseteq (Held(req) \cap (U \ {r})) \ n.go
    BY <1>5, <2>1, <2>2
  <2> QED
    BY <1>7, <2>3, <2>4 DEF Waits
<1>11. n.go \cup n.done \subseteq Held(req)
  BY <1>1, <1>5
<1> QED
  BY <1>4, <1>7, <1>8, <1>9, <1>10, <1>11 DEF AgainOK, r

\* What it does to the entries.
LEMMA QueueEntries ==
  ASSUME NEW k \in Cache, NEW e \in Entry, NEW r \in Req, NEW p \in PV, NEW n,
         QueueOf(n, k, e, r, p)
  PROVE  /\ n.ent[e].pvol = p
         /\ \A d \in Entry : /\ n.ent[d].ltg = k.ent[d].ltg /\ n.ent[d].iocnt = k.ent[d].iocnt
                             /\ n.ent[d].state = k.ent[d].state
                             /\ d # e => n.ent[d] = k.ent[d]
<1>0. k.ent \in [Entry -> EntryT]
  BY ChainSet
<1>1. n.ent = [k.ent EXCEPT ![e].pvol = p]
  BY DEF QueueOf
<1> DEFINE en == k.ent
<1>2. en \in [Entry -> EntryT] /\ n.ent = [en EXCEPT ![e].pvol = p]
  BY <1>0, <1>1
<1> HIDE DEF en
<1>3. /\ n.ent[e].pvol = p
      /\ n.ent[e].ltg = en[e].ltg /\ n.ent[e].state = en[e].state /\ n.ent[e].iocnt = en[e].iocnt
      /\ \A d \in Entry : d # e => n.ent[d] = en[d]
  BY <1>2, PvolChange
<1>4. \A d \in Entry : /\ n.ent[d].ltg = en[d].ltg /\ n.ent[d].iocnt = en[d].iocnt
                       /\ n.ent[d].state = en[d].state
                       /\ d # e => n.ent[d] = en[d]
  BY <1>3
<1> QED
  BY <1>3, <1>4 DEF en

\* What lv_cache_queue leaves, field by field.
LEMMA QueueParts ==
  ASSUME NEW k \in Cache, NEW e \in Entry, NEW r \in Req, NEW p \in PV, NEW n,
         QueueOf(n, k, e, r, p)
  PROVE  /\ n \in Cache /\ n.ent[e].pvol = p
         /\ \A d \in Entry : /\ n.ent[d].ltg = k.ent[d].ltg /\ n.ent[d].iocnt = k.ent[d].iocnt
                             /\ n.ent[d].state = k.ent[d].state
                             /\ d # e => n.ent[d] = k.ent[d]
         /\ ToSet(n.pvwait[p]) = ToSet(k.pvwait[p]) \cup {r}
         /\ IsInjective(k.pvwait[p]) /\ r \notin ToSet(k.pvwait[p]) => IsInjective(n.pvwait[p])
         /\ \A o \in PV : o # p => n.pvwait[o] = k.pvwait[o]
         /\ n.pvwait[p] # <<>>
         /\ ToSet(n.writeq) = ToSet(k.writeq) \cup {p} /\ n.writeq # <<>>
         /\ IsInjective(k.writeq) => IsInjective(n.writeq)
         /\ n.wait = k.wait /\ n.lru = k.lru /\ n.chain = k.chain /\ n.free = k.free
         /\ n.go = k.go /\ n.done = k.done /\ n.panic = k.panic
<1>1. /\ k.ent \in [Entry -> EntryT] /\ k.pvwait \in [PV -> Seq(Req)] /\ k.writeq \in Seq(PV)
  BY ChainSet
<1>2. /\ n \in Cache /\ n.wait = k.wait /\ n.lru = k.lru /\ n.chain = k.chain /\ n.free = k.free
      /\ n.go = k.go /\ n.done = k.done /\ n.panic = k.panic
  BY DEF QueueOf
<1>3. /\ n.ent[e].pvol = p
      /\ \A d \in Entry : /\ n.ent[d].ltg = k.ent[d].ltg /\ n.ent[d].iocnt = k.ent[d].iocnt
                          /\ n.ent[d].state = k.ent[d].state
                          /\ d # e => n.ent[d] = k.ent[d]
  BY QueueEntries
<1>4. n.pvwait[p] = Append(k.pvwait[p], r) /\ \A o \in PV : o # p => n.pvwait[o] = k.pvwait[o]
  <2>1. n.pvwait = [k.pvwait EXCEPT ![p] = Append(@, r)]
    BY DEF QueueOf
  <2> QED
    BY <1>1, <2>1
<1>5. /\ ToSet(n.pvwait[p]) = ToSet(k.pvwait[p]) \cup {r} /\ n.pvwait[p] # <<>>
      /\ IsInjective(k.pvwait[p]) /\ r \notin ToSet(k.pvwait[p]) => IsInjective(n.pvwait[p])
  <2>1. k.pvwait[p] \in Seq(Req)
    BY <1>1
  <2> QED
    BY <1>4, <2>1, AppendSet
<1>6. /\ ToSet(n.writeq) = ToSet(k.writeq) \cup {p} /\ n.writeq # <<>>
      /\ IsInjective(k.writeq) => IsInjective(n.writeq)
  <2>1. n.writeq = IF Queued(k, p) THEN k.writeq ELSE Append(k.writeq, p)
    BY DEF QueueOf
  <2>2. CASE Queued(k, p)
    <3>1. p \in ToSet(k.writeq) /\ n.writeq = k.writeq
      BY <2>1, <2>2, QueuedSet
    <3>2. n.writeq # <<>>
      BY <3>1, EmptySet
    <3> QED
      BY <3>1, <3>2
  <2>3. CASE ~Queued(k, p)
    <3>1. p \notin ToSet(k.writeq) /\ n.writeq = Append(k.writeq, p)
      BY <2>1, <2>3, QueuedSet
    <3> QED
      BY <1>1, <3>1, AppendSet
  <2> QED
    BY <2>2, <2>3
<1> QED
  BY <1>2, <1>3, <1>4, <1>5, <1>6

\* Queueing the next request for another PV, after an error, keeps the structure.
LEMMA QueuedAgain ==
  ASSUME SInv, RecordDoneNext, NEW x, x = req[Head(list)].ltg, NEW e, e = Search(c, x),
         ~NoPlace(c, x), NEW n, n = Queue(c, e, Head(list), x)
  PROVE  /\ AgainOK(n, req, {}, Tail(list)) /\ Place(c, x) \in PV
         /\ QueueOf(n, c, e, Head(list), Place(c, x))
<1> DEFINE r == Head(list)
           U == Counted(c, req, {})
           M == Held(req) \cap U
           p == Place(c, x)
<1>1. /\ ~c.panic /\ list # <<>> /\ r \in Req /\ r \in M /\ e \in Entry /\ x \in Ltg
  BY NextFields
<1>2. /\ CacheOK(c) /\ c \in Cache /\ c.go = {} /\ c.done = {} /\ list \in Seq(Req)
      /\ Struct(c, req, U) /\ Waits(c, req, {}, list) /\ Hashed(c) \subseteq Entry
      /\ U \in SUBSET Req
  BY <1>1, ChainSet DEF SInv, CacheOK, StateOK, Counted, Active
<1>3. p \in PV
  BY <1>1, PlaceType DEF NoPlace
<1>4. QueueOf(n, c, e, r, p)
  BY <1>1, <1>2, <1>3, QueueFields
<1> HIDE DEF r, p
<1>19. c \in Cache /\ e \in Entry /\ r \in Req /\ p \in PV
  BY <1>1, <1>2, <1>3
<1>5. /\ n \in Cache /\ n.go = {} /\ n.done = {} /\ n.wait = c.wait /\ n.lru = c.lru
      /\ n.chain = c.chain /\ n.free = c.free /\ n.panic = c.panic
      /\ IsInjective(c.writeq) => IsInjective(n.writeq)
  <2>1. /\ n \in Cache /\ n.wait = c.wait /\ n.lru = c.lru /\ n.chain = c.chain
        /\ n.free = c.free /\ n.go = c.go /\ n.done = c.done /\ n.panic = c.panic
    BY <1>4 DEF QueueOf
  <2>2. IsInjective(c.writeq) => IsInjective(n.writeq)
    BY ONLY <1>4, <1>19, QueueParts
  <2> QED
    BY <1>2, <2>1, <2>2
<1>6. /\ n.ent[e].pvol = p
      /\ \A d \in Entry : /\ n.ent[d].ltg = c.ent[d].ltg /\ n.ent[d].iocnt = c.ent[d].iocnt
                          /\ d # e => n.ent[d] = c.ent[d]
  BY ONLY <1>4, <1>19, QueueEntries
<1>20. ToSet(n.pvwait[p]) = ToSet(c.pvwait[p]) \cup {r}
  BY ONLY <1>4, <1>19, QueueParts
<1>21. \A o \in PV : o # p => n.pvwait[o] = c.pvwait[o]
  BY ONLY <1>4, <1>19, QueueParts
<1>22. IsInjective(c.pvwait[p]) /\ r \notin ToSet(c.pvwait[p]) => IsInjective(n.pvwait[p])
  BY ONLY <1>4, <1>19, QueueParts
<1>7. Counted(n, req, {}) = U
  BY <1>2, <1>5 DEF Counted
<1>8. Struct(n, req, U)
  <2>1. Hashed(n) = Hashed(c)
    BY <1>5 DEF Hashed
  <2> HIDE DEF U
  <2>2. Struct(c, req, U) /\ Hashed(c) \subseteq Entry
    BY <1>2
  <2>3. n.free = c.free
    BY <1>5
  <2>4. \A d \in Entry : n.ent[d].ltg = c.ent[d].ltg /\ n.ent[d].iocnt = c.ent[d].iocnt
    BY <1>6
  <2> QED
    BY ONLY <2>1, <2>2, <2>3, <2>4, StructSame
<1>9. CacheOK(n)
  <2>1. ASSUME NEW d \in Entry, n.ent[d].state = {CHANGING} PROVE n.ent[d].pvol \in PV
    BY <1>2, <1>3, <1>6, <2>1 DEF CacheOK
  <2>2. IsInjective(n.chain)
    BY <1>2, <1>5 DEF CacheOK
  <2>3. IsInjective(n.writeq)
    BY <1>2, <1>5 DEF CacheOK
  <2> HIDE DEF U
  <2> QED
    BY <1>2, <1>5, <1>8, <2>1, <2>2, <2>3, CountedCacheOK
<1>10. Waits(n, req, {}, Tail(list))
  <2>1. /\ r \in M /\ r \notin ToSet(Tail(list))
        /\ \A o \in PV : r \notin ToSet(c.pvwait[o])
        /\ \A o \in PV : /\ IsInjective(c.pvwait[o]) /\ ToSet(c.pvwait[o]) \subseteq M
                         /\ ToSet(c.pvwait[o]) \cap ToSet(Tail(list)) = {}
                         /\ \A a \in PV : a # o =>
                               ToSet(c.pvwait[o]) \cap ToSet(c.pvwait[a]) = {}
        /\ IsInjective(Tail(list)) /\ ToSet(Tail(list)) \subseteq M
        /\ IsInjective(c.wait) /\ ToSet(c.wait) \subseteq Held(req)
    BY <1>1, <1>2, HeadLeaves DEF r
  <2>3. ToSet(n.pvwait[p]) = ToSet(c.pvwait[p]) \cup {r} /\ IsInjective(n.pvwait[p])
    BY <1>3, <1>20, <1>22, <2>1
  <2>4. \A o \in PV : o # p => n.pvwait[o] = c.pvwait[o]
    BY <1>21
  <2>5. \A o \in PV : ToSet(n.pvwait[o]) = IF o = p THEN ToSet(c.pvwait[o]) \cup {r}
                                           ELSE ToSet(c.pvwait[o])
    BY <2>3, <2>4
  <2> HIDE DEF M
  <2>6. \A o \in PV : /\ IsInjective(n.pvwait[o])
                      /\ ToSet(n.pvwait[o]) \subseteq M
                      /\ ToSet(n.pvwait[o]) \cap ToSet(Tail(list)) = {}
    <3> SUFFICES ASSUME NEW o \in PV
                 PROVE  /\ IsInjective(n.pvwait[o])
                        /\ ToSet(n.pvwait[o]) \subseteq M
                        /\ ToSet(n.pvwait[o]) \cap ToSet(Tail(list)) = {}
      OBVIOUS
    <3>1. /\ IsInjective(c.pvwait[o]) /\ ToSet(c.pvwait[o]) \subseteq M
          /\ ToSet(c.pvwait[o]) \cap ToSet(Tail(list)) = {}
          /\ r \in M /\ r \notin ToSet(Tail(list))
      BY <2>1
    <3>2. CASE o = p
      <4>1. ToSet(n.pvwait[o]) = ToSet(c.pvwait[o]) \cup {r} /\ IsInjective(n.pvwait[o])
        BY <2>3, <3>2
      <4> QED
        BY <3>1, <4>1
    <3>3. CASE o # p
      <4>1. n.pvwait[o] = c.pvwait[o]
        BY <2>4, <3>3
      <4> QED
        BY <3>1, <4>1
    <3> QED
      BY <3>2, <3>3
  <2>7. ASSUME NEW o \in PV, NEW a \in PV, a # o
        PROVE  ToSet(n.pvwait[o]) \cap ToSet(n.pvwait[a]) = {}
    <3>1. /\ ToSet(c.pvwait[o]) \cap ToSet(c.pvwait[a]) = {}
          /\ r \notin ToSet(c.pvwait[o]) /\ r \notin ToSet(c.pvwait[a])
      BY <2>1, <2>7
    <3>2. CASE o # p /\ a # p
      BY <2>4, <3>1, <3>2
    <3>3. CASE o = p
      BY <2>3, <2>4, <2>7, <3>1, <3>3
    <3>4. CASE a = p
      BY <2>3, <2>4, <2>7, <3>1, <3>4
    <3> QED
      BY <3>2, <3>3, <3>4
  <2>8. /\ IsInjective(n.wait) /\ ToSet(n.wait) \cap {} = {}
        /\ ToSet(n.wait) \cup {} \cup n.done \cup n.go \subseteq Held(req)
        /\ n.go \subseteq U /\ n.done \cap (ToSet(n.wait) \cup {}) = {}
    BY <1>5, <2>1
  <2>9. M \subseteq (Held(req) \cap U) \ n.go
    BY <1>5 DEF M
  <2>10. \A o \in PV : /\ IsInjective(n.pvwait[o])
                       /\ ToSet(n.pvwait[o]) \subseteq (Held(req) \cap U) \ n.go
                       /\ ToSet(n.pvwait[o]) \cap ToSet(Tail(list)) = {}
                       /\ \A a \in PV : a # o => ToSet(n.pvwait[o]) \cap ToSet(n.pvwait[a]) = {}
    BY <2>6, <2>7, <2>9
  <2>11. IsInjective(Tail(list)) /\ ToSet(Tail(list)) \subseteq (Held(req) \cap U) \ n.go
    BY <2>1, <2>9
  <2> HIDE DEF U
  <2> QED
    BY ONLY <1>7, <2>8, <2>10, <2>11 DEF Waits
<1>11. n.go \cup n.done \subseteq Held(req)
  BY <1>5
<1> QED
  BY <1>3, <1>4, <1>7, <1>8, <1>9, <1>10, <1>11 DEF AgainOK, r, p

\* A step through the list of lv_mwc_cache_done keeps the structure.
LEMMA NextStructureKept ==
  ASSUME SInv, RecordDoneNext
  PROVE  SInv'
<1> DEFINE x == req[Head(list)].ltg
           e == Search(c, x)
<1>1. /\ list' = Tail(list) /\ list # <<>>
      /\ intr' = (IF Tail(list) = <<>> THEN "wait" ELSE "list")
      /\ \E n : AgainOK(n, req, {}, Tail(list)) /\ c' = Settled(n) /\ req' = Passed(n, req)
  BY NextFields, RecoveredAgain, GivenUpAgain, QueuedAgain
<1>2. PICK n : AgainOK(n, req, {}, Tail(list)) /\ c' = Settled(n) /\ req' = Passed(n, req)
  BY <1>1
<1>3. StateOK /\ ReqOK(req) /\ list \in Seq(Req) /\ up = "up"
  BY DEF SInv, StateOK, RecordDoneNext, Running
<1>4. /\ CacheOK(c') /\ ReqOK(req')
      /\ ~c'.panic => Struct(c', req', Counted(c', req', {})) /\ Waits(c', req', {}, list')
  BY <1>1, <1>2, <1>3, SettleStruct DEF AgainOK
<1>5. c'.go = {} /\ c'.done = {}
  BY <1>2, SettledFields DEF AgainOK, CacheOK
<1>6. StateOK'
  <2>1. UNCHANGED <<up, thr, err, disk, vgsa, torn, recover, errors, crashes>>
    BY DEF RecordDoneNext
  <2>2. list' \in Seq(Req) /\ intr' \in {"wait", "list"} /\ (intr' = "list" <=> list' # <<>>)
    BY <1>1, <1>3, TailSet
  <2> QED
    BY <1>3, <2>1, <2>2 DEF StateOK, vgsa
<1> QED
  BY <1>4, <1>5, <1>6, NextStructure

\* lv_mwc_done: the walk over the requests that waited for an entry.
Emptied(k) == [k EXCEPT !.wait = <<>>]

\* vg_cache_wait is taken as a whole.
LEMMA EmptiedFields ==
  ASSUME NEW k \in Cache
  PROVE  /\ Emptied(k) \in Cache /\ Emptied(k).wait = <<>> /\ SameEntries(Emptied(k), k)
         /\ SameRecord(Emptied(k), k) /\ Emptied(k).go = k.go /\ Emptied(k).done = k.done
         /\ Emptied(k).pvwait = k.pvwait /\ Emptied(k).writeq = k.writeq
         /\ Emptied(k).clean = k.clean /\ Emptied(k).panic = k.panic
<1>1. <<>> \in Seq(Req)
  OBVIOUS
<1> QED
  BY <1>1 DEF Emptied, Cache, SameEntries, SameRecord

\* Those that waited are then being looked at.
LEMMA EmptiedAgain ==
  ASSUME SInv, ~c.panic
  PROVE  AgainOK(Emptied(c), req, ToSet(c.wait), list)
<1> DEFINE n == Emptied(c)
           H == ToSet(c.wait)
           U == Counted(c, req, {})
<1>1. /\ CacheOK(c) /\ c \in Cache /\ c.go = {} /\ c.done = {}
      /\ Struct(c, req, U) /\ Waits(c, req, {}, list)
  BY DEF SInv, CacheOK
<1>2. /\ n \in Cache /\ n.wait = <<>> /\ SameEntries(n, c) /\ n.go = {} /\ n.done = {}
      /\ n.pvwait = c.pvwait /\ n.writeq = c.writeq
  BY <1>1, EmptiedFields
<1> HIDE DEF n
<1>3. ToSet(n.wait) = {} /\ IsInjective(n.wait)
  BY <1>2, EmptySet
<1>4. Counted(n, req, H) = U
  BY <1>1, <1>2, <1>3 DEF Counted
<1>5. CacheOK(n) /\ Struct(n, req, U)
  <2>1. IsInjective(n.writeq)
    BY <1>1, <1>2 DEF CacheOK
  <2> QED
    BY <1>1, <1>2, <2>1, EntriesFrame
<1>6. Waits(n, req, H, list)
  <2>1. /\ H \subseteq Held(req)
        /\ \A p \in PV : /\ IsInjective(c.pvwait[p])
                         /\ ToSet(c.pvwait[p]) \subseteq (Held(req) \cap U)
                         /\ ToSet(c.pvwait[p]) \cap ToSet(list) = {}
                         /\ \A o \in PV : o # p => ToSet(c.pvwait[p]) \cap ToSet(c.pvwait[o]) = {}
        /\ IsInjective(list) /\ ToSet(list) \subseteq (Held(req) \cap U)
    BY <1>1 DEF Waits
  <2> HIDE DEF H, U
  <2>2. /\ IsInjective(n.wait) /\ ToSet(n.wait) \cap H = {}
        /\ ToSet(n.wait) \cup H \cup n.done \cup n.go \subseteq Held(req)
        /\ n.go \subseteq U /\ n.done \cap (ToSet(n.wait) \cup H) = {}
    BY <1>2, <1>3, <2>1
  <2>3. /\ \A p \in PV : /\ IsInjective(n.pvwait[p])
                         /\ ToSet(n.pvwait[p]) \subseteq (Held(req) \cap U) \ n.go
                         /\ ToSet(n.pvwait[p]) \cap ToSet(list) = {}
                         /\ \A o \in PV : o # p => ToSet(n.pvwait[p]) \cap ToSet(n.pvwait[o]) = {}
        /\ IsInjective(list) /\ ToSet(list) \subseteq (Held(req) \cap U) \ n.go
    BY <1>2, <2>1
  <2> QED
    BY <1>4, <2>2, <2>3 DEF Waits
<1> QED
  BY <1>2, <1>4, <1>5, <1>6 DEF AgainOK, n

\* h is what the cache has come to after each of the requests.
Walk(h, s) ==
    /\ h[0] = Emptied(c)
    /\ \A i \in 1 .. Len(s) : h[i] = CheckAgain(h[i - 1], s[i])

\* The walk over vg_cache_wait goes through a sequence of caches.
LEMMA WalkExists ==
  ASSUME SInv, CacheWait, c.free > 0, c.inflight = NoPv
  PROVE  \E h : /\ Walk(h, c.wait)
                /\ c' = Settled(h[Len(c.wait)]) /\ req' = Passed(h[Len(c.wait)], req)
<1>1. c.wait \in Seq(Req)
  BY ChainSet DEF SInv, CacheOK
<1> DEFINE s == c.wait
           k == Emptied(c)
           n == Fold("again", 0, k, s)
<1>2. FoldLeft(CheckAgain, k, s) = n
  BY DEF Fold, LoopStep, FoldLeft, MapThenFoldSet
<1>3. PICK h : /\ h[0] = k /\ \A i \in 1 .. Len(s) : h[i] = CheckAgain(h[i - 1], s[i])
               /\ n = h[Len(s)]
  <2>1. s \in Seq(Req)
    BY <1>1
  <2> HIDE DEF k, s
  <2> QED
    <3>1. \E h : /\ h[0] = k
                 /\ \A i \in 1 .. Len(s) : h[i] = LoopStep("again", 0, h[i - 1], s[i])
                 /\ n = h[Len(s)]
      BY <2>1, Chain
    <3>2. \A a, b : LoopStep("again", 0, a, b) = CheckAgain(a, b)
      BY LoopSteps
    <3> QED
      BY <3>1, <3>2
<1>4. Settle(FoldLeft(CheckAgain, k, s), req)
  BY DEF CacheWait, Emptied
<1>5. c' = Settled(n) /\ req' = Passed(n, req)
  <2> HIDE DEF n, k
  <2> QED
    BY <1>2, <1>4 DEF Settle, Settled, Passed
<1> QED
  BY <1>3, <1>5 DEF Walk

\* Each of them has the structure, with those still to be looked at left out.
LEMMA WalkAgain ==
  ASSUME SInv, ~c.panic, NEW h, Walk(h, c.wait)
  PROVE  /\ Len(c.wait) \in Nat
         /\ \A i \in Nat : i <= Len(c.wait) => AgainOK(h[i], req, Rest(c.wait, i), list)
         /\ \A i \in Nat : i + 1 <= Len(c.wait) =>
               /\ h[i + 1] = CheckAgain(h[i], c.wait[i + 1]) /\ c.wait[i + 1] \in Req
               /\ Rest(c.wait, i) = Rest(c.wait, i + 1) \cup {c.wait[i + 1]}
               /\ c.wait[i + 1] \notin Rest(c.wait, i + 1)
<1> DEFINE s == c.wait
           S == {i \in Nat : i <= Len(s) => AgainOK(h[i], req, Rest(s, i), list)}
<1>1. /\ s \in Seq(Req) /\ ReqOK(req) /\ list \in Seq(Req) /\ IsInjective(s)
      /\ Len(s) \in Nat
  <2>1. c.wait \in Seq(Req)
    BY ChainSet DEF SInv, CacheOK
  <2> QED
    BY <2>1 DEF SInv, StateOK, Waits
<1>2. 0 \in S
  <2>1. AgainOK(h[0], req, ToSet(s), list) /\ Rest(s, 0) = ToSet(s)
    BY <1>1, EmptiedAgain, RestSet DEF Walk
  <2> QED
    BY <2>1
<1>3. ASSUME NEW i \in Nat, i + 1 <= Len(s)
      PROVE  /\ h[i + 1] = CheckAgain(h[i], s[i + 1]) /\ s[i + 1] \in Req
             /\ Rest(s, i) = Rest(s, i + 1) \cup {s[i + 1]}
             /\ s[i + 1] \notin Rest(s, i + 1) /\ Rest(s, i + 1) \subseteq Req
  <2>1. i + 1 \in 1 .. Len(s) /\ (i + 1) - 1 = i
    BY <1>1, <1>3
  <2>2. h[i + 1] = CheckAgain(h[i], s[i + 1])
    BY <2>1 DEF Walk
  <2> QED
    BY <1>1, <1>3, <2>2, RestSet
<1>4. ASSUME NEW i \in Nat, i \in S PROVE i + 1 \in S
  <2>1. SUFFICES ASSUME i + 1 <= Len(s) PROVE AgainOK(h[i + 1], req, Rest(s, i + 1), list)
    BY <1>4
  <2>2. i <= Len(s)
    BY <1>1, <2>1
  <2>3. AgainOK(h[i], req, Rest(s, i + 1) \cup {s[i + 1]}, list)
    BY <1>3, <1>4, <2>1, <2>2
  <2> DEFINE H == Rest(s, i + 1)
             r == s[i + 1]
  <2>4. H \in SUBSET Req /\ r \in Req \ H /\ AgainOK(h[i], req, H \cup {r}, list)
    BY <1>3, <2>1, <2>3
  <2>5. h[i + 1] = CheckAgain(h[i], r)
    BY <1>3, <2>1
  <2> HIDE DEF H, r
  <2>6. AgainOK(h[i + 1], req, H, list)
    BY <1>1, <2>4, <2>5, CheckAgainStruct
  <2> QED
    BY <2>6 DEF H
<1>5. Nat \subseteq S
  <2> HIDE DEF S
  <2> QED
    BY <1>2, <1>4, NatInd
<1> QED
  BY <1>1, <1>3, <1>5

\* The walk over vg_cache_wait keeps the structure.
LEMMA CacheWaitStructure ==
  ASSUME SInv, CacheWait
  PROVE  SInv'
<1>1. /\ CacheOK(c) /\ ReqOK(req) /\ c.go = {} /\ c.done = {} /\ ~c.panic /\ up = "up" /\ StateOK
      /\ Struct(c, req, Counted(c, req, {})) /\ Waits(c, req, {}, list) /\ intr = "wait"
      /\ intr' = "start"
      /\ UNCHANGED <<up, thr, list, err, disk, vgsa, torn, recover, errors, crashes>>
  BY DEF SInv, CacheWait, Running
<1>2. StateOK' /\ list' = list
  BY <1>1 DEF StateOK, vgsa
<1>3. /\ CacheOK(c') /\ ReqOK(req') /\ c'.go = {} /\ c'.done = {}
      /\ ~c'.panic => Struct(c', req', Counted(c', req', {})) /\ Waits(c', req', {}, list)
  <2>1. CASE ~(c.free > 0 /\ c.inflight = NoPv)
    <3>1. c' = c /\ req' = req
      BY <2>1 DEF CacheWait
    <3> QED
      BY <1>1, <3>1
  <2>2. CASE c.free > 0 /\ c.inflight = NoPv
    <3>1. PICK h : /\ Walk(h, c.wait)
                   /\ c' = Settled(h[Len(c.wait)]) /\ req' = Passed(h[Len(c.wait)], req)
      BY <2>2, WalkExists
    <3> DEFINE n == h[Len(c.wait)]
    <3>2. Len(c.wait) \in Nat /\ Len(c.wait) <= Len(c.wait)
      BY <1>1, <3>1, WalkAgain
    <3>3. Rest(c.wait, Len(c.wait)) = {}
      <4>1. c.wait \in Seq(Req) /\ IsInjective(c.wait)
        BY <1>1, ChainSet DEF CacheOK, Waits
      <4> QED
        BY <4>1, RestSet
    <3>4. AgainOK(n, req, {}, list)
      <4>1. \A i \in Nat : i <= Len(c.wait) => AgainOK(h[i], req, Rest(c.wait, i), list)
        BY <1>1, <3>1, WalkAgain
      <4>2. AgainOK(n, req, Rest(c.wait, Len(c.wait)), list)
        BY <3>2, <4>1
      <4> QED
        BY <3>3, <4>2
    <3>5. c' = Settled(n) /\ req' = Passed(n, req)
      BY <3>1
    <3> HIDE DEF n
    <3>6. /\ CacheOK(c') /\ ReqOK(req')
          /\ ~c'.panic => Struct(c', req', Counted(c', req', {})) /\ Waits(c', req', {}, list)
      BY <1>1, <3>4, <3>5, SettleStruct DEF AgainOK
    <3>7. c'.go = {} /\ c'.done = {}
      BY <3>4, <3>5, SettledFields DEF AgainOK, CacheOK
    <3> QED
      BY <3>6, <3>7
  <2> QED
    BY <2>1, <2>2
<1> QED
  BY <1>2, <1>3, NextStructure

\* lv_cache_start, at the end of lv_mwcm, of lv_mwc_done and of lv_cache_activate.
LEMMA StartKept ==
  ASSUME SInv, StateOK', c' = CacheStart(c), req' = req, list' = list
  PROVE  SInv'
<1>1. /\ CacheOK(c) /\ ReqOK(req) /\ c.go = {} /\ c.done = {}
      /\ ~c.panic => Struct(c, req, Counted(c, req, {})) /\ Waits(c, req, {}, list)
  BY DEF SInv
<1> DEFINE n == CacheStart(c)
<1>2. /\ CacheOK(n) /\ n.panic = c.panic /\ n.go = c.go /\ n.done = c.done
      /\ Counted(n, req, {}) = Counted(c, req, {})
      /\ Waits(c, req, {}, list) => Waits(n, req, {}, list)
      /\ \A U : Struct(c, req, U) => Struct(n, req, U)
  BY <1>1, StartStruct
<1>3. c' = n
  OBVIOUS
<1> HIDE DEF n
<1>4. /\ CacheOK(c') /\ ReqOK(req') /\ c'.go = {} /\ c'.done = {}
      /\ ~c'.panic => Struct(c', req', Counted(c', req', {})) /\ Waits(c', req', {}, list')
  BY <1>1, <1>2, <1>3
<1> QED
  BY <1>4, NextStructure

\* Starting a write keeps the structure, and so does the end of activation.
LEMMA StartStructure ==
  ASSUME SInv, MwcmStart \/ DoneStart \/ Activated
  PROVE  SInv'
<1>1. /\ c' = CacheStart(c) /\ req' = req /\ list' = list /\ up' = "up"
      /\ thr' \in {thr, "idle"} /\ intr' \in {intr, "idle"} /\ (intr = "list" => intr' = intr)
      /\ UNCHANGED <<err, disk, vgsa, torn, recover, errors, crashes>>
  BY DEF MwcmStart, DoneStart, Activated, ThreadRuns, Running
<1>2. StateOK'
  BY <1>1 DEF SInv, StateOK, vgsa
<1> QED
  BY <1>1, <1>2, StartKept

\* lv_cache_clean.
LEMMA CleanStructure ==
  ASSUME SInv, NEW l \in Lv, Clean(l)
  PROVE  SInv'
<1>1. /\ up = "up" /\ ~c.panic /\ StateOK
      /\ UNCHANGED <<up, req, thr, intr, list, err, disk, vgsa, torn, recover, errors, crashes>>
      /\ c' \in {[c EXCEPT !.clean = l], c, CacheStart(Scrub(c, l))}
  BY DEF Clean, ThreadRuns, Running, SInv
<1>2. StateOK'
  BY <1>1 DEF StateOK, vgsa
<1>3. /\ CacheOK(c) /\ c \in Cache /\ ReqOK(req) /\ c.go = {} /\ c.done = {}
      /\ Struct(c, req, Counted(c, req, {})) /\ Waits(c, req, {}, list)
  BY <1>1 DEF SInv, CacheOK
<1>4. SUFFICES /\ CacheOK(c') /\ c'.go = {} /\ c'.done = {}
               /\ ~c'.panic => Struct(c', req, Counted(c', req, {})) /\ Waits(c', req, {}, list)
  BY <1>1, <1>2, <1>3, NextStructure
<1>5. CASE c' = c
  BY <1>3, <1>5
<1>6. CASE c' = [c EXCEPT !.clean = l]
  <2>1. /\ c' \in Cache /\ SameEntries(c', c) /\ SameQueues(c', c) /\ c'.writeq = c.writeq
    BY <1>3, <1>6 DEF Cache, SameEntries, SameQueues
  <2>2. CacheOK(c') /\ \A U : Struct(c, req, U) => Struct(c', req, U)
    BY <1>3, <2>1, EntriesFrame DEF CacheOK
  <2>3. Counted(c', req, {}) = Counted(c, req, {}) /\ Waits(c', req, {}, list)
    BY <1>3, <2>1, QueuesFrame
  <2> QED
    BY <1>3, <2>1, <2>2, <2>3 DEF SameQueues
<1>7. CASE c' = CacheStart(Scrub(c, l))
  <2> DEFINE k == Scrub(c, l)
             U == Counted(c, req, {})
  <2>1. U \in SUBSET Req
    BY DEF Counted, Active
  <2>2. ScrubOf(k, c, req, U)
    BY <1>3, <2>1, ScrubStruct
  <2> HIDE DEF k
  <2>3. /\ CacheOK(k) /\ SameQueues(k, c) /\ (~k.panic => Struct(k, req, U))
    BY <2>2 DEF ScrubOf
  <2>4. Counted(k, req, {}) = U /\ Waits(k, req, {}, list) /\ k.go = {} /\ k.done = {}
    BY <1>3, <2>3, QueuesFrame DEF SameQueues
  <2> DEFINE n == CacheStart(k)
  <2>5. /\ CacheOK(n) /\ n.panic = k.panic /\ n.go = k.go /\ n.done = k.done
        /\ Counted(n, req, {}) = Counted(k, req, {})
        /\ Waits(k, req, {}, list) => Waits(n, req, {}, list)
        /\ Struct(k, req, U) => Struct(n, req, U)
    BY <2>3, StartStruct
  <2>6. c' = n
    BY <1>7 DEF k
  <2> HIDE DEF n, U
  <2> QED
    BY <2>3, <2>4, <2>5, <2>6
<1> QED
  BY <1>1, <1>5, <1>6, <1>7

\* PVs that go missing or come back: the cache does not change.
LEMMA SameCache ==
  ASSUME SInv, StateOK', UNCHANGED <<c, req, list>>
  PROVE  SInv'
  BY DEF SInv

\* PVs that go missing or come back leave the cache alone.
LEMMA MissingStructure ==
  ASSUME SInv, NEW p \in PV, GoMissing(p) \/ Attach(p)
  PROVE  SInv'
<1>1. /\ UNCHANGED <<up, c, req, thr, intr, list, err, disk, stale, lost, torn, recover,
                     errors, crashes>>
      /\ missing' \in {missing, missing \cup {p}, missing \ {p}}
      /\ away' \in {away, away \ {p}}
  BY DEF GoMissing, Attach
<1>2. missing' \subseteq PV /\ away' \subseteq PV
  BY <1>1 DEF SInv, StateOK
<1>3. StateOK'
  BY <1>1, <1>2 DEF SInv, StateOK
<1> QED
  BY <1>1, <1>3, SameCache

\* Nothing is left of the cache.
LEMMA FreshStructure ==
  ASSUME StateOK', NEW time, Initial(c', time), req' = [r \in Req |-> NoReq], list' = <<>>
  PROVE  SInv'
<1> DEFINE q == [r \in Req |-> NoReq]
<1>1. ReqOK(q) /\ Active(q) = {} /\ Held(q) = {} /\ req' = q
  BY NoRequests
<1> HIDE DEF q
<1>2. Struct(c', req', Counted(c', req', {})) /\ Waits(c', req', {}, list')
  BY <1>1, InitialStruct
<1> QED
  BY <1>1, <1>2, NextStructure DEF Initial

\* The record names LTGs.
LEMMA NamedLtgs ==
  ASSUME NEW k \in Cache
  PROVE  Named(k) \subseteq Ltg
  BY EntryField, ChainSet DEF Named

\* After a crash memory is empty and the records are records, torn or not.
LEMMA CrashStructure ==
  ASSUME SInv, Crash
  PROVE  SInv'
<1>1. /\ StateOK /\ c \in Cache /\ ReqOK(req)
  BY DEF SInv, CacheOK
<1>2. /\ Initial(c', c.clock) /\ c.clock \in Nat
  BY <1>1, PlainInitial DEF Crash, Cache
<1>3. disk' \in [PV -> [{0, 1} -> Rec]]
  <2>1. CASE c.inflight = NoPv
    BY <1>1, <2>1 DEF Crash, StateOK
  <2>2. CASE c.inflight # NoPv
    <3> DEFINE p == c.inflight
               i == c.toggle[p]
    <3>1. p \in PV /\ i \in {0, 1}
      BY <1>1, <2>2 DEF Cache
    <3>2. /\ NoRec \in Rec /\ [ts |-> c.clock, ltgs |-> Named(c)] \in Rec
      BY <1>1, <1>2, NamedLtgs DEF NoRec, Rec
    <3>3. disk[p][i] \in Rec /\ disk \in [PV -> [{0, 1} -> Rec]]
      BY <1>1, <3>1 DEF StateOK
    <3>4. \E rec \in {disk[p][i], NoRec, [ts |-> c.clock, ltgs |-> Named(c)]} :
              disk' = [disk EXCEPT ![p][i] = rec]
      BY <2>2 DEF Crash
    <3> HIDE DEF p, i
    <3>5. PICK rec \in Rec : disk' = [disk EXCEPT ![p][i] = rec]
      BY <3>2, <3>3, <3>4
    <3> HIDE DEF Rec
    <3> QED
      BY <3>1, <3>3, <3>5
  <2> QED
    BY <2>1, <2>2
<1>4. torn' \subseteq Ltg
  <2>1. \A r \in Req : req[r].at = "below" => req[r].ltg \in Ltg
    BY <1>1 DEF ReqOK, Active
  <2> QED
    BY <1>1, <2>1 DEF Crash, StateOK
<1>5. StateOK'
  <2>1. /\ up' = "down" /\ crashes' = crashes + 1 /\ req' = [r \in Req |-> NoReq]
        /\ thr' = "idle" /\ intr' = "idle" /\ list' = <<>> /\ err' = FALSE
        /\ away' = {} /\ lost' = FALSE /\ recover' = {}
        /\ UNCHANGED <<stale, missing, errors>>
    BY DEF Crash
  <2>2. c'.chain = <<>> /\ c'.inflight = NoPv /\ Named(c') = {}
    BY <1>2 DEF Initial
  <2>3. /\ up' \in {"up", "down", "recover"} /\ thr' \in {"idle", "start"}
        /\ intr' \in {"idle", "list", "wait", "start"}
        /\ list' \in Seq(Req) /\ (intr' = "list" <=> list' # <<>>)
        /\ err' \in BOOLEAN
    <3>1. <<>> \in Seq(Req)
      OBVIOUS
    <3> QED
      BY <2>1, <3>1
  <2>4. /\ stale' \subseteq Copy /\ missing' \subseteq PV /\ away' \subseteq PV
        /\ lost' = FALSE /\ recover' \subseteq Ltg
        /\ errors' \in Nat /\ crashes' \in Nat
    BY <1>1, <2>1 DEF StateOK
  <2> QED
    BY <1>3, <1>4, <2>1, <2>2, <2>3, <2>4 DEF StateOK
<1>6. req' = [r \in Req |-> NoReq] /\ list' = <<>>
  BY DEF Crash
<1> QED
  BY <1>2, <1>5, <1>6, FreshStructure

-----------------------------------------------------------------------------
(* Activation.                                                             *)

\* x has one good copy at most.
Agree(x, st) == \A m, n \in MirrorsOf(x) : <<x, m>> \notin st /\ <<x, n>> \notin st => m = n

\* Mirrors can be counted.
LEMMA MirrorFinite ==
  ASSUME NEW S \in SUBSET Mirror
  PROVE  IsFiniteSet(S) /\ Cardinality(S) \in Nat
<1>1. IsFiniteSet(Mirror)
  BY MirconsAssumption
<1> QED
  BY <1>1, FS_Subset, FS_CardinalityType

\* lv_cache_stale leaves one good copy at most, and none on the PV.
LEMMA StaleAgree ==
  ASSUME NEW s \in SUBSET Copy, NEW x \in Ltg, NEW p \in PV
  PROVE  LET t == CacheStale(s, x, p) IN
         /\ t \in SUBSET Copy /\ s \subseteq t /\ Agree(x, t)
         /\ \A m \in MirrorsOf(x) : PvOf[x, m] = p => <<x, m>> \in t
<1> DEFINE g == Good(s, x, p)
           ngood == Cardinality(g)
           copies == g \cap MirrorsOf(x)
           Over(m) == {k \in copies : k > m}
           others == {m \in copies : Cardinality(Over(m)) < ngood - 1}
           t == CacheStale(s, x, p)
<1>1. t = s \cup {<<x, m>> : m \in {k \in MirrorsOf(x) : PvOf[x, k] = p} \cup others}
  BY DEF CacheStale
<1>2. g \in SUBSET Mirror /\ copies \subseteq MirrorsOf(x) /\ MirrorsOf(x) \subseteq Mirror
      /\ Mirror \subseteq Nat
  BY MirconsAssumption DEF Good, MirrorsOf
<1>3. t \in SUBSET Copy /\ s \subseteq t
  <2>1. \A m \in {k \in MirrorsOf(x) : PvOf[x, k] = p} \cup others : <<x, m>> \in Copy
    BY <1>2 DEF Copy
  <2> HIDE DEF others, t
  <2> QED
    BY <1>1, <2>1
<1>4. \A m \in MirrorsOf(x) : PvOf[x, m] = p => <<x, m>> \in t
  <2> HIDE DEF others, t
  <2> QED
    BY <1>1
<1>5. ASSUME NEW m \in MirrorsOf(x), <<x, m>> \notin t
      PROVE  m \in g /\ m \in copies /\ Cardinality(Over(m)) = ngood - 1
  <2>1. m \notin others /\ PvOf[x, m] # p /\ <<x, m>> \notin s
    <3> HIDE DEF others, t
    <3> QED
      BY <1>1, <1>3, <1>5
  <2>2. m \in g /\ m \in copies
    BY <1>2, <1>5, <2>1 DEF Good
  <2>3. /\ IsFiniteSet(g) /\ ngood \in Nat /\ IsFiniteSet(g \ {m})
        /\ Cardinality(g \ {m}) = ngood - 1
    BY <1>2, <2>2, MirrorFinite, FS_RemoveElement
  <2>4. Over(m) \in SUBSET (g \ {m})
    <3>1. copies \subseteq g /\ m \in Nat /\ \A k \in copies : k \in Nat
      BY <1>2, <2>2
    <3> HIDE DEF copies, g
    <3>2. \A k \in copies : k > m => k # m
      BY <3>1
    <3> QED
      BY <3>1, <3>2
  <2>5. Cardinality(Over(m)) <= ngood - 1 /\ Cardinality(Over(m)) \in Nat
    <3> HIDE DEF Over, g
    <3> QED
      BY <2>3, <2>4, FS_Subset, FS_CardinalityType
  <2>6. ~(Cardinality(Over(m)) < ngood - 1)
    <3> HIDE DEF Over, ngood
    <3> QED
      BY <2>1, <2>2
  <2> HIDE DEF Over, g, ngood
  <2> QED
    BY <2>2, <2>3, <2>5, <2>6
<1>6. ASSUME NEW m \in MirrorsOf(x), NEW n \in MirrorsOf(x), <<x, m>> \notin t, <<x, n>> \notin t,
             m < n
      PROVE  FALSE
  <2>1. /\ n \in copies /\ Cardinality(Over(m)) = ngood - 1 /\ Cardinality(Over(n)) = ngood - 1
    BY <1>5, <1>6
  <2>2. Over(n) \subseteq Over(m) \ {n} /\ n \in Over(m) /\ Over(m) \in SUBSET Mirror
    <3>1. copies \subseteq Mirror /\ \A k \in copies : k \in Nat
      BY <1>2
    <3>2. m \in Nat /\ n \in Nat /\ n > m
      BY <1>2, <1>6
    <3> HIDE DEF copies
    <3>3. \A k \in copies : k > n => k > m /\ k # n
      BY <3>1, <3>2
    <3> QED
      BY <2>1, <3>1, <3>2, <3>3
  <2> HIDE DEF Over, ngood
  <2>3. /\ IsFiniteSet(Over(m)) /\ Cardinality(Over(m)) \in Nat
        /\ Cardinality(Over(m) \ {n}) = Cardinality(Over(m)) - 1 /\ IsFiniteSet(Over(m) \ {n})
    BY <2>2, MirrorFinite, FS_RemoveElement
  <2>4. Cardinality(Over(n)) <= Cardinality(Over(m) \ {n}) /\ Cardinality(Over(n)) \in Nat
    BY <2>2, <2>3, FS_Subset, FS_CardinalityType
  <2> QED
    BY <2>1, <2>3, <2>4
<1>7. Agree(x, t)
  <2>1. ASSUME NEW m \in MirrorsOf(x), NEW n \in MirrorsOf(x), <<x, m>> \notin t, <<x, n>> \notin t
        PROVE  m = n
    <3>1. ~(m < n) /\ ~(n < m)
      BY <1>6, <2>1
    <3>2. m \in Nat /\ n \in Nat
      BY <1>2
    <3> QED
      BY <3>1, <3>2
  <2> HIDE DEF t
  <2> QED
    BY <2>1 DEF Agree
<1> QED
  BY <1>3, <1>4, <1>7

\* More stale copies make no more good ones.
LEMMA AgreeMore ==
  ASSUME NEW x, NEW s, NEW t, s \subseteq t, Agree(x, s)
  PROVE  Agree(x, t)
  BY DEF Agree

\* What has become stale from s when the PVs of u could not be read.
StaleTo(t, s, u) ==
    /\ t \subseteq Copy /\ s \subseteq t
    /\ \A p \in u, x \in Ltg : \A m \in MirrorsOf(x) :
          PvOf[x, m] = p => <<x, m>> \in t /\ Agree(x, t)

\* lv_cache_missing makes the copies on a PV stale, and leaves one good copy of an LTG that
\* has one there.
LEMMA MissingStale ==
  ASSUME NEW s \in SUBSET Copy, NEW p \in PV
  PROVE  StaleTo(CacheMissing(s, p), s, {p})
<1> DEFINE t == CacheMissing(s, p)
           C == {CacheStale(s, x, p) : x \in OnPv(p)}
<1>1. t = s \cup UNION C
  BY DEF CacheMissing
<1>6. OnPv(p) \subseteq Ltg
  BY DEF OnPv
<1> HIDE DEF t
<1>2. \A x \in OnPv(p) : CacheStale(s, x, p) \subseteq Copy /\ CacheStale(s, x, p) \subseteq t
  BY <1>1, <1>6, StaleAgree
<1>5. C \subseteq SUBSET Copy
  BY <1>2
<1> HIDE DEF C
<1>3. t \subseteq Copy /\ s \subseteq t
  <2>1. ASSUME NEW y \in t PROVE y \in Copy
    <3>1. CASE y \in s
      BY <3>1
    <3>2. CASE y \in UNION C
      BY <1>5, <3>2
    <3> QED
      BY <1>1, <3>1, <3>2
  <2>2. s \subseteq t
    BY <1>1
  <2> QED
    BY <2>1, <2>2
<1>4. ASSUME NEW x \in Ltg, NEW m \in MirrorsOf(x), PvOf[x, m] = p
      PROVE  <<x, m>> \in t /\ Agree(x, t)
  <2>1. x \in OnPv(p)
    BY <1>4 DEF OnPv, MirrorsOf
  <2>2. <<x, m>> \in CacheStale(s, x, p) /\ Agree(x, CacheStale(s, x, p))
    BY <1>4, StaleAgree
  <2> QED
    BY <1>2, <2>1, <2>2, AgreeMore
<1> QED
  BY <1>3, <1>4 DEF StaleTo, t

\* Activation does so for all PVs whose records cannot be read.
LEMMA StaleLoopEnds ==
  ASSUME NEW s \in SUBSET Copy, NEW u \in SUBSET PV
  PROVE  StaleTo(FoldLeft(LAMBDA a, p : IF p \in u THEN CacheMissing(a, p) ELSE a, s, AllPvs), s, u)
<1> DEFINE q == AllPvs
           n == Fold("stale", u, s, q)
<1>1. FoldLeft(LAMBDA a, p : IF p \in u THEN CacheMissing(a, p) ELSE a, s, AllPvs) = n
  BY DEF Fold, LoopStep, StaleStep, FoldLeft, MapThenFoldSet
<1>2. /\ NPV \in Nat /\ q \in Seq(PV) /\ Len(q) = NPV /\ \A i \in 1 .. NPV : q[i] = i - 1
  <2>1. NPV \in Nat
    BY MirconsAssumption
  <2>2. \A i \in 1 .. NPV : i - 1 \in PV
    BY <2>1 DEF PV
  <2> HIDE DEF PV
  <2> QED
    BY <2>1, <2>2 DEF AllPvs
<1>3. PICK h : /\ h[0] = s /\ \A i \in 1 .. Len(q) : h[i] = StaleStep(u, h[i - 1], q[i])
               /\ n = h[Len(q)]
  BY <1>2, Chain, LoopSteps
<1>9. \A p \in u : p \in Nat /\ p < NPV
  BY <1>2 DEF PV
<1> DEFINE S == {i \in Nat : i <= NPV => StaleTo(h[i], s, {p \in u : p < i})}
<1>4. 0 \in S
  <2>1. {p \in u : p < 0} = {}
    BY <1>9
  <2> QED
    BY <1>3, <2>1 DEF StaleTo
<1>5. ASSUME NEW i \in Nat, i \in S PROVE i + 1 \in S
  <2>1. SUFFICES ASSUME i + 1 <= NPV PROVE StaleTo(h[i + 1], s, {p \in u : p < i + 1})
    BY <1>5
  <2>2. i <= NPV /\ i + 1 \in 1 .. NPV /\ (i + 1) - 1 = i /\ i \in PV
    BY <1>2, <2>1 DEF PV
  <2>3. h[i + 1] = StaleStep(u, h[i], i)
    BY <1>2, <1>3, <2>2
  <2>4. StaleTo(h[i], s, {p \in u : p < i})
    BY <1>5, <2>2
  <2>5. \A p \in u : p < i + 1 <=> p < i \/ p = i
    BY <1>2 DEF PV
  <2>6. CASE i \notin u
    <3>1. {p \in u : p < i + 1} = {p \in u : p < i} /\ h[i + 1] = h[i]
      BY <2>3, <2>5, <2>6 DEF StaleStep
    <3> QED
      BY <2>4, <3>1
  <2>7. CASE i \in u
    <3> DEFINE v == {p \in u : p < i}
               w == {p \in u : p < i + 1}
    <3>1. w = v \cup {i}
      BY <2>5, <2>7
    <3>2. h[i + 1] = CacheMissing(h[i], i) /\ h[i] \in SUBSET Copy /\ s \subseteq h[i]
      BY <2>3, <2>4, <2>7 DEF StaleStep, StaleTo
    <3>3. StaleTo(h[i + 1], h[i], {i})
      BY <2>2, <3>2, MissingStale
    <3> HIDE DEF v, w
    <3>4. StaleTo(h[i], s, v)
      BY <2>4 DEF v
    <3>5. StaleTo(h[i + 1], s, w)
      <4>1. ASSUME NEW p \in w, NEW x \in Ltg, NEW m \in MirrorsOf(x), PvOf[x, m] = p
            PROVE  <<x, m>> \in h[i + 1] /\ Agree(x, h[i + 1])
        <5>1. CASE p = i
          BY <3>3, <4>1, <5>1 DEF StaleTo
        <5>2. CASE p \in v
          <6>1. <<x, m>> \in h[i] /\ Agree(x, h[i])
            BY <3>4, <4>1, <5>2 DEF StaleTo
          <6>2. h[i] \subseteq h[i + 1]
            BY <3>3 DEF StaleTo
          <6> QED
            BY <6>1, <6>2, AgreeMore
        <5> QED
          BY <3>1, <5>1, <5>2
      <4>2. h[i + 1] \subseteq Copy /\ s \subseteq h[i + 1]
        BY <3>2, <3>3 DEF StaleTo
      <4> QED
        BY <4>1, <4>2 DEF StaleTo
    <3> QED
      BY <3>5 DEF w
  <2> QED
    BY <2>6, <2>7
<1>6. Nat \subseteq S
  <2> HIDE DEF S
  <2> QED
    BY <1>4, <1>5, NatInd
<1>7. {p \in u : p < NPV} = u
  BY <1>9
<1>8. StaleTo(h[NPV], s, u)
  BY <1>2, <1>6, <1>7
<1> QED
  BY <1>1, <1>2, <1>3, <1>8

\* lv_cache_activate finds the newest record among those that could be read.
LEMMA NewestFound ==
  ASSUME disk \in [PV -> [{0, 1} -> Rec]], NEW read \in SUBSET PV, read # {}
  PROVE  /\ NewestPv(read) \in read
         /\ \A q \in read : RecordOf(q).ts <= RecordOf(NewestPv(read)).ts
<1> DEFINE Best(Q, p) == \A q \in Q : \/ RecordOf(q).ts < RecordOf(p).ts
                                      \/ RecordOf(q).ts = RecordOf(p).ts /\ p <= q
           S == {n \in Nat : \A Q \in SUBSET PV :
                     Q # {} /\ (\A q \in Q : q < n) => \E p \in Q : Best(Q, p)}
<1>1. \A p \in PV : p \in Nat /\ p < NPV /\ RecordOf(p).ts \in Nat
  <2>1. \A p \in PV : disk[p][0] \in Rec /\ disk[p][1] \in Rec
    OBVIOUS
  <2>2. \A p \in PV : RecordOf(p) \in Rec
    BY <2>1 DEF RecordOf
  <2>3. \A p \in PV : RecordOf(p).ts \in Nat
    BY <2>2 DEF Rec
  <2> QED
    BY <2>3, MirconsAssumption DEF PV
<1>2. 0 \in S
  <2>1. ASSUME NEW Q \in SUBSET PV, Q # {}, \A q \in Q : q < 0 PROVE FALSE
    <3>1. PICK q \in Q : TRUE
      BY <2>1
    <3>2. q \in Nat /\ q < 0
      BY <1>1, <2>1
    <3> QED
      BY <3>2
  <2> HIDE DEF Best
  <2> QED
    BY <2>1
<1>3. ASSUME NEW n \in Nat, n \in S PROVE n + 1 \in S
  <2> SUFFICES ASSUME NEW Q \in SUBSET PV, Q # {}, \A q \in Q : q < n + 1
               PROVE  \E p \in Q : Best(Q, p)
    BY <1>3
  <2> DEFINE R == Q \ {n}
  <2>1. R \in SUBSET PV /\ \A q \in R : q < n
    <3>1. \A q \in Q : q # n => q < n
      BY <1>1
    <3> QED
      BY <3>1
  <2>2. CASE n \notin Q
    <3>1. R = Q
      BY <2>2
    <3> HIDE DEF Best
    <3> QED
      BY <1>3, <2>1, <3>1
  <2>3. CASE n \in Q /\ R = {}
    <3>1. Q = {n} /\ n \in PV
      BY <2>3
    <3>2. Best(Q, n)
      BY <1>1, <3>1
    <3> QED
      BY <2>3, <3>2
  <2>4. CASE n \in Q /\ R # {}
    <3>1. PICK p \in R : Best(R, p)
      <4> HIDE DEF Best, R
      <4> QED
        BY <1>3, <2>1, <2>4
    <3>2. /\ p \in Q /\ p < n /\ p \in PV /\ n \in PV /\ p \in Nat
          /\ RecordOf(p).ts \in Nat /\ RecordOf(n).ts \in Nat
      BY <1>1, <2>1, <2>4, <3>1
    <3>3. CASE RecordOf(n).ts > RecordOf(p).ts
      <4>1. ASSUME NEW q \in R PROVE RecordOf(q).ts < RecordOf(n).ts
        <5>1. RecordOf(q).ts <= RecordOf(p).ts /\ RecordOf(q).ts \in Nat
          BY <1>1, <2>1, <3>1, <3>2
        <5> QED
          BY <3>2, <3>3, <5>1
      <4>2. Best(Q, n)
        BY <4>1
      <4> QED
        BY <2>4, <4>2
    <3>4. CASE ~(RecordOf(n).ts > RecordOf(p).ts)
      <4>1. RecordOf(n).ts < RecordOf(p).ts \/ (RecordOf(n).ts = RecordOf(p).ts /\ p <= n)
        BY <3>2, <3>4
      <4>2. Best(Q, p)
        BY <3>1, <4>1
      <4> QED
        BY <3>2, <4>2
    <3> QED
      BY <3>3, <3>4
  <2> QED
    BY <2>2, <2>3, <2>4
<1>4. Nat \subseteq S
  <2> HIDE DEF S
  <2> QED
    BY <1>2, <1>3, NatInd
<1>5. NPV \in S
  BY <1>4, MirconsAssumption
<1>6. \E p \in read : Best(read, p)
  <2> HIDE DEF Best
  <2> QED
    BY <1>1, <1>5
<1>7. NewestPv(read) \in read /\ Best(read, NewestPv(read))
  BY <1>6 DEF NewestPv
<1>8. NewestPv(read) \in PV
  BY <1>7
<1> QED
  BY <1>1, <1>7, <1>8

\* The newest record names LTGs.
LEMMA NewestLtgs ==
  ASSUME disk \in [PV -> [{0, 1} -> Rec]], NEW read \in SUBSET PV
  PROVE  Newest(read) \in SUBSET Ltg
<1>1. CASE read = {}
  BY <1>1 DEF Newest
<1>2. CASE read # {}
  <2>1. NewestPv(read) \in PV
    BY <1>2, NewestFound
  <2>2. disk[NewestPv(read)][0] \in Rec /\ disk[NewestPv(read)][1] \in Rec
    BY <2>1
  <2>3. RecordOf(NewestPv(read)) \in Rec
    BY <2>2 DEF RecordOf
  <2>4. RecordOf(NewestPv(read)).ltgs \in SUBSET Ltg
    BY <2>3 DEF Rec
  <2> QED
    BY <2>4 DEF Newest
<1> QED
  BY <1>1, <1>2

\* The cache that lv_cache_activate starts with.
ActiveCache(read, b) ==
    [CacheInit(c.clock) EXCEPT
        !.latest = {p \in read : RecordOf(p).ts > 0},
        !.toggle = [p \in PV |-> IF p \in read THEN 1 ELSE 0],
        !.panic = b]

\* That cache is a new one.
LEMMA ActiveInitial ==
  ASSUME c.clock \in Nat, NEW read \in SUBSET PV, NEW b \in BOOLEAN
  PROVE  LET k == ActiveCache(read, b) IN
         /\ Initial(k, c.clock) /\ k.panic = b
         /\ k.toggle = [p \in PV |-> IF p \in read THEN 1 ELSE 0]
         /\ k.writeq = <<>> /\ k.changed = FALSE
<1> DEFINE t == [p \in PV |-> IF p \in read THEN 1 ELSE 0]
           l == {p \in read : RecordOf(p).ts > 0}
           k == ActiveCache(read, b)
           time == c.clock
<1>1. t \in [PV -> {0, 1}] /\ l \in SUBSET PV /\ time \in Nat
  OBVIOUS
<1>2. k = Flagged(CacheInit(time), l, t, b)
  BY DEF ActiveCache, Flagged
<1> HIDE DEF t, l, k, time
<1>4. FlaggedOf(k, time, l, t, b)
  BY <1>1, <1>2, InitialCache
<1>3. /\ Initial(k, time) /\ k.toggle = t /\ k.panic = b
      /\ k.writeq = <<>> /\ k.changed = FALSE
  BY <1>4 DEF FlaggedOf
<1> QED
  BY <1>3 DEF t, k, time

\* What activation does.
LEMMA ActivateFields ==
  ASSUME SInv, Activate
  PROVE  \E Q \in SUBSET PV : \E bad \in SUBSET (Q \ missing) :
            LET read == (Q \ missing) \ bad
                unread == (PV \ missing) \ read
                b == \E p \in unread : TooGood(stale, p)
                k == ActiveCache(read, b) IN
            /\ 2 * Cardinality(Q) > NPV
            /\ recover' = Newest(read) /\ recover' \subseteq Ltg
            /\ StaleTo(stale', stale, unread)
            /\ Initial(k, c.clock) /\ k.panic = b
            /\ k.toggle = [p \in PV |-> IF p \in read THEN 1 ELSE 0]
            /\ k.writeq = <<>> /\ k.changed = FALSE
            /\ \/ Newest(read) = {} /\ c' = k
               \/ Newest(read) # {} /\ c' = CacheUpdate(k)
            /\ errors' = errors + Cardinality(bad) /\ IsFiniteSet(bad)
            /\ missing' = PV \ Q /\ away' = PV \ Q
<1>1. StateOK /\ c.clock \in Nat
  BY DEF SInv, CacheOK, Cache
<1>12. PICK Q \in SUBSET PV : \E bad \in SUBSET (Q \ missing) :
          LET read == (Q \ missing) \ bad
              unread == (PV \ missing) \ read
              k == ActiveCache(read, \E p \in unread : TooGood(stale, p)) IN
          /\ 2 * Cardinality(Q) > NPV
          /\ errors' = errors + Cardinality(bad)
          /\ stale' = FoldLeft(LAMBDA s, p : IF p \in unread THEN CacheMissing(s, p)
                                            ELSE s, stale, AllPvs)
          /\ recover' = Newest(read)
          /\ c' = IF Newest(read) = {} THEN k ELSE CacheUpdate(k)
          /\ missing' = PV \ Q /\ away' = PV \ Q
  BY Zenon DEF Activate, ActiveCache
<1>2. PICK bad \in SUBSET (Q \ missing) :
          LET read == (Q \ missing) \ bad
              unread == (PV \ missing) \ read
              k == ActiveCache(read, \E p \in unread : TooGood(stale, p)) IN
          /\ 2 * Cardinality(Q) > NPV
          /\ errors' = errors + Cardinality(bad)
          /\ stale' = FoldLeft(LAMBDA s, p : IF p \in unread THEN CacheMissing(s, p)
                                            ELSE s, stale, AllPvs)
          /\ recover' = Newest(read)
          /\ c' = IF Newest(read) = {} THEN k ELSE CacheUpdate(k)
          /\ missing' = PV \ Q /\ away' = PV \ Q
  BY <1>12, Zenon
<1> DEFINE read == (Q \ missing) \ bad
           unread == (PV \ missing) \ read
           b == \E p \in unread : TooGood(stale, p)
           k == ActiveCache(read, b)
<1>3. /\ 2 * Cardinality(Q) > NPV
      /\ errors' = errors + Cardinality(bad)
      /\ recover' = Newest(read)
      /\ c' = (IF Newest(read) = {} THEN k ELSE CacheUpdate(k))
      /\ missing' = PV \ Q /\ away' = PV \ Q
  BY <1>2
<1>4. stale' = FoldLeft(LAMBDA s, p : IF p \in unread THEN CacheMissing(s, p) ELSE s, stale, AllPvs)
  BY <1>2
<1>5. unread \in SUBSET PV /\ read \in SUBSET PV /\ stale \in SUBSET Copy
      /\ disk \in [PV -> [{0, 1} -> Rec]]
  BY <1>1 DEF StateOK
<1> HIDE DEF unread, read
<1>6. StaleTo(stale', stale, unread)
  BY <1>4, <1>5, StaleLoopEnds
<1>7. recover' \subseteq Ltg
  BY <1>3, <1>5, NewestLtgs
<1>8. /\ Initial(k, c.clock) /\ k.panic = b
      /\ k.toggle = [p \in PV |-> IF p \in read THEN 1 ELSE 0]
      /\ k.writeq = <<>> /\ k.changed = FALSE
  <2>1. b \in BOOLEAN
    BY Zenon
  <2> HIDE DEF b, k
  <2>2. c.clock \in Nat /\ read \in SUBSET PV /\ k = ActiveCache(read, b)
    BY <1>1, <1>5 DEF k
  <2> QED
    BY <2>1, <2>2, ActiveInitial
<1>9. IsFiniteSet(bad)
  <2>1. IsFiniteSet(0 .. NPV - 1)
    <3>1. 0 \in Int /\ NPV - 1 \in Int
      BY MirconsAssumption
    <3> QED
      BY <3>1, FS_Interval
  <2>2. bad \in SUBSET (0 .. NPV - 1)
    BY DEF PV
  <2> QED
    BY <2>1, <2>2, FS_Subset
<1>10. \/ Newest(read) = {} /\ c' = k
       \/ Newest(read) # {} /\ c' = CacheUpdate(k)
  BY <1>3
<1>11. /\ 2 * Cardinality(Q) > NPV
       /\ recover' = Newest(read) /\ recover' \subseteq Ltg
       /\ StaleTo(stale', stale, unread)
       /\ Initial(k, c.clock) /\ k.panic = b
       /\ k.toggle = [p \in PV |-> IF p \in read THEN 1 ELSE 0]
       /\ k.writeq = <<>> /\ k.changed = FALSE
       /\ \/ Newest(read) = {} /\ c' = k
          \/ Newest(read) # {} /\ c' = CacheUpdate(k)
       /\ errors' = errors + Cardinality(bad) /\ IsFiniteSet(bad)
       /\ missing' = PV \ Q /\ away' = PV \ Q
  <2> HIDE DEF k, b
  <2> QED
    BY <1>3, <1>6, <1>7, <1>8, <1>9, <1>10
<1> QED
  BY <1>11, Zenon DEF read, unread

\* Activation makes the structure.
LEMMA ActivateStructure ==
  ASSUME SInv, Activate
  PROVE  SInv'
<1>1. /\ StateOK /\ up = "down" /\ up' = "recover" /\ ReqOK(req)
      /\ UNCHANGED <<req, thr, intr, list, err, disk, lost, torn, crashes>>
  BY DEF SInv, Activate
<1>2. PICK Q \in SUBSET PV : \E bad \in SUBSET (Q \ missing) : \E k, u :
          /\ recover' \subseteq Ltg /\ StaleTo(stale', stale, u)
          /\ Initial(k, c.clock) /\ k.writeq = <<>> /\ (c' = k \/ c' = CacheUpdate(k))
          /\ errors' = errors + Cardinality(bad) /\ IsFiniteSet(bad)
          /\ missing' = PV \ Q /\ away' = PV \ Q
  BY ActivateFields, ZenonT(60)
<1>20. PICK bad \in SUBSET (Q \ missing) : \E k, u :
          /\ recover' \subseteq Ltg /\ StaleTo(stale', stale, u)
          /\ Initial(k, c.clock) /\ k.writeq = <<>> /\ (c' = k \/ c' = CacheUpdate(k))
          /\ errors' = errors + Cardinality(bad) /\ IsFiniteSet(bad)
          /\ missing' = PV \ Q /\ away' = PV \ Q
  BY <1>2
<1>3. PICK k, u :
          /\ recover' \subseteq Ltg /\ StaleTo(stale', stale, u)
          /\ Initial(k, c.clock) /\ k.writeq = <<>> /\ (c' = k \/ c' = CacheUpdate(k))
          /\ errors' = errors + Cardinality(bad) /\ IsFiniteSet(bad)
          /\ missing' = PV \ Q /\ away' = PV \ Q
  BY <1>20
<1>4. Initial(c', c.clock)
  <2>1. CASE c' = k
    BY <1>3, <2>1
  <2>2. CASE c' = CacheUpdate(k)
    <3>1. k \in Cache /\ CacheOK(k) /\ IsInjective(k.writeq)
      BY <1>3 DEF Initial, CacheOK
    <3>2. Updated(c', k)
      BY <2>2, <3>1, UpdateFields
    <3>3. /\ c' \in Cache /\ SameEntries(c', k) /\ SameQueues(c', k) /\ c'.inflight = k.inflight
          /\ c'.clean = k.clean /\ c'.clock = k.clock /\ IsInjective(c'.writeq)
      BY <3>2 DEF Updated
    <3>4. CacheOK(c') /\ Hashed(c') = Hashed(k) /\ Named(c') = Named(k)
      BY <3>1, <3>3, EntriesFrame
    <3> QED
      BY <1>3, <3>3, <3>4 DEF Initial, SameEntries, SameQueues
  <2> QED
    BY <1>3, <2>1, <2>2
<1>5. errors' \in Nat
  <2>1. Cardinality(bad) \in Nat
    BY <1>3, FS_CardinalityType
  <2>2. errors \in Nat /\ errors' = errors + Cardinality(bad)
    BY <1>1, <1>3 DEF StateOK
  <2> QED
    BY <2>1, <2>2
<1>6. req' = [r \in Req |-> NoReq] /\ list' = <<>>
  BY <1>1 DEF StateOK
<1>7. StateOK'
  <2>1. c'.chain = <<>> /\ c'.inflight = NoPv /\ Named(c') = {}
    BY <1>4 DEF Initial
  <2>2. stale' \subseteq Copy /\ recover' \subseteq Ltg /\ missing' \subseteq PV /\ away' \subseteq PV
    BY <1>3 DEF StaleTo
  <2> QED
    BY <1>1, <1>5, <1>6, <2>1, <2>2 DEF StateOK
<1> QED
  BY <1>4, <1>6, <1>7, FreshStructure

\* lv_recover_ltg.
LEMMA RecoverStructure ==
  ASSUME SInv, NEW x \in Ltg, RecoverLtg(x)
  PROVE  SInv'
<1>1. /\ StateOK
      /\ UNCHANGED <<up, c, req, thr, intr, list, err, disk, missing, away, lost, errors, crashes>>
      /\ recover' = recover \ {x} /\ torn' \in {torn, torn \ {x}}
      /\ \E S \in SUBSET Mirror : stale' = stale \cup {<<x, m>> : m \in S}
  <2>1. /\ StateOK
        /\ UNCHANGED <<up, c, req, thr, intr, list, err, disk, missing, away, lost, errors, crashes>>
        /\ recover' = recover \ {x} /\ torn' \in {torn, torn \ {x}}
    BY DEF SInv, RecoverLtg
  <2>2. \E S \in SUBSET Mirror : stale' = stale \cup {<<x, m>> : m \in S}
    <3> DEFINE reach == {m \in Fresh(x) : PvOf[x, m] \notin missing}
               left == Fresh(x) \ reach
    <3>1. stale' = stale \/ stale' = stale \cup {<<x, m>> : m \in left}
      BY DEF RecoverLtg
    <3>2. left \in SUBSET Mirror /\ {} \in SUBSET Mirror
      BY DEF Fresh, MirrorsOf
    <3>3. stale = stale \cup {<<x, m>> : m \in {}}
      OBVIOUS
    <3> HIDE DEF left
    <3> QED
      BY <3>1, <3>2, <3>3
  <2> QED
    BY <2>1, <2>2
<1>2. stale' \subseteq Copy
  BY <1>1 DEF StateOK, Copy
<1>3. StateOK'
  BY <1>1, <1>2 DEF StateOK
<1> QED
  BY <1>1, <1>3, SameCache

\* The initial states have the structure.
LEMMA InitStructure ==
  ASSUME Init
  PROVE  SInv
<1> DEFINE q == [r \in Req |-> NoReq]
<1>1. Initial(c, 0)
  BY PlainInitial DEF Init
<1>2. ReqOK(q) /\ Active(q) = {} /\ Held(q) = {} /\ req = q /\ list = <<>>
  BY NoRequests DEF Init
<1> HIDE DEF q
<1>3. Struct(c, req, Counted(c, req, {})) /\ Waits(c, req, {}, list)
  BY <1>1, <1>2, InitialStruct
<1>4. StateOK
  <2>1. disk \in [PV -> [{0, 1} -> Rec]]
    BY DEF Init, NoRec, Rec
  <2>2. <<>> \in Seq(Req)
    OBVIOUS
  <2> QED
    BY <2>1, <2>2 DEF Init, StateOK
<1> QED
  BY <1>1, <1>2, <1>3, <1>4 DEF SInv, Initial

\* Every step keeps the structure.
LEMMA StructureStep ==
  ASSUME SInv, ~MayLose, [Next]_vars
  PROVE  SInv'
<1>1. CASE UNCHANGED vars
  BY <1>1 DEF vars, vgsa, SInv, StateOK
<1>2. ASSUME NEW r \in Req, MwcDone(r) PROVE SInv'
  BY <1>2, DoneStructure
<1>3. ASSUME NEW r \in Req, NEW x \in Ltg, Mwcm(r, x) PROVE SInv'
  BY <1>3, MwcmStructure
<1>4. CASE MwcmStart \/ DoneStart \/ Activated
  BY <1>4, StartStructure
<1>5. CASE RecordDone
  BY <1>5, RecordDoneStructure
<1>6. CASE RecordDoneNext
  BY <1>6, NextStructureKept
<1>7. CASE CacheWait
  BY <1>7, CacheWaitStructure
<1>8. ASSUME NEW l \in Lv, Clean(l) PROVE SInv'
  BY <1>8, CleanStructure
<1>9. ASSUME NEW p \in PV, GoMissing(p) \/ Attach(p) PROVE SInv'
  BY <1>9, MissingStructure
<1>10. CASE Crash
  BY <1>10, CrashStructure
<1>11. CASE Activate
  BY <1>11, ActivateStructure
<1>12. ASSUME NEW x \in Ltg, RecoverLtg(x) PROVE SInv'
  BY <1>12, RecoverStructure
<1> QED
  BY <1>1, <1>2, <1>3, <1>4, <1>5, <1>6, <1>7, <1>8, <1>9, <1>10, <1>11, <1>12 DEF Next

\* No entry is lost or on the chain twice, the count of an entry is of the requests that
\* hold it, and whoever waits is on one queue only, whatever fails and whenever the system
\* crashes: until lv_cache_new panics, and what the threads still do then breaks nothing.
THEOREM Structure == Spec /\ ~MayLose => []SInv
<1>1. Init => SInv
  BY InitStructure
<1>2. CASE ~MayLose
  <2>1. SInv /\ [Next]_vars => SInv'
    BY <1>2, StructureStep
  <2> QED
    BY <1>1, <2>1, PTL DEF Spec
<1> QED
  BY <1>2

\* The fields have their types.
THEOREM TypeCorrect == Spec /\ ~MayLose => []TypeOK
<1>1. SInv => TypeOK
  <2> SUFFICES ASSUME SInv PROVE TypeOK
    OBVIOUS
  <2>1. CacheOK(c) /\ ReqOK(req) /\ StateOK
    BY DEF SInv
  <2>2. \A e \in Entry : c.ent[e] \in EntryT /\ c.ent[e].iocnt \in 0 .. Cardinality(Req)
    BY <2>1 DEF CacheOK, Cache
  <2>3. \A e \in Entry : /\ c.ent[e].ltg \in Ltg \cup {None}
                         /\ c.ent[e].iocnt \in 0 .. Cardinality(Req)
                         /\ c.ent[e].state \subseteq {CHANGING, FROZEN}
    BY <2>2 DEF EntryT
  <2>4. ToSet(c.writeq) \subseteq PV
    <3>1. c.writeq \in Seq(PV)
      BY <2>1 DEF CacheOK, Cache
    <3> QED
      BY <3>1 DEF ToSet
  <2>5. \A r \in Req : req[r].at \in {"idle", "held", "below"}
    BY <2>1 DEF ReqOK, Requests
  <2>6. /\ ToSet(c.lru) = Entry /\ Len(c.lru) = Cardinality(Entry)
        /\ IsInjective(c.chain) /\ c.free \in 0 .. Cardinality(Entry)
        /\ IsInjective(c.writeq)
    BY <2>1 DEF CacheOK
  <2> QED
    BY <2>1, <2>3, <2>4, <2>5, <2>6 DEF TypeOK, StateOK
<1> QED
  BY <1>1, Structure, PTL

=============================================================================
