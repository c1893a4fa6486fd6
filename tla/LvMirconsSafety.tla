-------------------------- MODULE LvMirconsSafety --------------------------
(***************************************************************************)
(* What LvMircons promises, from the structure of its cache: that no two   *)
(* good copies differ after a crash, that none of its panics is reached,   *)
(* that its counters are exact, and that nobody waits for a write of the   *)
(* record that is not to come.                                             *)
(***************************************************************************)
EXTENDS LvMirconsProofs

-----------------------------------------------------------------------------
(* What the theorems assume of the placement of copies.                    *)

Placed == \A x \in Ltg : /\ MirrorsOf(x) # {}
                         /\ PvOf[x, Lowest(MirrorsOf(x))] \notin MayMiss
FewMissing ==
    \A x \in Ltg : \A m, n \in MirrorsOf(x) :
        PvOf[x, m] \in MayMiss /\ PvOf[x, n] \in MayMiss => m = n
Attached ==
    \/ MaxCrashes = 0
    \/ NPV <= 2 /\ \A x \in Ltg : \A m, n \in Mirror \ MirrorsOf(x) : m = n

-----------------------------------------------------------------------------
(* The invariants.                                                         *)

\* The PVs that stay.
Clear(ms) == PV \ (ms \cup MayMiss)
\* The half of PV p that was written last: pv_mwc_latest is toggled when a write starts to end.
Cur(k, p) == IF k.inflight = p THEN 1 - k.toggle[p] ELSE k.toggle[p]
\* Record i of PV p names x, and so does every record that is not older.
Names(d, p, i, x) ==
    /\ d[p][i].ts > 0 /\ x \in d[p][i].ltgs
    /\ \A o \in PV, j \in {0, 1} : d[o][j].ts >= d[p][i].ts => x \in d[o][j].ltgs
\* x is safe from a crash: a PV that holds a copy of it and stays has a record of it, in
\* the half that is not written next. OnDisk is what is left of that after the crash.
Recorded(k, d, ms, x) ==
    \E p \in Clear(ms) : Holds(p, x) /\ Names(d, p, Cur(k, p), x)
OnDisk(d, ms, x) ==
    \E p \in Clear(ms), i \in {0, 1} : Holds(p, x) /\ Names(d, p, i, x)

\* No record is newer than the one in memory.
Stamps(k, d) == \A p \in PV, i \in {0, 1} : d[p][i].ts <= k.clock
\* The newest records name what the one in memory does, unless that has been changed.
Records(k, d) ==
    /\ ~k.changed => \A p \in PV, i \in {0, 1} :
          d[p][i].ts = k.clock /\ k.clock > 0 => Named(k) \subseteq d[p][i].ltgs
    /\ k.inflight # NoPv => ~k.changed /\ k.clock > 0
    /\ k.writeq # <<>> \/ Named(k) # {} => k.changed \/ k.clock > 0
\* Requests, and entries that are not recorded, wait for a PV that stays and holds a copy.
Route(k, q, ms) ==
    /\ \A p \in PV : \A r \in ToSet(k.pvwait[p]) : p \in Clear(ms) /\ Holds(p, q[r].ltg)
    /\ \A e \in Hashed(k) : k.ent[e].state = {CHANGING} =>
          k.ent[e].pvol \in Clear(ms) /\ Holds(k.ent[e].pvol, k.ent[e].ltg)
\* An entry that is not CHANGING is recorded, and what lv_mwc_cache_done is to let go is.
Known(k, q, L, er, d, ms) ==
    /\ \A e \in Hashed(k) : k.ent[e].state = {} => Recorded(k, d, ms, k.ent[e].ltg)
    /\ ~er => \A r \in ToSet(L) : Recorded(k, d, ms, q[r].ltg)
\* What the scheduler has is recorded.
BelowOK(k, q, d, ms) ==
    \A r \in Below(q) \cup k.go : Recorded(k, d, ms, q[r].ltg)

\* After a panic the last write of a record may still end.
RecOK(k, q, L, er, d, ms) ==
    /\ Stamps(k, d) /\ BelowOK(k, q, d, ms)
    /\ k.panic => \/ k.inflight = NoPv
                  \/ \A r \in Below(q) \cup k.go : q[r].ltg \in Named(k)
    /\ ~k.panic => Records(k, d) /\ Route(k, q, ms) /\ Known(k, q, L, er, d, ms)

RInv == RecOK(c, req, list, err, disk, missing)

\* The LTGs whose copies may differ: while the group is up they have one good copy at
\* most, after a crash they are named in a record, and activation recovers them.
TInv ==
    /\ \A x \in Ltg : \A m \in MirrorsOf(x) : PvOf[x, m] \in missing \ MayMiss => <<x, m>> \in stale
    /\ up = "up" => \A x \in torn : Agree(x, stale)
    /\ up # "up" => \A x \in torn : Agree(x, stale) \/ OnDisk(disk, missing, x)
    /\ up = "recover" => \A x \in torn : Agree(x, stale) \/ x \in recover

\* No panic, and no entry that has a name is off the chain.
AOK(k) == ~k.panic /\ \A e \in Entry \ Hashed(k) : k.ent[e].ltg = None
\* A volume that is being cleaned has no requests.
AInv ==
    /\ AOK(c) /\ missing \subseteq MayMiss /\ (MaxCrashes = 0 => up = "up")
    /\ c.clean # None => \A r \in Active(req) : LvOf[req[r].ltg] # c.clean

\* Who waits for a record has a write to wait for, and a request that does stands for
\* every entry that is not recorded yet.
Sought(k, q, L, e) ==
    \E r \in ToSet(k.pvwait[k.ent[e].pvol]) \cup ToSet(L) : q[r].ltg = k.ent[e].ltg
NOK(k, q, L) ==
    /\ \A e \in Hashed(k) : k.ent[e].state = {CHANGING} => Sought(k, q, L, e)
    /\ \A p \in PV : k.pvwait[p] # <<>> => k.inflight = p \/ Queued(k, p)
\* Who waits for an entry has a record being written, or entries in use, to wait for.
Short(k) == k.wait # <<>> => k.inflight # NoPv \/ k.free = 0
NInv ==
    /\ NOK(c, req, list)
    /\ up = "up" /\ c.writeq # <<>> => c.inflight # NoPv \/ thr = "start" \/ intr # "idle"
    /\ intr \in {"idle", "start"} => Short(c)
    /\ up # "up" => c.wait = <<>> /\ \A p \in PV : c.pvwait[p] = <<>>

-----------------------------------------------------------------------------
(* The records: which LTGs are named on a PV that stays.                   *)

\* No write is started or ended, and the toggles stay.
Unmoved(n, k) == n.inflight = k.inflight /\ n.toggle = k.toggle /\ n.clock = k.clock

\* What is recorded depends on the toggles, the write under way and the disks.
LEMMA RecordedSame ==
  ASSUME NEW n, NEW k, Unmoved(n, k), NEW d, NEW ms
  PROVE  /\ Stamps(n, d) <=> Stamps(k, d)
         /\ \A x : Recorded(n, d, ms, x) <=> Recorded(k, d, ms, x)
<1>1. \A p : Cur(n, p) = Cur(k, p)
  BY DEF Cur, Unmoved
<1>2. n.clock = k.clock
  BY DEF Unmoved
<1> QED
  BY <1>1, <1>2 DEF Stamps, Recorded

\* Whatever leaves the record in memory and the queues of PVs alone; requests may move.
LEMMA RecFrame ==
  ASSUME NEW k, NEW n, NEW q, NEW o, NEW L, NEW M, NEW er, NEW d, NEW ms,
         RecOK(k, q, L, er, d, ms), Unmoved(n, k), n.changed = k.changed,
         Named(n) = Named(k), n.writeq = k.writeq, n.panic = k.panic,
         n.pvwait = k.pvwait, Hashed(n) \subseteq Hashed(k),
         \A e \in Hashed(n) : /\ n.ent[e].ltg = k.ent[e].ltg /\ n.ent[e].state = k.ent[e].state
                              /\ n.ent[e].pvol = k.ent[e].pvol,
         Below(o) \cup n.go \subseteq Below(q) \cup k.go,
         \A r \in Below(o) \cup n.go : o[r].ltg = q[r].ltg,
         ~k.panic => /\ ToSet(M) \subseteq ToSet(L) /\ \A r \in ToSet(M) : o[r].ltg = q[r].ltg
                     /\ \A p \in PV : \A r \in ToSet(k.pvwait[p]) : o[r].ltg = q[r].ltg
  PROVE  RecOK(n, o, M, er, d, ms)
<1>1. \A x : Recorded(n, d, ms, x) <=> Recorded(k, d, ms, x)
  BY RecordedSame
<1>2. Stamps(n, d)
  BY RecordedSame DEF RecOK
<1>3. BelowOK(n, o, d, ms)
  BY <1>1 DEF RecOK, BelowOK
<1>4. n.panic => \/ n.inflight = NoPv
                 \/ \A r \in Below(o) \cup n.go : o[r].ltg \in Named(n)
  BY DEF RecOK, Unmoved
<1>5. ASSUME ~n.panic PROVE Records(n, d)
  BY <1>5 DEF RecOK, Unmoved, Records
<1>6. ASSUME ~n.panic PROVE Route(n, o, ms)
  <2>1. Route(k, q, ms)
    BY <1>6 DEF RecOK
  <2>2. \A p \in PV : \A r \in ToSet(n.pvwait[p]) : p \in Clear(ms) /\ Holds(p, o[r].ltg)
    BY <1>6, <2>1 DEF Route
  <2>3. \A e \in Hashed(n) : n.ent[e].state = {CHANGING} =>
           n.ent[e].pvol \in Clear(ms) /\ Holds(n.ent[e].pvol, n.ent[e].ltg)
    BY <1>6, <2>1 DEF Route
  <2> QED
    BY <2>2, <2>3 DEF Route
<1>7. ASSUME ~n.panic PROVE Known(n, o, M, er, d, ms)
  BY <1>1, <1>7 DEF RecOK, Known
<1> QED
  BY <1>2, <1>3, <1>4, <1>5, <1>6, <1>7 DEF RecOK

\* lv_cache_queue finds a PV that stays, if there is one.
LEMMA PlaceClear ==
  ASSUME Placed, NEW k, k.pvwait \in [PV -> Seq(Req)], NEW q, Route(k, q, missing),
         NEW x \in Ltg, ~NoPlace(k, x)
  PROVE  Place(k, x) \in PV /\ Place(k, x) \in Clear(missing) /\ Holds(Place(k, x), x)
<1> DEFINE p == Place(k, x)
<1>1. MirrorsOf(x) # {} /\ p \notin missing
  BY DEF NoPlace
<1>2. /\ p \in PV /\ Holds(p, x)
      /\ \/ p \notin missing /\ k.pvwait[p] # <<>>
         \/ p = PvOf[x, Lowest(MirrorsOf(x))]
  BY <1>1, PlaceType
<1> HIDE DEF p
<1>3. CASE k.pvwait[p] # <<>>
  <2>1. ToSet(k.pvwait[p]) # {}
    <3>1. k.pvwait[p] \in Seq(Req)
      BY <1>2
    <3> QED
      BY <1>3, <3>1, SeqSet
  <2> QED
    BY <1>2, <2>1 DEF Route, p
<1>4. CASE p = PvOf[x, Lowest(MirrorsOf(x))]
  BY <1>1, <1>2, <1>4 DEF Placed, Clear, p
<1> QED
  BY <1>2, <1>3, <1>4

\* The names in memory are the entries'.
LEMMA SameNames ==
  ASSUME NEW n, NEW k, \A e \in Entry : n.ent[e].ltg = k.ent[e].ltg
  PROVE  Named(n) = Named(k)
BY DEF Named

\* A request more on the list of requests that wait for the record on p.
LEMMA RouteMore ==
  ASSUME NEW k, k.pvwait \in [PV -> Seq(Req)], NEW n, NEW q, NEW ms, Route(k, q, ms),
         NEW p \in PV, NEW r \in Req, p \in Clear(ms), Holds(p, q[r].ltg),
         n.pvwait = [k.pvwait EXCEPT ![p] = Append(@, r)],
         \A e \in Hashed(n) : n.ent[e].state = {CHANGING} =>
            n.ent[e].pvol \in Clear(ms) /\ Holds(n.ent[e].pvol, n.ent[e].ltg)
  PROVE  Route(n, q, ms)
<1>1. ASSUME NEW o \in PV, NEW s \in ToSet(n.pvwait[o])
      PROVE  o \in Clear(ms) /\ Holds(o, q[s].ltg)
  <2>1. CASE o = p
    <3>1. n.pvwait[p] = Append(k.pvwait[p], r)
      OBVIOUS
    <3>2. k.pvwait[p] \in Seq(Req)
      OBVIOUS
    <3>3. ToSet(Append(k.pvwait[p], r)) = ToSet(k.pvwait[p]) \cup {r}
      BY <3>2, AppendSet
    <3>4. s \in ToSet(k.pvwait[p]) \/ s = r
      BY <2>1, <3>1, <3>3
    <3> QED
      BY <2>1, <3>4 DEF Route
  <2>2. CASE o # p
    <3>1. n.pvwait[o] = k.pvwait[o]
      BY <2>2
    <3> QED
      BY <3>1 DEF Route
  <2> QED
    BY <2>1, <2>2
<1> QED
  BY <1>1 DEF Route

\* The ways of lv_checkcache, one by one.
LEMMA HitRecords ==
  ASSUME NEW k \in Cache, ~k.panic, NEW q, NEW L, NEW er, NEW d, NEW ms,
         RecOK(k, q, L, er, d, ms), NEW r \in Req, NEW e \in Hashed(k),
         k.ent[e].ltg = q[r].ltg, NEW n, HitOf(n, k, e, r)
  PROVE  RecOK(n, q, L, er, d, ms)
<1>1. e \in Entry /\ k.ent \in [Entry -> EntryT] /\ k.pvwait \in [PV -> Seq(Req)]
      /\ Hashed(k) \subseteq Entry
  BY ChainSet
<1>2. k.ent[e].iocnt \in Int /\ k.ent[e].state \in {{}, {CHANGING}}
  BY <1>1, EntryField
<1>3. n.ent = [k.ent EXCEPT ![e].iocnt = k.ent[e].iocnt + 1]
  BY DEF HitOf
<1>4. \A g \in Entry : /\ n.ent[g].ltg = k.ent[g].ltg /\ n.ent[g].state = k.ent[g].state
                       /\ n.ent[g].pvol = k.ent[g].pvol
  <2>1. k.ent[e].iocnt + 1 \in Int
    BY <1>2
  <2>2. LET f == [k.ent EXCEPT ![e].iocnt = k.ent[e].iocnt + 1] IN
         /\ f[e].ltg = k.ent[e].ltg /\ f[e].state = k.ent[e].state
         /\ f[e].pvol = k.ent[e].pvol /\ \A g \in Entry : g # e => f[g] = k.ent[g]
    BY <1>1, <2>1, CountChange
  <2> QED
    BY <1>3, <2>2
<1>5. Unmoved(n, k) /\ n.changed = k.changed /\ n.writeq = k.writeq /\ ~n.panic
      /\ Hashed(n) = Hashed(k)
  BY DEF HitOf, Unmoved, Hashed
<1>6. Named(n) = Named(k)
  BY <1>4, SameNames
<1>7. Records(k, d) /\ Route(k, q, ms) /\ Known(k, q, L, er, d, ms) /\ BelowOK(k, q, d, ms)
  BY DEF RecOK
<1>8. Stamps(n, d) /\ \A x : Recorded(n, d, ms, x) <=> Recorded(k, d, ms, x)
  BY <1>5, RecordedSame DEF RecOK
<1>9. Records(n, d)
  BY <1>5, <1>6, <1>7 DEF Records, Unmoved
<1>10. Known(n, q, L, er, d, ms)
  BY <1>1, <1>4, <1>5, <1>7, <1>8 DEF Known
<1>11. \A g \in Hashed(n) : n.ent[g].state = {CHANGING} =>
          n.ent[g].pvol \in Clear(ms) /\ Holds(n.ent[g].pvol, n.ent[g].ltg)
  BY <1>1, <1>4, <1>5, <1>7 DEF Route
<1>12. Route(n, q, ms) /\ BelowOK(n, q, d, ms)
  <2>1. CASE k.ent[e].state = {CHANGING}
    <3> DEFINE p == k.ent[e].pvol
    <3>1. p \in Clear(ms) /\ Holds(p, q[r].ltg) /\ p \in PV
      BY <1>7, <2>1 DEF Route, Clear
    <3>2. n.pvwait = [k.pvwait EXCEPT ![p] = Append(@, r)] /\ n.go = k.go
      BY <2>1 DEF HitOf
    <3> HIDE DEF p
    <3>3. Route(n, q, ms)
      BY <1>1, <1>7, <1>11, <3>1, <3>2, RouteMore
    <3> QED
      BY <1>7, <1>8, <3>2, <3>3 DEF BelowOK
  <2>2. CASE k.ent[e].state = {}
    <3>1. {CHANGING} # {}
      OBVIOUS
    <3>2. n.pvwait = k.pvwait /\ n.go = k.go \cup {r}
      BY <2>2, <3>1 DEF HitOf
    <3>3. Recorded(k, d, ms, q[r].ltg)
      BY <1>7, <2>2 DEF Known
    <3>4. Route(n, q, ms)
      BY <1>7, <1>11, <3>2 DEF Route
    <3> QED
      BY <1>7, <1>8, <3>2, <3>3, <3>4 DEF BelowOK
  <2> QED
    BY <1>2, <2>1, <2>2
<1> QED
  BY <1>5, <1>8, <1>9, <1>10, <1>12 DEF RecOK

\* A miss adds a name to the record in memory, and marks it changed; it may only do so while
\* no record is being written.
LEMMA NewEntryRecords ==
  ASSUME NEW k \in Cache, ~k.panic, k.inflight = NoPv, NEW q, NEW L, NEW er, NEW d, NEW ms,
         RecOK(k, q, L, er, d, ms), NEW r \in Req, NEW e \in Entry, NEW p \in PV,
         p \in Clear(ms), Holds(p, q[r].ltg), NEW n, NewEntryOf(n, k, e, r, q[r].ltg, p)
  PROVE  RecOK(n, q, L, er, d, ms)
<1>1. k.pvwait \in [PV -> Seq(Req)] /\ Hashed(k) \subseteq Entry
  BY ChainSet
<1>2. /\ Unmoved(n, k) /\ n.changed = TRUE /\ ~n.panic /\ n.inflight = NoPv
      /\ Hashed(n) = Hashed(k) \cup {e} /\ n.go = k.go
      /\ n.pvwait = [k.pvwait EXCEPT ![p] = Append(@, r)]
  BY DEF NewEntryOf, Unmoved
<1>3. /\ n.ent[e].ltg = q[r].ltg /\ n.ent[e].state = {CHANGING} /\ n.ent[e].pvol = p
      /\ \A g \in Entry : g # e => n.ent[g] = k.ent[g]
  BY DEF NewEntryOf
<1>4. Route(k, q, ms) /\ Known(k, q, L, er, d, ms) /\ BelowOK(k, q, d, ms)
  BY DEF RecOK
<1>5. Stamps(n, d) /\ \A x : Recorded(n, d, ms, x) <=> Recorded(k, d, ms, x)
  BY <1>2, RecordedSame DEF RecOK
<1>6. Records(n, d)
  BY <1>2 DEF Records
<1>7. \A g \in Hashed(n) : n.ent[g].state = {CHANGING} =>
          n.ent[g].pvol \in Clear(ms) /\ Holds(n.ent[g].pvol, n.ent[g].ltg)
  BY <1>1, <1>2, <1>3, <1>4 DEF Route
<1>8. Route(n, q, ms)
  BY <1>1, <1>2, <1>4, <1>7, RouteMore
<1>9. Known(n, q, L, er, d, ms)
  <2>1. {CHANGING} # {}
    OBVIOUS
  <2> QED
    BY <1>1, <1>2, <1>3, <1>4, <1>5, <2>1 DEF Known
<1>10. BelowOK(n, q, d, ms)
  BY <1>2, <1>4, <1>5 DEF BelowOK
<1> QED
  BY <1>2, <1>5, <1>6, <1>8, <1>9, <1>10 DEF RecOK

\* lv_checkcache lets a request go only if its LTG is recorded.
LEMMA CheckRecords ==
  ASSUME Placed, NEW k, CacheOK(k), ~k.panic, NEW q, NEW L, NEW er, NEW d,
         RecOK(k, q, L, er, d, missing), NEW r \in Req, q[r].ltg \in Ltg
  PROVE  RecOK(CheckCache(k, r, q[r].ltg), q, L, er, d, missing)
<1> DEFINE x == q[r].ltg
           n == CheckCache(k, r, x)
<1>1. k \in Cache /\ ToSet(k.lru) = Entry /\ k.pvwait \in [PV -> Seq(Req)]
  BY ChainSet DEF CacheOK
<1>3. CASE Found(k, x) # {} /\ n = Hit(k, Search(k, x), r)
  <2> DEFINE e == Search(k, x)
  <2>1. e \in Hashed(k) /\ e \in Entry /\ k.ent[e].ltg = x
    BY <1>1, <1>3, SearchFinds
  <2> HIDE DEF e
  <2>2. k.ent[e].state = {CHANGING} => k.ent[e].pvol \in PV
    BY <2>1 DEF CacheOK
  <2>3. HitOf(Hit(k, e, r), k, e, r)
    BY <1>1, <2>1, <2>2, HitFields
  <2>4. HitOf(n, k, e, r)
    BY <1>3, <2>3 DEF e
  <2> HIDE DEF n
  <2>5. RecOK(n, q, L, er, d, missing)
    BY <1>1, <2>1, <2>4, HitRecords
  <2> QED
    BY <2>5 DEF n
<1>4. CASE n = Waiting(k, r)
  <2>1. /\ Unmoved(n, k) /\ n.changed = k.changed /\ n.writeq = k.writeq /\ n.panic = k.panic
        /\ n.pvwait = k.pvwait /\ n.go = k.go /\ n.ent = k.ent /\ n.chain = k.chain
    BY <1>1, <1>4 DEF Waiting, Cache, Unmoved
  <2> HIDE DEF n
  <2>2. Named(n) = Named(k) /\ Hashed(n) = Hashed(k)
    BY <2>1 DEF Named, Hashed
  <2>3. RecOK(n, q, L, er, d, missing)
    BY <2>1, <2>2, RecFrame
  <2> QED
    BY <2>3 DEF n
<1>5. CASE k.inflight = NoPv /\ n = Miss(k, r, x)
  <2>1. CASE n = Panicked(k)
    <3>1. /\ Unmoved(n, k) /\ n.panic /\ n.inflight = NoPv /\ n.go = k.go
      BY <1>1, <1>5, <2>1 DEF Panicked, Cache, Unmoved
    <3> HIDE DEF n
    <3>2. Stamps(n, d) /\ \A y : Recorded(n, d, missing, y) <=> Recorded(k, d, missing, y)
      BY <3>1, RecordedSame DEF RecOK
    <3>3. BelowOK(n, q, d, missing)
      BY <3>1, <3>2 DEF RecOK, BelowOK
    <3>4. RecOK(n, q, L, er, d, missing)
      BY <3>1, <3>2, <3>3 DEF RecOK
    <3> QED
      BY <3>4 DEF n
  <2>2. ASSUME NEW e \in Entry, n = Refused(k, e, r) PROVE RecOK(n, q, L, er, d, missing)
    <3>1. LET u == Refused(k, e, r) IN
          /\ Hashed(u) = Hashed(k) \ {e} /\ u.ent = k.ent /\ u.pvwait = k.pvwait
          /\ u.go = k.go /\ u.writeq = k.writeq /\ u.changed = k.changed
          /\ u.inflight = k.inflight /\ u.toggle = k.toggle /\ u.clock = k.clock
          /\ u.panic = k.panic
      BY RefusedFields
    <3>2. /\ Hashed(n) = Hashed(k) \ {e} /\ n.ent = k.ent /\ n.pvwait = k.pvwait
          /\ n.go = k.go /\ n.writeq = k.writeq /\ n.changed = k.changed
          /\ Unmoved(n, k) /\ n.panic = k.panic
      BY <2>2, <3>1 DEF Unmoved
    <3> HIDE DEF n
    <3>3. Named(n) = Named(k) /\ Hashed(n) \subseteq Hashed(k)
      BY <3>2 DEF Named
    <3>4. RecOK(n, q, L, er, d, missing)
      BY <3>2, <3>3, RecFrame
    <3> QED
      BY <3>4
  <2>3. ASSUME NEW e \in Entry, ~NoPlace(k, x), n = NewEntry(k, e, r, x)
        PROVE  RecOK(n, q, L, er, d, missing)
    <3> DEFINE p == Place(k, x)
    <3>1. p \in PV /\ p \in Clear(missing) /\ Holds(p, x)
      BY <1>1, <2>3, PlaceClear DEF RecOK
    <3>2. NewEntryOf(NewEntry(k, e, r, x), k, e, r, x, p)
      BY <3>1, NewEntryFields
    <3> HIDE DEF p
    <3>3. NewEntryOf(n, k, e, r, q[r].ltg, p)
      BY <2>3, <3>2
    <3> HIDE DEF n
    <3> QED
      BY <1>1, <1>5, <3>1, <3>3, NewEntryRecords
  <2>4. \/ n = Panicked(k)
        \/ \E e \in Entry : \/ n = Refused(k, e, r)
                            \/ ~NoPlace(k, x) /\ n = NewEntry(k, e, r, x)
    BY <1>5, MissCases
  <2> QED
    BY <2>1, <2>2, <2>3, <2>4
<1> QED
  BY <1>1, <1>3, <1>4, <1>5, CheckCases

\* sched_Q and done_Q are passed on.
LEMMA SettleRecords ==
  ASSUME NEW k, NEW q, ReqOK(q), NEW L, NEW er, NEW d, NEW ms,
         AgainOK(k, q, {}, L), RecOK(k, q, L, er, d, ms)
  PROVE  RecOK(Settled(k), Passed(k, q), L, er, d, ms)
<1> DEFINE n == Settled(k)
           o == Passed(k, q)
<1>1. k \in Cache /\ k.go \cup k.done \subseteq Held(q)
  BY DEF AgainOK, CacheOK
<1>2. /\ n.go = {} /\ n.ent = k.ent /\ n.chain = k.chain /\ n.pvwait = k.pvwait
      /\ n.writeq = k.writeq /\ n.panic = k.panic /\ n.changed = k.changed /\ Unmoved(n, k)
  BY <1>1, SettledFields DEF SameEntries, SameRecord, Unmoved
<1>3. /\ Below(o) = (Below(q) \cup k.go) \ k.done
      /\ \A r \in Req \ k.done : o[r].ltg = q[r].ltg
  BY <1>1, PassedRequests
<1> HIDE DEF n, o
<1>4. Named(n) = Named(k) /\ Hashed(n) = Hashed(k)
  BY <1>2 DEF Named, Hashed
<1>5. Below(q) \subseteq Req /\ Held(q) \subseteq Req
  BY DEF Below, Held
<1>6. ASSUME ~k.panic
      PROVE  /\ ToSet(L) \subseteq Req \ k.done
             /\ \A p \in PV : ToSet(k.pvwait[p]) \subseteq Req \ k.done
  <2>1. Counted(k, q, {}) \subseteq Req \ k.done
    BY DEF Counted, Active
  <2> QED
    BY <1>6, <2>1 DEF AgainOK, Waits
<1>7. /\ Below(o) \cup n.go \subseteq Below(q) \cup k.go
      /\ \A r \in Below(o) \cup n.go : o[r].ltg = q[r].ltg
  BY <1>1, <1>2, <1>3, <1>5
<1>8. ~k.panic => /\ ToSet(L) \subseteq ToSet(L) /\ \A r \in ToSet(L) : o[r].ltg = q[r].ltg
                  /\ \A p \in PV : \A r \in ToSet(k.pvwait[p]) : o[r].ltg = q[r].ltg
  BY <1>3, <1>6
<1>9. RecOK(n, o, L, er, d, ms)
  BY <1>2, <1>4, <1>7, <1>8, RecFrame
<1> QED
  BY <1>9 DEF n, o

\* lv_cache_start: the record that was there last stays there, and nothing on the disks
\* is as new as the record to be written if that has changed.
LEMMA StartCur ==
  ASSUME NEW k, CacheOK(k), NEW n, n = CacheStart(k)
  PROVE  /\ \A p \in PV : Cur(n, p) = Cur(k, p)
         /\ n.clock >= k.clock /\ n.clock \in Nat /\ k.clock \in Nat
<1>1. /\ k \in Cache /\ k.toggle \in [PV -> {0, 1}] /\ k.clock \in Nat /\ k.writeq \in Seq(PV)
      /\ NoPv \notin PV
  BY Consts DEF CacheOK, Cache
<1>2. CASE n = k
  BY <1>1, <1>2
<1>3. CASE Started(n, k)
  <2> DEFINE o == Head(k.writeq)
  <2>1. /\ o \in PV /\ n.inflight = o /\ k.inflight = NoPv
        /\ n.toggle = [k.toggle EXCEPT ![o] = 1 - k.toggle[o]]
    BY <1>1, <1>3, TailSet DEF Started
  <2>2. n.clock >= k.clock /\ n.clock \in Nat
    BY <1>1, <1>3 DEF Started
  <2> HIDE DEF o
  <2>3. ASSUME NEW p \in PV PROVE Cur(n, p) = Cur(k, p)
    <3>1. k.toggle[p] \in {0, 1} /\ p # NoPv
      BY <1>1
    <3>2. CASE p = o
      <4>1. n.toggle[p] = 1 - k.toggle[p]
        BY <1>1, <2>1, <3>2
      <4>2. Cur(n, p) = 1 - (1 - k.toggle[p]) /\ Cur(k, p) = k.toggle[p]
        BY <2>1, <3>1, <3>2, <4>1 DEF Cur
      <4> QED
        BY <3>1, <4>2
    <3>3. CASE p # o
      <4>1. n.toggle[p] = k.toggle[p]
        BY <1>1, <2>1, <3>3
      <4> QED
        BY <2>1, <3>1, <3>3, <4>1 DEF Cur
    <3> QED
      BY <3>2, <3>3
  <2> QED
    BY <1>1, <2>2, <2>3
<1> QED
  BY <1>1, <1>2, <1>3, StartFields

\* The half that is written next is not the one that an LTG is recorded in.
LEMMA StartRecords ==
  ASSUME NEW k, CacheOK(k), NEW q, NEW L, NEW er, NEW d, d \in [PV -> [{0, 1} -> Rec]], NEW ms,
         RecOK(k, q, L, er, d, ms),
         k.panic => \A r \in Below(q) \cup k.go : q[r].ltg \in Named(k)
  PROVE  RecOK(CacheStart(k), q, L, er, d, ms)
<1> DEFINE n == CacheStart(k)
<1>1. k \in Cache /\ k.writeq \in Seq(PV) /\ NoPv \notin PV
  BY Consts DEF CacheOK, Cache
<1>2. /\ n.ent = k.ent /\ n.chain = k.chain /\ n.pvwait = k.pvwait /\ n.go = k.go
      /\ n.panic = k.panic
      /\ \/ n = k /\ (k.inflight # NoPv \/ k.writeq = <<>>)
         \/ Started(n, k)
  BY <1>1, StartFields DEF SameEntries, SameQueues
<1>3. /\ \A p \in PV : Cur(n, p) = Cur(k, p)
      /\ n.clock >= k.clock /\ n.clock \in Nat /\ k.clock \in Nat
  BY StartCur
<1> HIDE DEF n
<1>4. \A p \in PV, i \in {0, 1} : d[p][i].ts \in Nat
  <2>1. \A p \in PV, i \in {0, 1} : d[p][i] \in Rec
    OBVIOUS
  <2> QED
    BY <2>1 DEF Rec
<1>5. Stamps(n, d)
  BY <1>3, <1>4 DEF RecOK, Stamps
<1>6. \A x : Recorded(n, d, ms, x) <=> Recorded(k, d, ms, x)
  <2>1. Clear(ms) \subseteq PV
    BY DEF Clear
  <2> QED
    BY <1>3, <2>1 DEF Recorded
<1>7. Hashed(n) = Hashed(k) /\ Named(n) = Named(k)
  BY <1>2 DEF Hashed, Named
<1>8. BelowOK(n, q, d, ms)
  BY <1>2, <1>6 DEF RecOK, BelowOK
<1>9. n.panic => \A r \in Below(q) \cup n.go : q[r].ltg \in Named(n)
  BY <1>2, <1>7
<1>10. ASSUME ~n.panic PROVE Records(n, d) /\ Route(n, q, ms) /\ Known(n, q, L, er, d, ms)
  <2>1. Records(k, d) /\ Route(k, q, ms) /\ Known(k, q, L, er, d, ms)
    BY <1>2, <1>10 DEF RecOK
  <2>2. Route(n, q, ms)
    BY <1>2, <1>7, <2>1 DEF Route
  <2>3. Known(n, q, L, er, d, ms)
    BY <1>2, <1>6, <1>7, <2>1 DEF Known
  <2>4. CASE n = k
    BY <2>1, <2>2, <2>3, <2>4
  <2>5. CASE Started(n, k)
    <3>1. k.writeq # <<>> /\ n.changed = FALSE
          /\ n.clock = (IF k.changed THEN k.clock + 1 ELSE k.clock)
      BY <2>5 DEF Started
    <3>2. k.changed \/ k.clock > 0
      BY <2>1, <3>1 DEF Records
    <3>3. n.clock > 0
      BY <1>3, <3>1, <3>2
    <3>4. ASSUME NEW p \in PV, NEW i \in {0, 1}, d[p][i].ts = n.clock
          PROVE  Named(n) \subseteq d[p][i].ltgs
      <4>1. d[p][i].ts <= k.clock
        BY DEF RecOK, Stamps
      <4>2. ~k.changed /\ n.clock = k.clock
        BY <1>3, <3>1, <3>4, <4>1
      <4> QED
        BY <1>7, <2>1, <3>3, <3>4, <4>2 DEF Records
    <3>5. Records(n, d)
      BY <3>1, <3>3, <3>4 DEF Records
    <3> QED
      BY <2>2, <2>3, <3>5
  <2> QED
    BY <1>2, <2>4, <2>5
<1> QED
  BY <1>5, <1>8, <1>9, <1>10 DEF RecOK, n

\* lv_cache_scrub with no write in flight.
LEMMA ScrubRecords ==
  ASSUME NEW k \in Cache, ~k.panic, k.inflight = NoPv, NEW q, NEW L, NEW er, NEW d, NEW ms, NEW U,
         RecOK(k, q, L, er, d, ms), NEW n, ScrubOf(n, k, q, U)
  PROVE  RecOK(n, q, L, er, d, ms)
<1>1. /\ Unmoved(n, k) /\ n.inflight = NoPv /\ n.pvwait = k.pvwait /\ n.go = k.go
      /\ Hashed(n) \subseteq Hashed(k) /\ \A e \in Hashed(n) : n.ent[e] = k.ent[e]
      /\ n = k \/ n.changed = TRUE
  BY DEF ScrubOf, SameQueues, Unmoved
<1>2. Stamps(n, d) /\ \A x : Recorded(n, d, ms, x) <=> Recorded(k, d, ms, x)
  BY <1>1, RecordedSame DEF RecOK
<1>3. Records(k, d) /\ Route(k, q, ms) /\ Known(k, q, L, er, d, ms) /\ BelowOK(k, q, d, ms)
  BY DEF RecOK
<1>4. Records(n, d)
  BY <1>1, <1>3 DEF Records
<1>5. Route(n, q, ms)
  BY <1>1, <1>3 DEF Route
<1>6. Known(n, q, L, er, d, ms)
  BY <1>1, <1>2, <1>3 DEF Known
<1>7. BelowOK(n, q, d, ms)
  BY <1>1, <1>2, <1>3 DEF BelowOK
<1> QED
  BY <1>1, <1>2, <1>4, <1>5, <1>6, <1>7 DEF RecOK

\* The records and the steps, one by one.
LEMMA MwcmRecords ==
  ASSUME SInv, RInv, Placed, NEW r \in Req, NEW x \in Ltg, Mwcm(r, x)
  PROVE  RInv'
<1> DEFINE q == Asked(req, r, x)
           n == CheckCache(c, r, x)
<1>1. ~c.panic /\ req[r].at = "idle" /\ ReqOK(req) /\ CacheOK(c) /\ c.go = {}
  BY DEF Mwcm, ThreadRuns, Running, SInv
<1>2. c' = Settled(n) /\ req' = Passed(n, q)
  BY DEF Mwcm, Settle, Settled, Passed, Asked
<1>3. UNCHANGED <<list, err, disk, missing>>
  BY DEF Mwcm, vgsa
<1>4. /\ ReqOK(q) /\ Below(q) = Below(req) /\ q[r].ltg = x
      /\ \A o \in Req : o # r => q[o] = req[o]
  BY <1>1, NewRequest
<1>5. AgainOK(n, q, {}, list)
  BY <1>1, MwcmAgain
<1> HIDE DEF q
<1>6. RecOK(c, q, list, err, disk, missing)
  <2>1. r \notin Below(req) /\ r \notin Held(req)
    BY <1>1 DEF Below, Held
  <2>2. Below(req) \subseteq Req /\ Held(req) \subseteq Req
    BY DEF Below, Held
  <2>3. /\ ToSet(list) \subseteq Held(req)
        /\ \A p \in PV : ToSet(c.pvwait[p]) \subseteq Held(req)
    BY <1>1 DEF SInv, Waits
  <2>4. /\ \A o \in Below(q) \cup c.go : q[o].ltg = req[o].ltg
        /\ \A o \in ToSet(list) : q[o].ltg = req[o].ltg
        /\ \A p \in PV : \A o \in ToSet(c.pvwait[p]) : q[o].ltg = req[o].ltg
    BY <1>1, <1>4, <2>1, <2>2, <2>3
  <2>5. Unmoved(c, c) /\ RecOK(c, req, list, err, disk, missing)
    BY DEF Unmoved, RInv
  <2> QED
    BY <1>4, <2>4, <2>5, RecFrame
<1>7. RecOK(n, q, list, err, disk, missing)
  BY <1>1, <1>4, <1>6, CheckRecords
<1> HIDE DEF n
<1>8. RecOK(Settled(n), Passed(n, q), list, err, disk, missing)
  BY <1>4, <1>5, <1>7, SettleRecords
<1> QED
  BY <1>2, <1>3, <1>8 DEF RInv

\* A request that returns takes nothing from the records.
LEMMA DoneRecords ==
  ASSUME SInv, ~MayLose, RInv, NEW r \in Req, MwcDone(r)
  PROVE  RInv'
<1> DEFINE e == Search(c, req[r].ltg)
<1>1. /\ ~c.panic /\ req[r].at = "below" /\ e \in Entry
      /\ ReleaseOf(c', c, e) /\ req' = Dropped(req, r)
  BY DoneFields
<1>2. ReqOK(req) /\ c \in Cache /\ Hashed(c) \subseteq Entry
  BY ChainSet DEF SInv, CacheOK
<1>3. /\ Below(req') = Below(req) \ {r} /\ \A o \in Req : o # r => req'[o] = req[o]
  BY <1>1, <1>2, DropRequest
<1> HIDE DEF e
<1>4. /\ Unmoved(c', c) /\ c'.changed = c.changed /\ c'.writeq = c.writeq
      /\ c'.panic = c.panic /\ c'.pvwait = c.pvwait /\ Hashed(c') = Hashed(c) /\ c'.go = c.go
  BY <1>1 DEF ReleaseOf, SameQueues, SameRecord, Unmoved, Hashed
<1>5. \A d \in Entry : /\ c'.ent[d].ltg = c.ent[d].ltg /\ c'.ent[d].state = c.ent[d].state
                       /\ c'.ent[d].pvol = c.ent[d].pvol
  BY <1>1 DEF ReleaseOf
<1>6. Named(c') = Named(c)
  BY <1>5, SameNames
<1>7. c.go = {} /\ Below(req) \subseteq Req
  BY DEF SInv, Below
<1>8. \A o \in Below(req') \cup c'.go : req'[o].ltg = req[o].ltg
  BY <1>3, <1>4, <1>7
<1>9. /\ \A o \in ToSet(list) : req'[o].ltg = req[o].ltg
      /\ \A p \in PV : \A o \in ToSet(c.pvwait[p]) : req'[o].ltg = req[o].ltg
  <2>1. /\ ToSet(list) \subseteq Held(req)
        /\ \A p \in PV : ToSet(c.pvwait[p]) \subseteq Held(req)
    BY <1>1 DEF SInv, Waits
  <2>2. r \notin Held(req) /\ Held(req) \subseteq Req
    BY <1>1 DEF Held
  <2> QED
    BY <1>3, <2>1, <2>2
<1>10. \A d \in Hashed(c') : /\ c'.ent[d].ltg = c.ent[d].ltg /\ c'.ent[d].state = c.ent[d].state
                            /\ c'.ent[d].pvol = c.ent[d].pvol
  BY <1>2, <1>4, <1>5
<1>11. Below(req') \cup c'.go \subseteq Below(req) \cup c.go
  BY <1>3, <1>4
<1>12. RecOK(c, req, list, err, disk, missing)
  BY DEF RInv
<1>13. RecOK(c', req', list, err, disk, missing)
  BY <1>4, <1>6, <1>8, <1>9, <1>10, <1>11, <1>12, RecFrame
<1>14. UNCHANGED <<list, err, disk, missing>>
  BY DEF MwcDone
<1> QED
  BY <1>13, <1>14 DEF RInv

\* With no error the entry needs no record any more, and the request goes on.
LEMMA RecoveredRecords ==
  ASSUME NEW k \in Cache, ~k.panic, k.go = {}, NEW q, NEW L \in Seq(Req), NEW d, NEW ms,
         RecOK(k, q, L, FALSE, d, ms), NEW r \in ToSet(L), NEW e \in Hashed(k),
         k.ent[e].ltg = q[r].ltg, NEW n, RecoveredOf(n, k, e, r),
         NEW M, ToSet(M) \subseteq ToSet(L)
  PROVE  RecOK(n, q, M, FALSE, d, ms)
<1>1. Hashed(k) \subseteq Entry
  BY ChainSet
<1>2. /\ Unmoved(n, k) /\ n.changed = k.changed /\ n.writeq = k.writeq /\ ~n.panic
      /\ n.pvwait = k.pvwait /\ Hashed(n) = Hashed(k) /\ n.go = {r}
  BY DEF RecoveredOf, Unmoved, SameRecord, Hashed
<1>3. /\ n.ent[e].state = {}
      /\ \A g \in Entry : /\ g # e => n.ent[g] = k.ent[g]
                          /\ n.ent[g].ltg = k.ent[g].ltg /\ n.ent[g].pvol = k.ent[g].pvol
  BY DEF RecoveredOf
<1>4. Named(n) = Named(k)
  BY <1>3, SameNames
<1>5. Records(k, d) /\ Route(k, q, ms) /\ Known(k, q, L, FALSE, d, ms) /\ BelowOK(k, q, d, ms)
  BY DEF RecOK
<1>6. Stamps(n, d) /\ \A x : Recorded(n, d, ms, x) <=> Recorded(k, d, ms, x)
  BY <1>2, RecordedSame DEF RecOK
<1>7. Records(n, d)
  BY <1>2, <1>4, <1>5 DEF Records, Unmoved
<1>8. Route(n, q, ms)
  <2>1. \A g \in Hashed(n) : n.ent[g].state = {CHANGING} => k.ent[g].state = {CHANGING}
    <3>1. {CHANGING} # {}
      OBVIOUS
    <3> QED
      BY <1>1, <1>2, <1>3, <3>1
  <2> QED
    BY <1>1, <1>2, <1>3, <1>5, <2>1 DEF Route
<1>9. Recorded(k, d, ms, q[r].ltg)
  BY <1>5 DEF Known
<1>10. Known(n, q, M, FALSE, d, ms)
  <2>1. ASSUME NEW g \in Hashed(n), n.ent[g].state = {} PROVE Recorded(k, d, ms, n.ent[g].ltg)
    <3>1. CASE g = e
      BY <1>1, <1>3, <1>9, <3>1
    <3>2. CASE g # e
      BY <1>1, <1>2, <1>3, <1>5, <2>1, <3>2 DEF Known
    <3> QED
      BY <3>1, <3>2
  <2>2. \A s \in ToSet(M) : Recorded(k, d, ms, q[s].ltg)
    BY <1>5 DEF Known
  <2> QED
    BY <1>6, <2>1, <2>2 DEF Known
<1>11. BelowOK(n, q, d, ms)
  BY <1>2, <1>5, <1>6, <1>9 DEF BelowOK
<1> QED
  BY <1>2, <1>6, <1>7, <1>8, <1>10, <1>11 DEF RecOK

\* The request is refused; with the last one the entry is emptied.
LEMMA GivenUpRecords ==
  ASSUME NEW k \in Cache, ~k.panic, NEW q, NEW L, NEW er, NEW d, NEW ms,
         RecOK(k, q, L, er, d, ms), NEW r, NEW e \in Hashed(k), NEW n, GivenUp(n, k, e, r),
         NEW M, ToSet(M) \subseteq ToSet(L)
  PROVE  RecOK(n, q, M, er, d, ms)
<1>1. Hashed(k) \subseteq Entry
  BY ChainSet
<1>2. /\ Unmoved(n, k) /\ n.changed = k.changed /\ n.writeq = k.writeq /\ ~n.panic
      /\ n.pvwait = k.pvwait /\ n.go = k.go
  BY DEF GivenUp, Unmoved, SameRecord
<1>3. Hashed(n) \subseteq Hashed(k)
  BY DEF GivenUp
<1>4. \A g \in Entry : g # e => n.ent[g] = k.ent[g]
  BY DEF GivenUp
<1>5. \/ /\ n.ent[e].ltg = k.ent[e].ltg /\ n.ent[e].state = k.ent[e].state
         /\ n.ent[e].pvol = k.ent[e].pvol
      \/ e \notin Hashed(n) /\ n.ent[e].ltg = None
  BY DEF GivenUp, NoEntry
<1>6. Named(n) \subseteq Named(k)
  BY <1>1, <1>4, <1>5 DEF Named
<1>7. \A g \in Hashed(n) : /\ n.ent[g].ltg = k.ent[g].ltg /\ n.ent[g].state = k.ent[g].state
                           /\ n.ent[g].pvol = k.ent[g].pvol
  BY <1>1, <1>3, <1>4, <1>5
<1>8. Records(k, d) /\ Route(k, q, ms) /\ Known(k, q, L, er, d, ms) /\ BelowOK(k, q, d, ms)
  BY DEF RecOK
<1>9. Stamps(n, d) /\ \A x : Recorded(n, d, ms, x) <=> Recorded(k, d, ms, x)
  BY <1>2, RecordedSame DEF RecOK
<1>10. Records(n, d)
  <2>1. Named(n) # {} => Named(k) # {}
    BY <1>6
  <2>2. ASSUME ~n.changed, NEW p \in PV, NEW i \in {0, 1}, d[p][i].ts = n.clock, n.clock > 0
        PROVE  Named(n) \subseteq d[p][i].ltgs
    <3>1. Named(k) \subseteq d[p][i].ltgs
      BY <1>2, <1>8, <2>2 DEF Records, Unmoved
    <3> QED
      BY <1>6, <3>1
  <2>3. n.inflight # NoPv => ~n.changed /\ n.clock > 0
    BY <1>2, <1>8 DEF Records, Unmoved
  <2>4. n.writeq # <<>> \/ Named(n) # {} => n.changed \/ n.clock > 0
    BY <1>2, <1>8, <2>1 DEF Records, Unmoved
  <2> QED
    BY <2>2, <2>3, <2>4 DEF Records
<1>11. Route(n, q, ms)
  BY <1>2, <1>3, <1>7, <1>8 DEF Route
<1>12. Known(n, q, M, er, d, ms)
  BY <1>3, <1>7, <1>8, <1>9 DEF Known
<1>13. BelowOK(n, q, d, ms)
  BY <1>2, <1>8, <1>9 DEF BelowOK
<1> QED
  BY <1>2, <1>9, <1>10, <1>11, <1>12, <1>13 DEF RecOK

\* The request waits for the record to be written again.
LEMMA QueuedRecords ==
  ASSUME NEW k \in Cache, ~k.panic, NEW q, NEW L, NEW d, NEW ms,
         RecOK(k, q, L, TRUE, d, ms), NEW r \in Req, NEW e \in Hashed(k),
         k.ent[e].ltg = q[r].ltg, q[r].ltg # None,
         NEW p \in PV, p \in Clear(ms), Holds(p, q[r].ltg), NEW n, QueueOf(n, k, e, r, p),
         NEW M
  PROVE  RecOK(n, q, M, TRUE, d, ms)
<1>1. e \in Entry /\ Hashed(k) \subseteq Entry /\ k.pvwait \in [PV -> Seq(Req)]
      /\ k.ent \in [Entry -> EntryT]
  BY ChainSet
<1>2. /\ Unmoved(n, k) /\ n.changed = k.changed /\ ~n.panic
      /\ n.pvwait = [k.pvwait EXCEPT ![p] = Append(@, r)] /\ Hashed(n) = Hashed(k) /\ n.go = k.go
      /\ n.ent = [k.ent EXCEPT ![e].pvol = p]
  BY DEF QueueOf, Unmoved, Hashed
<1>3. /\ n.ent[e].pvol = p /\ n.ent[e].ltg = k.ent[e].ltg /\ n.ent[e].state = k.ent[e].state
      /\ \A g \in Entry : g # e => n.ent[g] = k.ent[g]
  BY <1>1, <1>2, PvolChange
<1>4. \A g \in Entry : n.ent[g].ltg = k.ent[g].ltg
  BY <1>3
<1>5. Named(n) = Named(k) /\ Named(k) # {}
  BY <1>1, <1>4, SameNames DEF Named
<1>6. Records(k, d) /\ Route(k, q, ms) /\ Known(k, q, L, TRUE, d, ms) /\ BelowOK(k, q, d, ms)
  BY DEF RecOK
<1>7. Stamps(n, d) /\ \A x : Recorded(n, d, ms, x) <=> Recorded(k, d, ms, x)
  BY <1>2, RecordedSame DEF RecOK
<1>8. Records(n, d)
  BY <1>2, <1>5, <1>6 DEF Records, Unmoved
<1>9. \A g \in Hashed(n) : n.ent[g].state = {CHANGING} =>
          n.ent[g].pvol \in Clear(ms) /\ Holds(n.ent[g].pvol, n.ent[g].ltg)
  BY <1>1, <1>2, <1>3, <1>6 DEF Route
<1>10. Route(n, q, ms)
  BY <1>1, <1>2, <1>6, <1>9, RouteMore
<1>11. Known(n, q, M, TRUE, d, ms)
  BY <1>1, <1>2, <1>3, <1>6, <1>7 DEF Known
<1>12. BelowOK(n, q, d, ms)
  BY <1>2, <1>6, <1>7 DEF BelowOK
<1> QED
  BY <1>2, <1>7, <1>8, <1>10, <1>11, <1>12 DEF RecOK

\* A request that lv_mwc_cache_done lets go is recorded, by the write that has ended.
LEMMA NextRecords ==
  ASSUME SInv, RInv, Placed, RecordDoneNext
  PROVE  RInv'
<1> DEFINE r == Head(list)
           x == req[r].ltg
           e == Search(c, x)
<1>1. /\ ~c.panic /\ list # <<>> /\ r \in Req /\ x \in Ltg
      /\ e \in Hashed(c) /\ e \in Entry /\ c.ent[e].ltg = x
      /\ list' = Tail(list) /\ err' = err
      /\ \/ ~err /\ c' = Settled(Recovered(c, e, r)) /\ req' = Passed(Recovered(c, e, r), req)
         \/ /\ err /\ NoPlace(c, x)
            /\ c' = Settled(GiveUp(c, e, r)) /\ req' = Passed(GiveUp(c, e, r), req)
         \/ /\ err /\ ~NoPlace(c, x)
            /\ c' = Settled(Queue(c, e, r, x)) /\ req' = Passed(Queue(c, e, r, x), req)
  BY NextFields
<1>2. /\ c \in Cache /\ ReqOK(req) /\ c.go = {} /\ list \in Seq(Req) /\ err \in BOOLEAN
      /\ c.pvwait \in [PV -> Seq(Req)]
  BY ChainSet DEF SInv, CacheOK, StateOK
<1>3. UNCHANGED <<disk, missing>>
  BY DEF RecordDoneNext, vgsa
<1>4. RecOK(c, req, list, err, disk, missing) /\ Route(c, req, missing)
  BY <1>1 DEF RInv, RecOK
<1>5. ToSet(Tail(list)) \subseteq ToSet(list) /\ r \in ToSet(list)
  BY <1>1, <1>2, TailSet
<1>6. x # None
  BY <1>1, Consts
<1> HIDE DEF r, x, e
<1>7. \E n : /\ AgainOK(n, req, {}, Tail(list)) /\ c' = Settled(n) /\ req' = Passed(n, req)
             /\ RecOK(n, req, Tail(list), err, disk, missing)
  <2>1. CASE ~err /\ c' = Settled(Recovered(c, e, r)) /\ req' = Passed(Recovered(c, e, r), req)
    <3> DEFINE n == Recovered(c, e, r)
    <3>1. AgainOK(n, req, {}, Tail(list)) /\ RecoveredOf(n, c, e, r)
      BY RecoveredAgain DEF r, x, e
    <3>2. err = FALSE
      BY <1>2, <2>1
    <3> HIDE DEF n
    <3>3. RecOK(n, req, Tail(list), FALSE, disk, missing)
      BY <1>1, <1>2, <1>4, <1>5, <3>1, <3>2, RecoveredRecords DEF x
    <3> QED
      BY <2>1, <3>1, <3>2, <3>3 DEF n
  <2>2. CASE c' = Settled(GiveUp(c, e, r)) /\ req' = Passed(GiveUp(c, e, r), req)
    <3> DEFINE n == GiveUp(c, e, r)
    <3>1. AgainOK(n, req, {}, Tail(list)) /\ GivenUp(n, c, e, r)
      BY GivenUpAgain DEF r, x, e
    <3> HIDE DEF n
    <3>2. RecOK(n, req, Tail(list), err, disk, missing)
      BY <1>1, <1>2, <1>4, <1>5, <3>1, GivenUpRecords
    <3> QED
      BY <2>2, <3>1, <3>2 DEF n
  <2>3. CASE /\ err /\ ~NoPlace(c, x)
             /\ c' = Settled(Queue(c, e, r, x)) /\ req' = Passed(Queue(c, e, r, x), req)
    <3> DEFINE n == Queue(c, e, r, x)
               p == Place(c, x)
    <3>1. AgainOK(n, req, {}, Tail(list)) /\ QueueOf(n, c, e, r, p)
      BY <2>3, QueuedAgain DEF r, x, e
    <3>2. p \in PV /\ p \in Clear(missing) /\ Holds(p, x)
      BY <1>1, <1>2, <1>4, <2>3, PlaceClear
    <3>3. err = TRUE
      BY <1>2, <2>3
    <3> HIDE DEF n, p
    <3>4. RecOK(n, req, Tail(list), TRUE, disk, missing)
      BY <1>1, <1>2, <1>4, <1>6, <3>1, <3>2, <3>3, QueuedRecords DEF x
    <3> QED
      BY <2>3, <3>1, <3>3, <3>4 DEF n
  <2> QED
    BY <1>1, <2>1, <2>2, <2>3
<1>8. PICK n : /\ AgainOK(n, req, {}, Tail(list)) /\ c' = Settled(n) /\ req' = Passed(n, req)
               /\ RecOK(n, req, Tail(list), err, disk, missing)
  BY <1>7
<1>9. RecOK(Settled(n), Passed(n, req), Tail(list), err, disk, missing)
  BY <1>2, <1>8, SettleRecords
<1> QED
  BY <1>1, <1>3, <1>8, <1>9 DEF RInv

\* The walk over vg_cache_wait lets those go that hit a recorded entry.
LEMMA WaitRecords ==
  ASSUME SInv, RInv, Placed, CacheWait
  PROVE  RInv'
<1>1. /\ CacheOK(c) /\ c \in Cache /\ ReqOK(req) /\ c.go = {} /\ ~c.panic
      /\ Waits(c, req, {}, list) /\ UNCHANGED <<list, err, disk, missing>>
  BY DEF SInv, CacheOK, CacheWait, Running, vgsa
<1>2. CASE c' = c /\ req' = req
  BY <1>1, <1>2 DEF RInv
<1>3. CASE c.free > 0 /\ c.inflight = NoPv
  <2>1. PICK h : /\ Walk(h, c.wait)
                 /\ c' = Settled(h[Len(c.wait)]) /\ req' = Passed(h[Len(c.wait)], req)
    BY <1>3, WalkExists
  <2> DEFINE s == c.wait
             S == {i \in Nat : i <= Len(s) => RecOK(h[i], req, list, err, disk, missing)}
  <2>2. /\ Len(s) \in Nat
        /\ \A i \in Nat : i <= Len(s) => AgainOK(h[i], req, Rest(s, i), list)
        /\ \A i \in Nat : i + 1 <= Len(s) =>
               h[i + 1] = CheckAgain(h[i], s[i + 1]) /\ s[i + 1] \in Req
    BY <1>1, <2>1, WalkAgain
  <2>3. 0 \in S
    <3>1. h[0] = Emptied(c)
      BY <2>1 DEF Walk
    <3>2. /\ Unmoved(h[0], c) /\ h[0].changed = c.changed /\ h[0].writeq = c.writeq
          /\ h[0].panic = c.panic /\ h[0].pvwait = c.pvwait /\ h[0].go = c.go
          /\ h[0].ent = c.ent /\ h[0].chain = c.chain
      BY <1>1, <3>1, EmptiedFields DEF SameEntries, SameRecord, Unmoved
    <3>3. Named(h[0]) = Named(c) /\ Hashed(h[0]) = Hashed(c)
      BY <3>2 DEF Named, Hashed
    <3>4. RecOK(c, req, list, err, disk, missing)
      BY DEF RInv
    <3>5. RecOK(h[0], req, list, err, disk, missing)
      BY <3>2, <3>3, <3>4, RecFrame
    <3> QED
      BY <3>5
  <2>4. ASSUME NEW i \in Nat, i \in S PROVE i + 1 \in S
    <3>1. SUFFICES ASSUME i + 1 <= Len(s)
                   PROVE RecOK(h[i + 1], req, list, err, disk, missing)
      BY <2>4
    <3>2. i <= Len(s)
      BY <2>2, <3>1
    <3>3. /\ RecOK(h[i], req, list, err, disk, missing) /\ AgainOK(h[i], req, Rest(s, i), list)
          /\ h[i + 1] = CheckAgain(h[i], s[i + 1]) /\ s[i + 1] \in Req
      BY <2>2, <2>4, <3>1, <3>2
    <3>4. CASE h[i].panic
      BY <3>3, <3>4 DEF CheckAgain
    <3>5. CASE ~h[i].panic
      <4> DEFINE k == h[i]
                 r == s[i + 1]
      <4>1. CacheOK(k) /\ ~k.panic /\ RecOK(k, req, list, err, disk, missing) /\ r \in Req
        BY <3>3, <3>5 DEF AgainOK
      <4>2. h[i + 1] = CheckCache(k, r, req[r].ltg)
        BY <3>3, <3>5 DEF CheckAgain
      <4>3. req[r].ltg \in Ltg
        <5>1. r \in ToSet(s)
          <6>1. s \in Seq(Req) /\ i + 1 \in 1 .. Len(s)
            BY <1>1, <2>2, <3>1, ChainSet
          <6>2. ToSet(s) = {s[j] : j \in 1 .. Len(s)}
            BY <6>1, SeqSet
          <6> QED
            BY <6>1, <6>2
        <5>2. r \in Held(req)
          BY <1>1, <5>1 DEF Waits
        <5> QED
          BY <1>1, <5>2 DEF Held, ReqOK, Active
      <4> HIDE DEF k, r
      <4>4. RecOK(CheckCache(k, r, req[r].ltg), req, list, err, disk, missing)
        BY <4>1, <4>3, CheckRecords
      <4> QED
        BY <4>2, <4>4
    <3> QED
      BY <3>4, <3>5
  <2>5. Nat \subseteq S
    <3> HIDE DEF S
    <3> QED
      BY <2>3, <2>4, NatInd
  <2> DEFINE n == h[Len(s)]
  <2>6. RecOK(n, req, list, err, disk, missing)
    BY <2>2, <2>5
  <2>7. AgainOK(n, req, {}, list)
    <3>1. s \in Seq(Req) /\ IsInjective(s)
      BY <1>1, ChainSet DEF Waits
    <3>2. Rest(s, Len(s)) = {}
      BY <3>1, RestSet
    <3>3. AgainOK(n, req, Rest(s, Len(s)), list)
      BY <2>2
    <3> QED
      BY <3>2, <3>3
  <2>8. c' = Settled(n) /\ req' = Passed(n, req)
    BY <2>1
  <2> HIDE DEF n
  <2>9. RecOK(Settled(n), Passed(n, req), list, err, disk, missing)
    BY <1>1, <2>6, <2>7, SettleRecords
  <2> QED
    BY <1>1, <2>8, <2>9 DEF RInv
<1> QED
  BY <1>2, <1>3 DEF CacheWait

\* The start of a write.
LEMMA StartedRecords ==
  ASSUME SInv, RInv, MwcmStart \/ DoneStart \/ Activated
  PROVE  RInv'
<1>1. /\ ~c.panic /\ c' = CacheStart(c) /\ UNCHANGED <<req, list, err, disk, missing>>
  BY DEF MwcmStart, DoneStart, Activated, ThreadRuns, Running, vgsa
<1>2. CacheOK(c) /\ disk \in [PV -> [{0, 1} -> Rec]]
  BY DEF SInv, StateOK
<1>3. RecOK(c, req, list, err, disk, missing)
  BY DEF RInv
<1>4. RecOK(CacheStart(c), req, list, err, disk, missing)
  BY <1>1, <1>2, <1>3, StartRecords
<1> QED
  BY <1>1, <1>4 DEF RInv

\* An entry with requests keeps its name.
LEMMA ScrubNames ==
  ASSUME NEW k, CacheOK(k), NEW q, ReqOK(q), NEW U \in SUBSET Req, Struct(k, q, U), NEW n,
         ScrubOf(n, k, q, U), NEW r \in U, q[r].ltg \in Ltg
  PROVE  q[r].ltg \in Named(n)
<1>1. PICK e \in Hashed(k) : k.ent[e].ltg = q[r].ltg
  BY DEF Struct
<1>2. e \in Entry /\ k.ent[e].iocnt >= 1
  BY <1>1, NextEntry
<1>3. k.ent[e].iocnt # 0
  BY <1>2
<1>4. n.ent[e] = k.ent[e]
  BY <1>2, <1>3 DEF ScrubOf
<1> QED
  BY <1>1, <1>2, <1>4, Consts DEF Named

\* The cleaning of a volume takes no name from the record before its write.
LEMMA CleanRecords ==
  ASSUME SInv, RInv, NEW l \in Lv, Clean(l)
  PROVE  RInv'
<1>1. /\ ~c.panic /\ UNCHANGED <<req, list, err, disk, missing>>
      /\ \/ c' = [c EXCEPT !.clean = l] \/ c' = c
         \/ c.inflight = NoPv /\ c' = CacheStart(Scrub(c, l))
  BY DEF Clean, ThreadRuns, Running, vgsa
<1>2. /\ CacheOK(c) /\ c \in Cache /\ ReqOK(req) /\ c.go = {} /\ disk \in [PV -> [{0, 1} -> Rec]]
      /\ Struct(c, req, Counted(c, req, {})) /\ RecOK(c, req, list, err, disk, missing)
  BY <1>1 DEF SInv, CacheOK, StateOK, RInv
<1>3. SUFFICES RecOK(c', req, list, err, disk, missing)
  BY <1>1 DEF RInv
<1>4. CASE c' = [c EXCEPT !.clean = l]
  <2>1. /\ Unmoved(c', c) /\ c'.changed = c.changed /\ c'.writeq = c.writeq /\ c'.go = c.go
        /\ c'.panic = c.panic /\ c'.pvwait = c.pvwait /\ c'.ent = c.ent /\ c'.chain = c.chain
    BY <1>2, <1>4 DEF Cache, Unmoved
  <2>2. Named(c') = Named(c) /\ Hashed(c') = Hashed(c)
    BY <2>1 DEF Named, Hashed
  <2> QED
    BY <1>2, <2>1, <2>2, RecFrame
<1>5. CASE c.inflight = NoPv /\ c' = CacheStart(Scrub(c, l))
  <2> DEFINE k == Scrub(c, l)
             U == Counted(c, req, {})
  <2>1. U \in SUBSET Req
    BY DEF Counted, Active
  <2>2. ScrubOf(k, c, req, U)
    BY <1>2, <2>1, ScrubStruct
  <2>3. c' = CacheStart(k)
    BY <1>5
  <2>4. Below(req) \subseteq U /\ \A r \in Below(req) : req[r].ltg \in Ltg
    <3>1. ASSUME NEW r \in Below(req) PROVE r \in U /\ req[r].ltg \in Ltg
      BY <1>1, BelowCounted DEF Below
    <3> QED
      BY <3>1
  <2> HIDE DEF k, U
  <2>5. CacheOK(k) /\ k.go = {}
    BY <1>2, <2>2 DEF ScrubOf, SameQueues
  <2>6. Struct(c, req, U)
    BY <1>2 DEF U
  <2>7. \A r \in Below(req) \cup k.go : req[r].ltg \in Named(k)
    BY <1>2, <2>1, <2>2, <2>4, <2>5, <2>6, ScrubNames
  <2>8. RecOK(k, req, list, err, disk, missing)
    BY <1>1, <1>2, <1>5, <2>2, ScrubRecords
  <2>9. RecOK(CacheStart(k), req, list, err, disk, missing)
    BY <1>2, <2>5, <2>7, <2>8, StartRecords
  <2> QED
    BY <2>3, <2>9
<1> QED
  BY <1>1, <1>2, <1>4, <1>5

\* PVs that go missing are not counted on, and those that come back only help.
LEMMA ClearMore ==
  ASSUME NEW k, NEW q, NEW L, NEW er, NEW d, NEW ms, NEW mt, Clear(ms) \subseteq Clear(mt),
         RecOK(k, q, L, er, d, ms)
  PROVE  RecOK(k, q, L, er, d, mt)
<1>1. \A x : Recorded(k, d, ms, x) => Recorded(k, d, mt, x)
  BY DEF Recorded
<1>2. Route(k, q, ms) => Route(k, q, mt)
  BY DEF Route
<1> QED
  BY <1>1, <1>2 DEF RecOK, Known, BelowOK

\* A PV that goes missing is not one that an LTG is recorded on.
LEMMA MissingRecords ==
  ASSUME RInv, NEW p \in PV, GoMissing(p) \/ Attach(p)
  PROVE  RInv'
<1>1. UNCHANGED <<c, req, list, err, disk>> /\ Clear(missing) \subseteq Clear(missing')
  BY DEF GoMissing, Attach, Clear
<1>2. RecOK(c, req, list, err, disk, missing')
  BY <1>1, ClearMore DEF RInv
<1> QED
  BY <1>1, <1>2 DEF RInv

\* Nothing is left of the cache.
LEMMA FreshRecords ==
  ASSUME NEW k, NEW time, Initial(k, time), ~k.changed => k.writeq = <<>>, NEW q, Below(q) = {},
         NEW er, NEW d, \A p \in PV, i \in {0, 1} : d[p][i].ts <= time, NEW ms
  PROVE  RecOK(k, q, <<>>, er, d, ms)
<1>1. /\ Hashed(k) = {} /\ Named(k) = {} /\ k.pvwait = [p \in PV |-> <<>>]
      /\ k.go = {} /\ k.inflight = NoPv /\ k.clock = time /\ ToSet(<<>>) = {}
  BY EmptySet DEF Initial
<1>2. Stamps(k, d)
  BY <1>1 DEF Stamps
<1>3. Records(k, d)
  BY <1>1 DEF Records
<1>4. Route(k, q, ms)
  <2>1. \A p \in PV : k.pvwait[p] = <<>>
    BY <1>1
  <2> QED
    BY <1>1, <2>1 DEF Route
<1>5. Known(k, q, <<>>, er, d, ms) /\ BelowOK(k, q, d, ms)
  BY <1>1 DEF Known, BelowOK
<1> QED
  BY <1>1, <1>2, <1>3, <1>4, <1>5 DEF RecOK

\* The record is written to the location that was not the last: what it names is
\* recorded there, and what was recorded elsewhere still is.
LEMMA WrittenNames ==
  ASSUME NEW k \in Cache, NEW d \in [PV -> [{0, 1} -> Rec]], Stamps(k, d), Records(k, d),
         k.inflight \in PV, NEW n, n.inflight = NoPv, n.toggle = k.toggle, NEW ms,
         NEW x \in Named(k), NEW t,
         t = [d EXCEPT ![k.inflight][k.toggle[k.inflight]] =
                 [ts |-> k.clock, ltgs |-> Named(k)]],
         \/ Recorded(k, d, ms, x)
         \/ k.inflight \in Clear(ms) /\ Holds(k.inflight, x)
  PROVE  Recorded(n, t, ms, x)
<1> DEFINE p == k.inflight
           i == k.toggle[p]
           new == [ts |-> k.clock, ltgs |-> Named(k)]
<1>1. /\ k.toggle \in [PV -> {0, 1}] /\ k.clock \in Nat /\ i \in {0, 1} /\ NoPv \notin PV
      /\ Clear(ms) \subseteq PV
  BY Consts DEF Cache, Clear
<1>2. ~k.changed /\ k.clock > 0
  BY <1>1 DEF Records
<1>3. \A o \in PV, j \in {0, 1} : d[o][j].ts \in Nat
  <2>1. \A o \in PV, j \in {0, 1} : d[o][j] \in Rec
    OBVIOUS
  <2> QED
    BY <2>1 DEF Rec
<1>4. /\ t[p][i] = new
      /\ \A o \in PV, j \in {0, 1} : ~(o = p /\ j = i) => t[o][j] = d[o][j]
  <2>1. t = [d EXCEPT ![p][i] = new]
    OBVIOUS
  <2> HIDE DEF p, i, new
  <2> QED
    BY <1>1, <2>1 DEF p
<1>5. new.ts = k.clock /\ new.ltgs = Named(k)
  OBVIOUS
<1> HIDE DEF new, i, p
<1>6. CASE p \in Clear(ms) /\ Holds(p, x)
  <2>1. Cur(n, p) = i
    BY <1>1, <1>6 DEF Cur, p, i
  <2>2. ASSUME NEW o \in PV, NEW j \in {0, 1}, t[o][j].ts >= t[p][i].ts PROVE x \in t[o][j].ltgs
    <3>1. CASE o = p /\ j = i
      BY <1>4, <1>5, <3>1
    <3>2. CASE ~(o = p /\ j = i)
      <4>1. t[o][j] = d[o][j] /\ d[o][j].ts >= k.clock
        BY <1>4, <1>5, <2>2, <3>2
      <4>2. d[o][j].ts = k.clock
        <5>1. d[o][j].ts <= k.clock /\ d[o][j].ts \in Nat
          BY <1>3 DEF Stamps
        <5>2. k.clock \in Nat /\ d[o][j].ts >= k.clock
          BY <1>1, <4>1
        <5> QED
          BY ONLY <5>1, <5>2
      <4>3. Named(k) \subseteq d[o][j].ltgs
        BY <1>2, <4>2 DEF Records
      <4> QED
        BY <4>1, <4>3
    <3> QED
      BY <3>1, <3>2
  <2>3. t[p][i].ts > 0 /\ x \in t[p][i].ltgs
    BY <1>2, <1>4, <1>5
  <2>4. Names(t, p, i, x)
    BY <2>2, <2>3 DEF Names
  <2> QED
    BY <1>6, <2>1, <2>4 DEF Recorded
<1>7. ASSUME NEW o \in Clear(ms), o # p, Holds(o, x), Names(d, o, Cur(k, o), x)
      PROVE  Recorded(n, t, ms, x)
  <2> DEFINE a == Cur(k, o)
  <2>1. o \in PV /\ Cur(n, o) = a /\ a \in {0, 1}
    BY <1>1, <1>7 DEF Cur, p
  <2>2. t[o][a] = d[o][a]
    BY <1>4, <1>7, <2>1
  <2> HIDE DEF a
  <2>3. ASSUME NEW u \in PV, NEW j \in {0, 1}, t[u][j].ts >= t[o][a].ts PROVE x \in t[u][j].ltgs
    <3>1. CASE u = p /\ j = i
      BY <1>4, <1>5, <3>1
    <3>2. CASE ~(u = p /\ j = i)
      <4>1. t[u][j] = d[u][j]
        BY <1>4, <3>2
      <4> QED
        BY <1>7, <2>2, <2>3, <4>1 DEF Names, a
    <3> QED
      BY <3>1, <3>2
  <2>4. Names(t, o, a, x)
    BY <1>7, <2>2, <2>3 DEF Names, a
  <2> QED
    BY <1>7, <2>1, <2>4 DEF Recorded
<1>8. CASE Recorded(k, d, ms, x)
  <2>1. PICK o \in Clear(ms) : Holds(o, x) /\ Names(d, o, Cur(k, o), x)
    BY <1>8 DEF Recorded
  <2> QED
    BY <1>6, <1>7, <2>1
<1> QED
  BY <1>6, <1>8 DEF p

\* The write failed: the other location is the next one, and the record that was being
\* written is the old one or torn.
FailedTo(n, t, k, d) ==
    /\ n.toggle = [k.toggle EXCEPT ![k.inflight] = 1 - @]
    /\ t \in {d, [d EXCEPT ![k.inflight][k.toggle[k.inflight]] = NoRec]}

\* The write failed: the location that was the last one stays it.
LEMMA FailedNames ==
  ASSUME NEW k \in Cache, NEW d \in [PV -> [{0, 1} -> Rec]],
         k.inflight \in PV, NEW n, n.inflight = NoPv, NEW ms, NEW x, NEW t,
         FailedTo(n, t, k, d), Recorded(k, d, ms, x)
  PROVE  Recorded(n, t, ms, x)
<1> DEFINE p == k.inflight
           i == k.toggle[p]
<1>0. /\ n.toggle = [k.toggle EXCEPT ![p] = 1 - @]
      /\ t \in {d, [d EXCEPT ![p][i] = NoRec]}
  BY DEF FailedTo
<1>1. /\ k.toggle \in [PV -> {0, 1}] /\ i \in {0, 1} /\ NoPv \notin PV /\ Clear(ms) \subseteq PV
  BY Consts DEF Cache, Clear
<1>2. \A o \in PV, j \in {0, 1} : \/ t[o][j] = d[o][j]
                                  \/ o = p /\ j = i /\ t[o][j] = NoRec
  <2>1. t = d \/ t = [d EXCEPT ![p][i] = NoRec]
    BY <1>0
  <2>2. p \in PV
    OBVIOUS
  <2> HIDE DEF p, i
  <2> QED
    BY <1>1, <2>1, <2>2
<1>3. PICK o \in Clear(ms) : Holds(o, x) /\ Names(d, o, Cur(k, o), x)
  BY DEF Recorded
<1> DEFINE a == Cur(k, o)
<1>4. o \in PV /\ a \in {0, 1} /\ ~(o = p /\ a = i) /\ Cur(n, o) = a
  <2>1. k.toggle[o] \in {0, 1} /\ o # NoPv /\ o \in PV
    BY <1>1
  <2>2. CASE o = p
    BY <1>0, <1>1, <2>1, <2>2 DEF Cur
  <2>3. CASE o # p
    BY <1>0, <1>1, <2>1, <2>3 DEF Cur
  <2> QED
    BY <2>2, <2>3
<1> HIDE DEF a, p, i
<1>5. t[o][a] = d[o][a] /\ t[o][a].ts > 0 /\ x \in t[o][a].ltgs
  BY <1>2, <1>3, <1>4 DEF Names, a
<1>6. ASSUME NEW u \in PV, NEW j \in {0, 1}, t[u][j].ts >= t[o][a].ts PROVE x \in t[u][j].ltgs
  <2>1. CASE t[u][j] = NoRec
    <3>1. t[u][j].ts = 0 /\ t[o][a].ts \in Nat
      <4>1. d[o][a] \in Rec
        BY <1>4
      <4> QED
        BY <1>5, <2>1, <4>1 DEF NoRec, Rec
    <3> QED
      BY <1>5, <1>6, <3>1
  <2>2. CASE t[u][j] = d[u][j]
    BY <1>3, <1>5, <1>6, <2>2 DEF Names, a
  <2> QED
    BY <1>2, <2>1, <2>2
<1>7. Names(t, o, a, x)
  BY <1>5, <1>6 DEF Names
<1> QED
  BY <1>3, <1>4, <1>7 DEF Recorded

\* lv_mwc_cache_done, as far as the list is taken.
LEMMA TakenRecords ==
  ASSUME SInv, RInv, RecordDone
  PROVE  RInv'
<1> DEFINE p == c.inflight
           k == Taken(c)
           s == ScrubFor(k, c.clean)
           U == Counted(c, req, {})
<1>1. /\ ~c.panic /\ p \in PV /\ list = <<>>
      /\ TakenOf(k, c) /\ ScrubOf(s, k, req, U)
      /\ WriteEnd(c', s) /\ list' = c.pvwait[p] /\ req' = req
      /\ err' \in BOOLEAN
      /\ ~err' => /\ c'.toggle = c.toggle
                  /\ disk' = [disk EXCEPT ![p][c.toggle[p]] = RecordTo(p)]
      /\ err' => /\ c'.toggle = [c.toggle EXCEPT ![p] = 1 - @]
                 /\ \/ disk' = disk
                    \/ disk' = [disk EXCEPT ![p][c.toggle[p]] = NoRec]
  BY RecordDoneFields
<1>2. /\ c \in Cache /\ ReqOK(req) /\ c.go = {} /\ disk \in [PV -> [{0, 1} -> Rec]]
      /\ Struct(c, req, U) /\ Waits(c, req, {}, list) /\ missing' = missing
      /\ Hashed(c) \subseteq Entry /\ NoPv \notin PV
  BY <1>1, ChainSet, Consts DEF SInv, CacheOK, StateOK, RecordDone, vgsa
<1>3. /\ Stamps(c, disk) /\ BelowOK(c, req, disk, missing) /\ Records(c, disk)
      /\ Route(c, req, missing) /\ Known(c, req, list, err, disk, missing)
  BY <1>1 DEF RInv, RecOK
<1>4. ~c.changed /\ c.clock > 0 /\ c.clock \in Nat /\ c.toggle \in [PV -> {0, 1}]
  BY <1>1, <1>2, <1>3 DEF Records, Cache
<1> HIDE DEF s
<1>5. /\ c'.inflight = NoPv /\ c'.clock = c.clock /\ c'.go = {}
      /\ c'.pvwait = [c.pvwait EXCEPT ![p] = <<>>]
      /\ Hashed(c') \subseteq Hashed(c) /\ \A e \in Hashed(c') : c'.ent[e] = c.ent[e]
      /\ c'.changed = TRUE \/ Named(c') = Named(c)
  <2>1. /\ k.inflight = NoPv /\ k.clock = c.clock /\ k.go = {}
        /\ k.pvwait = [c.pvwait EXCEPT ![p] = <<>>] /\ k.ent = c.ent /\ k.chain = c.chain
    BY <1>1, <1>2 DEF TakenOf, SameEntries
  <2> HIDE DEF k, p
  <2>2. /\ s.inflight = k.inflight /\ s.clock = k.clock /\ s.go = k.go /\ s.pvwait = k.pvwait
        /\ Hashed(s) \subseteq Hashed(k) /\ \A e \in Hashed(s) : s.ent[e] = k.ent[e]
        /\ s = k \/ s.changed = TRUE
    BY <1>1 DEF ScrubOf, SameQueues
  <2>3. /\ c'.inflight = s.inflight /\ c'.clock = s.clock /\ c'.go = s.go /\ c'.pvwait = s.pvwait
        /\ c'.ent = s.ent /\ c'.chain = s.chain /\ c'.changed = s.changed
    BY <1>1 DEF WriteEnd, SameEntries, SameQueues
  <2>4. Hashed(c') = Hashed(s) /\ Named(c') = Named(s) /\ Hashed(k) = Hashed(c) /\ Named(k) = Named(c)
    BY <2>1, <2>3 DEF Hashed, Named
  <2> QED
    BY <2>1, <2>2, <2>3, <2>4
<1> HIDE DEF k
<1>6. ASSUME NEW r \in U PROVE req[r].ltg \in Named(c)
  <2>1. PICK e \in Hashed(c) : c.ent[e].ltg = req[r].ltg
    BY <1>2 DEF Struct
  <2>2. req[r].ltg \in Ltg
    BY <1>2, <1>6 DEF Counted, ReqOK
  <2> QED
    BY <1>2, <2>1, <2>2, Consts DEF Named
<1>7. ASSUME NEW x \in Named(c), Recorded(c, disk, missing, x)
      PROVE  Recorded(c', disk', missing, x)
  <2>1. CASE ~err'
    BY <1>1, <1>2, <1>3, <1>5, <1>7, <2>1, WrittenNames DEF RecordTo
  <2>2. CASE err'
    <3>1. FailedTo(c', disk', c, disk)
      <4>1. disk' \in {disk, [disk EXCEPT ![p][c.toggle[p]] = NoRec]}
        BY <1>1, <2>2
      <4>2. c'.toggle = [c.toggle EXCEPT ![p] = 1 - @]
        BY <1>1, <2>2
      <4> QED
        BY <4>1, <4>2 DEF FailedTo
    <3> QED
      <4>1. /\ c \in Cache /\ disk \in [PV -> [{0, 1} -> Rec]] /\ p \in PV
            /\ c'.inflight = NoPv /\ Recorded(c, disk, missing, x)
        BY <1>1, <1>2, <1>5, <1>7
      <4> QED
        BY ONLY <3>1, <4>1, FailedNames
  <2> QED
    BY <2>1, <2>2
<1>8. ASSUME ~err', NEW x \in Named(c), p \in Clear(missing), Holds(p, x)
      PROVE  Recorded(c', disk', missing, x)
  BY <1>1, <1>2, <1>3, <1>5, <1>8, WrittenNames DEF RecordTo
<1>9. \A o \in PV, j \in {0, 1} :
         \/ disk'[o][j] = disk[o][j]
         \/ disk'[o][j].ts = c.clock /\ disk'[o][j].ltgs = Named(c)
         \/ disk'[o][j].ts = 0
  <2> DEFINE i == c.toggle[p]
  <2>1. i \in {0, 1}
    BY <1>1, <1>4
  <2>2. \E v \in {disk[p][i], RecordTo(p), NoRec} : disk' = [disk EXCEPT ![p][i] = v]
    <3>1. disk = [disk EXCEPT ![p][i] = disk[p][i]]
      <4>1. disk[p] = [disk[p] EXCEPT ![i] = disk[p][i]]
        BY <1>1, <1>2, <2>1
      <4> HIDE DEF i, p
      <4> QED
        BY <1>1, <1>2, <4>1
    <3> QED
      BY <1>1, <3>1
  <2>3. PICK v \in {disk[p][i], RecordTo(p), NoRec} : disk' = [disk EXCEPT ![p][i] = v]
    BY <2>2
  <2>4. v = disk[p][i] \/ (v.ts = c.clock /\ v.ltgs = Named(c)) \/ v.ts = 0
    BY <2>3 DEF RecordTo, NoRec
  <2> HIDE DEF i, p
  <2>5. \A o \in PV, j \in {0, 1} : \/ o = p /\ j = i /\ disk'[o][j] = v
                                    \/ disk'[o][j] = disk[o][j]
    BY <1>1, <1>2, <2>1, <2>3
  <2> QED
    BY <2>4, <2>5
<1>10. Stamps(c', disk')
  BY <1>3, <1>4, <1>5, <1>9 DEF Stamps
<1>11. BelowOK(c', req, disk', missing)
  <2>1. ASSUME NEW r \in Below(req) PROVE Recorded(c', disk', missing, req[r].ltg)
    <3>1. r \in U
      BY <1>1, BelowCounted DEF Below
    <3>2. req[r].ltg \in Named(c) /\ Recorded(c, disk, missing, req[r].ltg)
      BY <1>3, <1>6, <3>1 DEF BelowOK
    <3> QED
      BY <1>7, <3>2
  <2> QED
    BY <1>5, <2>1 DEF BelowOK
<1>12. Records(c', disk')
  <2>1. CASE c'.changed = TRUE
    BY <1>5, <2>1 DEF Records
  <2>2. CASE Named(c') = Named(c)
    <3>1. ASSUME NEW o \in PV, NEW j \in {0, 1}, disk'[o][j].ts = c'.clock
          PROVE  Named(c) \subseteq disk'[o][j].ltgs
      <4>1. CASE disk'[o][j] = disk[o][j]
        BY <1>3, <1>4, <1>5, <3>1, <4>1 DEF Records
      <4>2. CASE disk'[o][j].ts = c.clock /\ disk'[o][j].ltgs = Named(c)
        BY <4>2
      <4>3. disk'[o][j].ts # 0
        BY <1>4, <1>5, <3>1
      <4> QED
        BY <1>9, <4>1, <4>2, <4>3
    <3> QED
      BY <1>4, <1>5, <2>2, <3>1 DEF Records
  <2> QED
    BY <1>5, <2>1, <2>2
<1>13. Route(c', req, missing)
  <2>1. \A o \in PV : \A r \in ToSet(c'.pvwait[o]) : r \in ToSet(c.pvwait[o])
    <3>1. c.pvwait \in [PV -> Seq(Req)]
      BY <1>2, ChainSet
    <3>2. \A o \in PV : c'.pvwait[o] = IF o = p THEN <<>> ELSE c.pvwait[o]
      BY <1>1, <1>5, <3>1
    <3> QED
      BY <3>2, EmptySet
  <2> QED
    BY <1>3, <1>5, <2>1 DEF Route
<1>14. Known(c', req, list', err', disk', missing)
  <2>1. ASSUME NEW e \in Hashed(c'), c'.ent[e].state = {}
        PROVE  Recorded(c', disk', missing, c'.ent[e].ltg)
    <3>1. e \in Hashed(c) /\ e \in Entry /\ c'.ent[e] = c.ent[e]
      BY <1>2, <1>5
    <3>2. Recorded(c, disk, missing, c.ent[e].ltg)
      BY <1>3, <2>1, <3>1 DEF Known
    <3>3. c.ent[e].ltg \in Ltg
      BY <1>2, <3>1 DEF Struct
    <3>4. c.ent[e].ltg \in Named(c)
      BY <3>1, <3>3, Consts DEF Named
    <3> QED
      BY <1>7, <3>1, <3>2, <3>4
  <2>2. ASSUME ~err', NEW r \in ToSet(list') PROVE Recorded(c', disk', missing, req[r].ltg)
    <3>1. r \in ToSet(c.pvwait[p])
      BY <1>1, <2>2
    <3>2. p \in Clear(missing) /\ Holds(p, req[r].ltg)
      BY <1>1, <1>3, <3>1 DEF Route
    <3>3. r \in U
      BY <1>1, <1>2, <3>1 DEF Waits
    <3> QED
      BY <1>6, <1>8, <2>2, <3>2, <3>3
  <2> QED
    BY <2>1, <2>2 DEF Known
<1>15. RecOK(c', req, list', err', disk', missing)
  BY <1>5, <1>10, <1>11, <1>12, <1>13, <1>14 DEF RecOK
<1> QED
  BY <1>1, <1>2, <1>15 DEF RInv

\* Time stamps are numbers.
LEMMA RecTimes ==
  ASSUME disk \in [PV -> [{0, 1} -> Rec]]
  PROVE  \A p \in PV, i \in {0, 1} : disk[p][i].ts \in Nat
<1>1. \A p \in PV, i \in {0, 1} : disk[p][i] \in Rec
  OBVIOUS
<1> QED
  BY <1>1 DEF Rec

\* What a crash leaves on the disks.
LEMMA CrashDisk ==
  ASSUME SInv, Crash
  PROVE  /\ c.inflight = NoPv => disk' = disk
         /\ \A o \in PV, j \in {0, 1} :
               \/ disk'[o][j] = disk[o][j]
               \/ /\ c.inflight = o /\ j = c.toggle[o]
                  /\ \/ disk'[o][j].ts = 0
                     \/ disk'[o][j].ts = c.clock /\ disk'[o][j].ltgs = Named(c)
<1>1. CASE c.inflight = NoPv
  <2>1. disk' = disk
    BY <1>1 DEF Crash
  <2> QED
    BY <2>1
<1>2. CASE c.inflight # NoPv
  <2> DEFINE p == c.inflight
             i == c.toggle[p]
  <2>1. p \in PV /\ i \in {0, 1} /\ disk \in [PV -> [{0, 1} -> Rec]]
    BY <1>2 DEF SInv, StateOK, CacheOK, Cache
  <2>2. \E v \in {disk[p][i], NoRec, [ts |-> c.clock, ltgs |-> Named(c)]} :
           disk' = [disk EXCEPT ![p][i] = v]
    BY <1>2 DEF Crash
  <2> HIDE DEF i, p
  <2>3. PICK v \in {disk[p][i], NoRec, [ts |-> c.clock, ltgs |-> Named(c)]} :
           disk' = [disk EXCEPT ![p][i] = v]
    BY <2>2
  <2>4. \A o \in PV, j \in {0, 1} : \/ o = p /\ j = i /\ disk'[o][j] = v
                                    \/ disk'[o][j] = disk[o][j]
    BY <2>1, <2>3
  <2>5. v = disk[p][i] \/ v.ts = 0 \/ (v.ts = c.clock /\ v.ltgs = Named(c))
    BY <2>3 DEF NoRec
  <2>6. \A o \in PV, j \in {0, 1} :
           \/ disk'[o][j] = disk[o][j]
           \/ /\ o = p /\ j = i
              /\ \/ disk'[o][j].ts = 0
                 \/ disk'[o][j].ts = c.clock /\ disk'[o][j].ltgs = Named(c)
    BY <2>4, <2>5
  <2> QED
    BY <1>2, <2>6 DEF p, i
<1> QED
  BY <1>1, <1>2

\* After a crash nothing is below, and the clock is not behind the records.
LEMMA CrashRecords ==
  ASSUME SInv, RInv, Crash
  PROVE  RInv'
<1>1. /\ c \in Cache /\ c.clock \in Nat /\ disk \in [PV -> [{0, 1} -> Rec]] /\ Stamps(c, disk)
  BY DEF SInv, CacheOK, StateOK, Cache, RInv, RecOK
<1>2. /\ c' = CacheInit(c.clock) /\ req' = [r \in Req |-> NoReq] /\ list' = <<>>
  BY DEF Crash
<1>3. Initial(c', c.clock) /\ c'.writeq = <<>>
  BY <1>1, <1>2, PlainInitial
<1>4. \A p \in PV, i \in {0, 1} : disk'[p][i].ts <= c.clock
  BY <1>1, CrashDisk DEF Stamps
<1>5. Below(req') = {}
  BY <1>2, NoRequests
<1>6. RecOK(c', req', <<>>, err', disk', missing')
  BY <1>3, <1>4, <1>5, FreshRecords
<1> QED
  BY <1>2, <1>6 DEF RInv

\* After activation nothing is below.
LEMMA ActivateRecords ==
  ASSUME SInv, RInv, Activate
  PROVE  RInv'
<1>1. /\ disk \in [PV -> [{0, 1} -> Rec]] /\ Stamps(c, disk)
      /\ UNCHANGED <<req, list, err, disk>> /\ up = "down"
  BY DEF SInv, StateOK, RInv, RecOK, Activate
<1>2. req = [r \in Req |-> NoReq] /\ list = <<>>
  BY <1>1 DEF SInv, StateOK
<1>3. Below(req) = {}
  BY <1>2, NoRequests
<1>4. \E k : /\ Initial(k, c.clock) /\ k.writeq = <<>> /\ k.changed = FALSE
             /\ c' = k \/ c' = CacheUpdate(k)
  BY ActivateFields, ZenonT(60)
<1>5. PICK k : /\ Initial(k, c.clock) /\ k.writeq = <<>> /\ k.changed = FALSE
               /\ c' = k \/ c' = CacheUpdate(k)
  BY <1>4
<1>6. Initial(c', c.clock) /\ (~c'.changed => c'.writeq = <<>>)
  <2>1. CASE c' = k
    BY <1>5, <2>1
  <2>2. CASE c' = CacheUpdate(k)
    <3>1. k \in Cache /\ CacheOK(k) /\ IsInjective(k.writeq)
      BY <1>5 DEF Initial, CacheOK
    <3>2. Updated(c', k) /\ c'.changed = TRUE
      BY <2>2, <3>1, UpdateFields
    <3>3. CacheOK(c') /\ Hashed(c') = Hashed(k) /\ Named(c') = Named(k)
      BY <3>1, <3>2, EntriesFrame DEF Updated
    <3> QED
      BY <1>5, <3>2, <3>3 DEF Initial, Updated, SameEntries, SameQueues
  <2> QED
    BY <1>5, <2>1, <2>2
<1>7. \A p \in PV, i \in {0, 1} : disk[p][i].ts <= c.clock
  BY <1>1 DEF Stamps
<1>8. RecOK(c', req, <<>>, err, disk, missing')
  BY <1>3, <1>6, <1>7, FreshRecords
<1> QED
  BY <1>1, <1>2, <1>8 DEF RInv

\* No record has been written in the initial states.
LEMMA InitRecords ==
  ASSUME Init
  PROVE  RInv
<1>1. /\ c = CacheInit(0) /\ req = [r \in Req |-> NoReq] /\ list = <<>>
      /\ disk = [p \in PV |-> [i \in {0, 1} |-> NoRec]]
  BY DEF Init
<1>2. Initial(c, 0) /\ c.writeq = <<>>
  BY <1>1, PlainInitial
<1>3. \A p \in PV, i \in {0, 1} : disk[p][i].ts <= 0
  BY <1>1 DEF NoRec
<1>4. Below(req) = {}
  BY <1>1, NoRequests
<1>5. RecOK(c, req, <<>>, err, disk, missing)
  BY <1>2, <1>3, <1>4, FreshRecords
<1> QED
  BY <1>1, <1>5 DEF RInv

\* Every step keeps the records.
LEMMA RecordsStep ==
  ASSUME SInv, RInv, ~MayLose, Placed, [Next]_vars
  PROVE  RInv'
<1>1. CASE UNCHANGED vars
  BY <1>1 DEF vars, vgsa, RInv
<1>2. ASSUME NEW r \in Req, MwcDone(r) PROVE RInv'
  BY <1>2, DoneRecords
<1>3. ASSUME NEW r \in Req, NEW x \in Ltg, Mwcm(r, x) PROVE RInv'
  BY <1>3, MwcmRecords
<1>4. CASE MwcmStart \/ DoneStart \/ Activated
  BY <1>4, StartedRecords
<1>5. CASE RecordDone
  BY <1>5, TakenRecords
<1>6. CASE RecordDoneNext
  BY <1>6, NextRecords
<1>7. CASE CacheWait
  BY <1>7, WaitRecords
<1>8. ASSUME NEW l \in Lv, Clean(l) PROVE RInv'
  BY <1>8, CleanRecords
<1>9. ASSUME NEW p \in PV, GoMissing(p) \/ Attach(p) PROVE RInv'
  BY <1>9, MissingRecords
<1>10. CASE Crash
  BY <1>10, CrashRecords
<1>11. CASE Activate
  BY <1>11, ActivateRecords
<1>12. ASSUME NEW x \in Ltg, RecoverLtg(x) PROVE RInv'
  BY <1>12 DEF RecoverLtg, RInv
<1> QED
  BY <1>1, <1>2, <1>3, <1>4, <1>5, <1>6, <1>7, <1>8, <1>9, <1>10, <1>11, <1>12 DEF Next

-----------------------------------------------------------------------------
(* The LTGs whose copies differ.                                           *)

\* While the volume group is active: copies become stale, and only PVs that may go
\* missing do.
LEMMA ActiveTorn ==
  ASSUME TInv, up = "up", up' = "up", torn' = torn, stale \subseteq stale',
         missing' \ MayMiss \subseteq missing
  PROVE  TInv'
<1>1. \A x \in torn : Agree(x, stale')
  BY AgreeMore DEF TInv
<1>2. \A x \in Ltg : \A m \in MirrorsOf(x) :
         PvOf[x, m] \in missing' \ MayMiss => <<x, m>> \in stale'
  BY DEF TInv
<1> QED
  BY <1>1, <1>2 DEF TInv

\* A write that has ended has made stale what it did not reach.
LEMMA DoneTorn ==
  ASSUME SInv, TInv, ~MayLose, NEW r \in Req, MwcDone(r)
  PROVE  TInv'
<1>1. up = "up" /\ up' = "up" /\ missing' = missing
  BY DEF MwcDone, Running
<1>2. torn' = torn /\ stale \subseteq stale'
  <2>1. \E f \in {FALSE, MayLose} : \E b : Scheduled(req[r].ltg, b, f)
    BY DEF MwcDone
  <2>2. PICK f \in {FALSE, MayLose} : \E b : Scheduled(req[r].ltg, b, f)
    BY <2>1
  <2>3. ~f
    BY <2>2
  <2> QED
    BY <2>2, <2>3 DEF Scheduled
<1> QED
  BY <1>1, <1>2, ActiveTorn

\* What a crash tears was below, so it was recorded, and is on the disk.
LEMMA CrashTorn ==
  ASSUME SInv, RInv, TInv, Crash
  PROVE  TInv'
<1>1. /\ up' = "down" /\ UNCHANGED <<stale, missing>>
      /\ torn' = torn \cup {req[r].ltg : r \in {q \in Req : req[q].at = "below"}}
  BY DEF Crash
<1>2. /\ c.inflight = NoPv => disk' = disk
      /\ \A o \in PV, j \in {0, 1} :
            \/ disk'[o][j] = disk[o][j]
            \/ /\ c.inflight = o /\ j = c.toggle[o]
               /\ \/ disk'[o][j].ts = 0
                  \/ disk'[o][j].ts = c.clock /\ disk'[o][j].ltgs = Named(c)
  BY CrashDisk
<1>3. ASSUME NEW x \in torn PROVE Agree(x, stale) \/ OnDisk(disk', missing, x)
  <2>1. CASE up = "up"
    BY <1>3, <2>1 DEF TInv
  <2>2. CASE up # "up"
    <3>1. c.inflight = NoPv
      BY <2>2 DEF SInv, StateOK
    <3> QED
      BY <1>2, <1>3, <2>2, <3>1 DEF TInv
  <2> QED
    BY <2>1, <2>2
<1>4. ASSUME NEW r \in Req, req[r].at = "below" PROVE OnDisk(disk', missing, req[r].ltg)
  <2> DEFINE x == req[r].ltg
  <2>1. r \in Below(req) /\ c.go = {} /\ c \in Cache /\ disk \in [PV -> [{0, 1} -> Rec]]
    BY <1>4 DEF Below, SInv, CacheOK, StateOK
  <2>2. Recorded(c, disk, missing, x)
    BY <2>1 DEF RInv, RecOK, BelowOK
  <2>3. PICK o \in Clear(missing) : Holds(o, x) /\ Names(disk, o, Cur(c, o), x)
    BY <2>2 DEF Recorded
  <2> DEFINE a == Cur(c, o)
  <2>4. o \in PV /\ c.toggle[o] \in {0, 1} /\ a \in {0, 1} /\ ~(c.inflight = o /\ a = c.toggle[o])
    <3>1. o \in PV /\ c.toggle[o] \in {0, 1}
      BY <2>1 DEF Clear, Cache
    <3> QED
      BY <3>1 DEF Cur
  <2> HIDE DEF a
  <2>5. disk'[o][a] = disk[o][a]
    BY <1>2, <2>4
  <2>6. c.inflight # NoPv => x \in Named(c)
    <3>1. CASE ~c.panic
      <4>1. /\ r \in Counted(c, req, {}) /\ Struct(c, req, Counted(c, req, {})) /\ x \in Ltg
            /\ CacheOK(c) /\ ReqOK(req)
        BY <1>4, <3>1, BelowCounted DEF SInv
      <4>2. PICK e \in Hashed(c) : c.ent[e].ltg = x
        BY <4>1 DEF Struct
      <4>3. e \in Entry
        BY <2>1, <4>2, ChainSet
      <4> QED
        BY <4>1, <4>2, <4>3, Consts DEF Named
    <3>2. CASE c.panic
      BY <2>1, <3>2 DEF RInv, RecOK
    <3> QED
      BY <3>1, <3>2
  <2>7. ASSUME NEW u \in PV, NEW j \in {0, 1}, disk'[u][j].ts >= disk'[o][a].ts
        PROVE  x \in disk'[u][j].ltgs
    <3>1. CASE disk'[u][j] = disk[u][j]
      BY <2>3, <2>5, <2>7, <3>1 DEF Names, a
    <3>2. CASE disk'[u][j].ts = 0
      <4>1. disk[o][a].ts > 0 /\ disk[o][a].ts \in Nat
        BY <2>1, <2>3, <2>4, RecTimes DEF Names, a
      <4> QED
        BY <2>5, <2>7, <3>2, <4>1
    <3>3. CASE c.inflight = u /\ disk'[u][j].ltgs = Named(c)
      <4>1. c.inflight # NoPv
        BY <3>3, Consts
      <4> QED
        BY <2>6, <3>3, <4>1
    <3> QED
      BY <1>2, <3>1, <3>2, <3>3
  <2>8. Names(disk', o, a, x)
    BY <2>3, <2>5, <2>7 DEF Names, a
  <2> QED
    BY <2>3, <2>4, <2>8 DEF OnDisk
<1>5. \A x \in torn' : Agree(x, stale') \/ OnDisk(disk', missing', x)
  BY <1>1, <1>3, <1>4
<1>6. \A x \in Ltg : \A m \in MirrorsOf(x) :
         PvOf[x, m] \in missing' \ MayMiss => <<x, m>> \in stale'
  BY <1>1 DEF TInv
<1> QED
  BY <1>1, <1>5, <1>6 DEF TInv

\* An LTG that the newest record of some PV names is recovered, unless that PV is not
\* read.
LEMMA NewestNames ==
  ASSUME disk \in [PV -> [{0, 1} -> Rec]], NEW read \in SUBSET PV, NEW o \in read,
         NEW i \in {0, 1}, NEW x, Names(disk, o, i, x)
  PROVE  x \in Newest(read)
<1> DEFINE p == NewestPv(read)
<1>1. p \in read /\ RecordOf(o).ts <= RecordOf(p).ts /\ o \in PV /\ p \in PV
  BY NewestFound
<1> HIDE DEF p
<1>2. \A u \in PV : \A j \in {0, 1} : disk[u][j].ts \in Nat
  BY RecTimes
<1>3. \A u \in PV : /\ RecordOf(u) = disk[u][0] \/ RecordOf(u) = disk[u][1]
                    /\ RecordOf(u).ts >= disk[u][0].ts /\ RecordOf(u).ts >= disk[u][1].ts
                    /\ RecordOf(u).ts \in Nat
  <2>1. ASSUME NEW u \in PV
        PROVE  /\ RecordOf(u) = disk[u][0] \/ RecordOf(u) = disk[u][1]
               /\ RecordOf(u).ts >= disk[u][0].ts /\ RecordOf(u).ts >= disk[u][1].ts
               /\ RecordOf(u).ts \in Nat
    <3>1. disk[u][0].ts \in Nat /\ disk[u][1].ts \in Nat
      BY <1>2
    <3>2. CASE disk[u][1].ts > disk[u][0].ts
      <4>1. RecordOf(u) = disk[u][1]
        BY <3>2 DEF RecordOf
      <4> QED
        BY <3>1, <3>2, <4>1
    <3>3. CASE ~(disk[u][1].ts > disk[u][0].ts)
      <4>1. RecordOf(u) = disk[u][0]
        BY <3>3 DEF RecordOf
      <4> QED
        BY <3>1, <3>3, <4>1
    <3> QED
      BY <3>2, <3>3
  <2> QED
    BY <2>1
<1>4. PICK j \in {0, 1} : RecordOf(p) = disk[p][j]
  BY <1>1, <1>3
<1>5. /\ disk[p][j].ts \in Nat /\ disk[o][i].ts \in Nat /\ disk[o][i].ts > 0
      /\ RecordOf(o).ts >= disk[o][i].ts /\ RecordOf(o).ts \in Nat
  <2>1. disk[o][i].ts > 0
    BY DEF Names
  <2>2. i = 0 \/ i = 1
    OBVIOUS
  <2> QED
    BY <1>1, <1>2, <1>3, <2>1, <2>2
<1>6. disk[p][j].ts >= disk[o][i].ts /\ RecordOf(p).ts > 0
  BY <1>1, <1>4, <1>5
<1>7. x \in disk[p][j].ltgs
  BY <1>1, <1>6 DEF Names
<1>8. Newest(read) = RecordOf(p).ltgs
  BY <1>6 DEF Newest, p
<1> QED
  BY <1>4, <1>7, <1>8

\* The newest record names every torn LTG, or its copies are on a PV that could not be read.
LEMMA ActivateTorn ==
  ASSUME SInv, TInv, Activate
  PROVE  TInv'
<1>1. PICK Q \in SUBSET PV : \E bad \in SUBSET (Q \ missing) :
         /\ recover' = Newest((Q \ missing) \ bad)
         /\ StaleTo(stale', stale, (PV \ missing) \ ((Q \ missing) \ bad))
         /\ missing' = PV \ Q
  BY ActivateFields, ZenonT(60)
<1>2. PICK bad \in SUBSET (Q \ missing) :
         /\ recover' = Newest((Q \ missing) \ bad)
         /\ StaleTo(stale', stale, (PV \ missing) \ ((Q \ missing) \ bad))
         /\ missing' = PV \ Q
  BY <1>1
<1> DEFINE read == (Q \ missing) \ bad
           unread == (PV \ missing) \ read
<1>3. /\ recover' = Newest(read) /\ StaleTo(stale', stale, unread) /\ missing' = PV \ Q
      /\ up = "down" /\ up' = "recover" /\ UNCHANGED <<disk, torn>>
      /\ disk \in [PV -> [{0, 1} -> Rec]] /\ torn \subseteq Ltg
      /\ read \in SUBSET PV
  BY <1>2 DEF Activate, SInv, StateOK
<1>4. \A p \in PV : p \notin missing => p \in unread \/ (p \in read /\ p \in Q)
  OBVIOUS
<1> HIDE DEF read, unread
<1>5. ASSUME NEW x \in Ltg, NEW m \in MirrorsOf(x), PvOf[x, m] \in missing' \ MayMiss
      PROVE  <<x, m>> \in stale'
  <2>1. PvOf[x, m] \in PV /\ PvOf[x, m] \notin Q
    BY <1>3, <1>5
  <2>2. CASE PvOf[x, m] \in missing
    BY <1>3, <1>5, <2>2 DEF TInv, StaleTo
  <2>3. CASE PvOf[x, m] \notin missing
    <3>1. PvOf[x, m] \in unread
      BY <1>4, <2>1, <2>3
    <3> QED
      BY <1>3, <3>1 DEF StaleTo
  <2> QED
    BY <2>2, <2>3
<1>6. ASSUME NEW x \in torn, ~Agree(x, stale')
      PROVE  OnDisk(disk, missing', x) /\ x \in recover'
  <2>1. ~Agree(x, stale)
    BY <1>3, <1>6, AgreeMore DEF StaleTo
  <2>2. OnDisk(disk, missing, x)
    BY <1>3, <2>1 DEF TInv
  <2>3. PICK o \in Clear(missing) : \E i \in {0, 1} : Holds(o, x) /\ Names(disk, o, i, x)
    BY <2>2 DEF OnDisk
  <2>4. PICK i \in {0, 1} : Holds(o, x) /\ Names(disk, o, i, x)
    BY <2>3
  <2>5. o \in PV /\ o \notin missing /\ o \notin MayMiss
    BY DEF Clear
  <2>6. o \notin unread
    <3>1. PICK m \in Mirror : PvOf[x, m] = o
      BY <2>4 DEF Holds
    <3>2. m \in MirrorsOf(x)
      BY <2>5, <3>1, Consts DEF MirrorsOf
    <3> QED
      BY <1>3, <1>6, <3>1, <3>2 DEF StaleTo
  <2>7. o \in read /\ o \in Q
    BY <1>4, <2>5, <2>6
  <2>8. x \in recover'
    BY <1>3, <2>4, <2>7, NewestNames
  <2>9. o \in Clear(missing')
    BY <1>3, <2>5, <2>7 DEF Clear
  <2> QED
    BY <2>4, <2>8, <2>9 DEF OnDisk
<1> QED
  BY <1>3, <1>5, <1>6 DEF TInv

\* A recovered LTG has copies that agree, but for one on a missing PV.
LEMMA RecoverTorn ==
  ASSUME SInv, TInv, FewMissing, NEW x \in Ltg, RecoverLtg(x)
  PROVE  TInv'
<1> DEFINE reach == {m \in Fresh(x) : PvOf[x, m] \notin missing}
<1>1. /\ up = "recover" /\ recover' = recover \ {x} /\ UNCHANGED <<up, disk, missing>>
      /\ \/ reach = {} /\ torn' = torn /\ stale' = stale
         \/ torn' = torn \ {x} /\ stale \subseteq stale'
  BY DEF RecoverLtg
<1>2. /\ \A y \in Ltg : \A m \in MirrorsOf(y) : PvOf[y, m] \in missing \ MayMiss => <<y, m>> \in stale
      /\ \A y \in torn : Agree(y, stale) \/ OnDisk(disk, missing, y)
      /\ \A y \in torn : Agree(y, stale) \/ y \in recover
  BY <1>1 DEF TInv
<1>3. reach = {} => Agree(x, stale)
  <2>1. ASSUME reach = {}, NEW m \in MirrorsOf(x), <<x, m>> \notin stale PROVE PvOf[x, m] \in MayMiss
    <3>1. PvOf[x, m] \in missing
      BY <2>1 DEF Fresh
    <3> QED
      BY <1>2, <2>1, <3>1
  <2> QED
    BY <2>1 DEF FewMissing, Agree
<1> HIDE DEF reach
<1>4. \A y \in Ltg : \A m \in MirrorsOf(y) :
         PvOf[y, m] \in missing' \ MayMiss => <<y, m>> \in stale'
  BY <1>1, <1>2
<1>5. ASSUME NEW y \in torn'
      PROVE  /\ Agree(y, stale') \/ OnDisk(disk', missing', y)
             /\ Agree(y, stale') \/ y \in recover'
  <2>1. CASE reach = {} /\ torn' = torn /\ stale' = stale
    BY <1>1, <1>2, <1>3, <1>5, <2>1
  <2>2. CASE torn' = torn \ {x} /\ stale \subseteq stale'
    <3>1. y \in torn /\ y # x
      BY <1>5, <2>2
    <3> QED
      BY <1>1, <1>2, <2>2, <3>1, AgreeMore
  <2> QED
    BY <1>1, <2>1, <2>2
<1> QED
  BY <1>1, <1>4, <1>5 DEF TInv

\* Every step keeps TInv.
LEMMA TornStep ==
  ASSUME SInv, RInv, TInv, ~MayLose, FewMissing, [Next]_vars
  PROVE  TInv'
<1>1. CASE UNCHANGED vars
  BY <1>1 DEF vars, vgsa, TInv
<1>2. ASSUME NEW r \in Req, MwcDone(r) PROVE TInv'
  BY <1>2, DoneTorn
<1>3. CASE /\ up = "up" /\ up' = "up" /\ torn' = torn /\ stale' = stale
           /\ missing' \ MayMiss \subseteq missing
  BY <1>3, ActiveTorn
<1>4. ASSUME NEW r \in Req, NEW x \in Ltg, Mwcm(r, x) PROVE TInv'
  BY <1>3, <1>4 DEF Mwcm, ThreadRuns, Running, vgsa
<1>5. CASE MwcmStart \/ DoneStart \/ RecordDone \/ RecordDoneNext \/ CacheWait
  BY <1>3, <1>5
     DEF MwcmStart, DoneStart, RecordDone, RecordDoneNext, CacheWait, ThreadRuns, Running, vgsa
<1>6. ASSUME NEW l \in Lv, Clean(l) PROVE TInv'
  BY <1>3, <1>6 DEF Clean, ThreadRuns, Running, vgsa
<1>7. ASSUME NEW p \in PV, GoMissing(p) \/ Attach(p) PROVE TInv'
  BY <1>3, <1>7 DEF GoMissing, Attach, Running
<1>8. CASE Activated
  BY <1>8 DEF Activated, TInv, vgsa
<1>9. CASE Crash
  BY <1>9, CrashTorn
<1>10. CASE Activate
  BY <1>10, ActivateTorn
<1>11. ASSUME NEW x \in Ltg, RecoverLtg(x) PROVE TInv'
  BY <1>11, RecoverTorn
<1> QED
  BY <1>1, <1>2, <1>4, <1>5, <1>6, <1>7, <1>8, <1>9, <1>10, <1>11 DEF Next

\* What the copies come to when all that are good agree.
LEMMA AgreedCopies ==
  ASSUME SInv, TInv
  PROVE  CopiesAgree
<1> SUFFICES ASSUME up = "up", NEW x \in torn
             PROVE  Cardinality({m \in MirrorsOf(x) : <<x, m>> \notin stale}) <= 1
  BY DEF CopiesAgree
<1> DEFINE S == {m \in MirrorsOf(x) : <<x, m>> \notin stale}
<1>1. \A m, n \in S : m = n
  BY DEF TInv, Agree
<1>2. CASE S = {}
  <2>1. Cardinality(S) = 0
    BY <1>2, FS_EmptySet
  <2> QED
    BY <2>1
<1>3. CASE S # {}
  <2>1. PICK m \in S : S = {m}
    BY <1>1, <1>3
  <2>2. Cardinality(S) = 1
    BY <2>1, FS_Singleton
  <2> QED
    BY <2>2
<1> QED
  BY <1>2, <1>3

\* Once the volume group is active again, no two good copies differ: a crash leaves a
\* record, on a PV that stays, of every LTG that was being written.
THEOREM AgreeAfterCrash == Spec /\ ~MayLose /\ Placed /\ FewMissing => []CopiesAgree
<1> SUFFICES ASSUME ~MayLose, Placed, FewMissing PROVE Spec => []CopiesAgree
  OBVIOUS
<1>1. Init => SInv /\ RInv /\ TInv
  <2>1. Init => TInv
    BY DEF Init, TInv
  <2> QED
    BY <2>1, InitStructure, InitRecords
<1>2. SInv /\ RInv /\ TInv /\ [Next]_vars => SInv' /\ RInv' /\ TInv'
  BY StructureStep, RecordsStep, TornStep
<1>3. SInv /\ TInv => CopiesAgree
  BY AgreedCopies
<1> QED
  BY <1>1, <1>2, <1>3, PTL DEF Spec

-----------------------------------------------------------------------------
(* No panic, and the counters.                                             *)

\* lv_cache_queue always finds a PV.
LEMMA AlwaysPlace ==
  ASSUME Placed, missing \subseteq MayMiss, NEW k, NEW x \in Ltg
  PROVE  ~NoPlace(k, x)
<1>1. MirrorsOf(x) # {} /\ PvOf[x, Lowest(MirrorsOf(x))] \notin MayMiss
  BY DEF Placed
<1>2. Place(k, x) \notin missing
  BY <1>1, PlaceType
<1> QED
  BY <1>1, <1>2 DEF NoPlace

\* The three ways of lv_checkcache that are left when nothing is wrong.
LEMMA CheckGoes ==
  ASSUME NEW k, CacheOK(k), AOK(k), NEW q, NEW U \in SUBSET Req, Struct(k, q, U),
         Placed, missing \subseteq MayMiss, NEW r \in Req, NEW x \in Ltg,
         NEW n, n = CheckCache(k, r, x)
  PROVE  \/ \E e \in Hashed(k) : k.ent[e].ltg = x /\ HitOf(n, k, e, r)
         \/ k.inflight = NoPv /\ k.free > 0 /\ \E e \in Entry, p \in PV : NewEntryOf(n, k, e, r, x, p)
         \/ ~(k.inflight = NoPv /\ k.free > 0) /\ n = Waiting(k, r)
<1>1. k \in Cache /\ ToSet(k.lru) = Entry
  BY DEF CacheOK
<1>2. CASE Found(k, x) # {} /\ n = Hit(k, Search(k, x), r)
  <2> DEFINE e == Search(k, x)
  <2>1. e \in Entry /\ e \in Hashed(k) /\ k.ent[e].ltg = x
    BY <1>1, <1>2, SearchFinds
  <2> HIDE DEF e
  <2>2. k.ent[e].state = {CHANGING} => k.ent[e].pvol \in PV
    BY <2>1 DEF CacheOK
  <2>3. HitOf(Hit(k, e, r), k, e, r)
    BY <1>1, <2>1, <2>2, HitFields
  <2>4. HitOf(n, k, e, r)
    BY <1>2, <2>3 DEF e
  <2> QED
    BY <2>1, <2>4
<1>3. CASE k.inflight = NoPv /\ k.free > 0 /\ n = Miss(k, r, x)
  <2>1. Idle(k) # {} /\ ~Unhashed(k, Oldest(k))
    <3>1. Idle(k) # {}
      <4>1. SUFFICES ASSUME Idle(k) = {} PROVE FALSE
        OBVIOUS
      <4>2. {e \in Entry : k.ent[e].iocnt = 0} = {}
        BY <4>1, OldestIdle
      <4>3. k.free = 0
        BY <4>2, FS_EmptySet DEF Struct
      <4> QED
        BY <1>3, <4>3
    <3>2. Oldest(k) \in Entry
      BY <3>1, OldestIdle
    <3> QED
      BY <3>1, <3>2 DEF Unhashed, Hashed, AOK
  <2>2. ~NoPlace(k, x)
    BY AlwaysPlace
  <2>3. PICK e \in Entry : n = NewEntry(k, e, r, x)
    BY <1>3, <2>1, <2>2, MissCases
  <2>4. Place(k, x) \in PV
    BY <2>2, PlaceType DEF NoPlace
  <2>5. NewEntryOf(NewEntry(k, e, r, x), k, e, r, x, Place(k, x))
    BY <2>4, NewEntryFields
  <2>6. NewEntryOf(n, k, e, r, x, Place(k, x))
    BY <2>3, <2>5
  <2> QED
    BY <1>3, <2>4, <2>6
<1> QED
  BY <1>1, <1>2, <1>3, CheckCases

\* Whatever leaves the chain and the names alone.
LEMMA AllocFrame ==
  ASSUME NEW k, NEW n, AOK(k), Hashed(n) = Hashed(k), n.panic = k.panic,
         \A e \in Entry : n.ent[e].ltg = k.ent[e].ltg
  PROVE  AOK(n)
<1> QED
  BY DEF AOK

\* lv_checkcache finds the entry it takes on the chain, or without a name, and a place.
LEMMA CheckAllocates ==
  ASSUME NEW k, CacheOK(k), AOK(k), NEW q, NEW U \in SUBSET Req, Struct(k, q, U),
         Placed, missing \subseteq MayMiss, NEW r \in Req, NEW x \in Ltg
  PROVE  LET n == CheckCache(k, r, x) IN AOK(n) /\ n.clean = k.clean /\ n.done = k.done
<1> DEFINE n == CheckCache(k, r, x)
<1> HIDE DEF n
<1> SUFFICES AOK(n) /\ n.clean = k.clean /\ n.done = k.done
  BY DEF n
<1>1. k \in Cache /\ Hashed(k) \subseteq Entry
  BY ChainSet DEF CacheOK
<1>2. ~k.panic /\ \A e \in Entry \ Hashed(k) : k.ent[e].ltg = None
  BY DEF AOK
<1>3. ASSUME NEW e \in Hashed(k), HitOf(n, k, e, r)
      PROVE  AOK(n) /\ n.clean = k.clean /\ n.done = k.done
  <2>1. /\ n.ent = [k.ent EXCEPT ![e].iocnt = k.ent[e].iocnt + 1] /\ Hashed(n) = Hashed(k)
        /\ ~n.panic /\ n.clean = k.clean /\ n.done = k.done
    BY <1>2, <1>3 DEF HitOf, Hashed
  <2>2. e \in Entry /\ k.ent[e].iocnt + 1 \in Int /\ k.ent \in [Entry -> EntryT]
    <3>1. k.ent \in [Entry -> EntryT] /\ e \in Entry
      BY <1>1, ChainSet
    <3>2. k.ent[e].iocnt \in Int
      BY <3>1, EntryField
    <3> QED
      BY <3>1, <3>2
  <2>3. LET f == [k.ent EXCEPT ![e].iocnt = k.ent[e].iocnt + 1] IN
        f[e].ltg = k.ent[e].ltg /\ \A g \in Entry : g # e => f[g] = k.ent[g]
    BY <2>2, CountChange
  <2>4. \A g \in Entry : n.ent[g].ltg = k.ent[g].ltg
    BY <2>1, <2>3
  <2>5. AOK(n)
    BY <1>2, <2>1, <2>4 DEF AOK
  <2> QED
    BY <2>1, <2>5
<1>4. CASE n = Waiting(k, r)
  <2>1. /\ n.panic = k.panic /\ n.ent = k.ent /\ n.chain = k.chain
        /\ n.clean = k.clean /\ n.done = k.done
    BY <1>1, <1>4 DEF Waiting, Cache
  <2>2. Hashed(n) = Hashed(k)
    BY <2>1 DEF Hashed
  <2>3. AOK(n)
    BY <2>1, <2>2, AllocFrame
  <2> QED
    BY <2>1, <2>3
<1>5. ASSUME NEW e \in Entry, NEW p \in PV, NewEntryOf(n, k, e, r, x, p)
      PROVE  AOK(n) /\ n.clean = k.clean /\ n.done = k.done
  <2>1. /\ Hashed(n) = Hashed(k) \cup {e} /\ ~n.panic /\ n.clean = k.clean /\ n.done = k.done
        /\ \A d \in Entry : d # e => n.ent[d] = k.ent[d]
    BY <1>2, <1>5 DEF NewEntryOf
  <2>2. AOK(n)
    BY <1>2, <2>1 DEF AOK
  <2> QED
    BY <2>1, <2>2
<1>6. \/ \E e \in Hashed(k) : HitOf(n, k, e, r)
      \/ \E e \in Entry, p \in PV : NewEntryOf(n, k, e, r, x, p)
      \/ n = Waiting(k, r)
  BY CheckGoes DEF n
<1> QED
  BY <1>3, <1>4, <1>5, <1>6

\* Of volume l no entry has a request.
NoUsers(k, l) ==
    \A e \in Entry : k.ent[e].ltg # None /\ LvOf[k.ent[e].ltg] = l => k.ent[e].iocnt = 0

\* A volume without requests has entries whose count is zero.
LEMMA NobodyUses ==
  ASSUME NEW k, CacheOK(k), AOK(k), NEW q, NEW U \in SUBSET Active(q), Struct(k, q, U), NEW l,
         \A r \in Active(q) : LvOf[q[r].ltg] # l
  PROVE  NoUsers(k, l)
<1> SUFFICES ASSUME NEW e \in Entry, k.ent[e].ltg # None, LvOf[k.ent[e].ltg] = l
             PROVE  k.ent[e].iocnt = 0
  BY DEF NoUsers
<1>1. e \in Hashed(k)
  BY DEF AOK
<1>2. UsersOf(U, q, k.ent[e].ltg) = {}
  BY DEF UsersOf
<1> QED
  BY <1>1, <1>2, FS_EmptySet DEF Struct

\* So none that is scrubbed is busy, and each is on the chain.
LEMMA ScrubEntryAllocates ==
  ASSUME NEW k, CacheOK(k), NEW l, NoUsers(k, l), NEW q, NEW U \in SUBSET Req, Struct(k, q, U),
         NEW n, Scrubbed(n, k, q, U), AOK(n), NEW e \in Entry
  PROVE  AOK(ScrubEntry(n, l, e))
<1> DEFINE m == ScrubEntry(n, l, e)
<1>1. CASE ~Mine(n, l, e)
  <2>1. m = n
    BY <1>1 DEF ScrubEntry
  <2> QED
    BY <2>1
<1>2. CASE Mine(n, l, e)
  <2>1. n.ent[e].ltg # None /\ LvOf[n.ent[e].ltg] = l
    BY <1>2 DEF Mine
  <2>2. n.ent[e] = k.ent[e]
    BY <2>1 DEF Scrubbed, NoEntry
  <2>3. n.ent[e].iocnt = 0 /\ e \in Hashed(n) /\ ~n.panic
    BY <2>1, <2>2 DEF NoUsers, AOK
  <2>4. m = CacheRemove(n, e)
    BY <1>2, <2>3 DEF ScrubEntry
  <2>5. CacheOK(n)
    BY DEF Scrubbed
  <2>6. LET a == CacheRemove(n, e) IN
        /\ Hashed(a) = Hashed(n) \ {e} /\ a.ent[e] = NoEntry
        /\ \A d \in Entry : d # e => a.ent[d] = n.ent[d]
        /\ a.panic = n.panic
    BY <2>3, <2>5, RemoveFields
  <2>7. /\ Hashed(m) = Hashed(n) \ {e} /\ m.ent[e] = NoEntry /\ ~m.panic
        /\ \A d \in Entry : d # e => m.ent[d] = n.ent[d]
    BY <2>3, <2>4, <2>6
  <2> HIDE DEF m
  <2>8. AOK(m)
    BY <2>7 DEF AOK, NoEntry
  <2> QED
    BY <2>8 DEF m
<1> QED
  BY <1>1, <1>2

\* lv_cache_scrub does not panic.
LEMMA ScrubAllocates ==
  ASSUME NEW k, CacheOK(k), AOK(k), NEW l, NoUsers(k, l), NEW q, NEW U \in SUBSET Req,
         Struct(k, q, U)
  PROVE  AOK(Scrub(k, l))
<1>1. CASE ~\E e \in Entry : Mine(k, l, e)
  <2>1. Scrub(k, l) = k
    BY <1>1 DEF Scrub
  <2> QED
    BY <2>1
<1>2. CASE \E e \in Entry : Mine(k, l, e)
  <2> DEFINE s == Reverse(k.lru)
             f == ScrubAll(k, l, s)
             n == CacheUpdate(f)
  <2>1. Scrub(k, l) = n
    BY <1>2 DEF Scrub, ScrubAll
  <2>2. s \in Seq(Entry)
    BY ChainSet, ReverseSet DEF CacheOK
  <2>3. f = Fold("scrub", l, k, s)
    BY DEF ScrubAll, Fold, LoopStep, FoldLeft, MapThenFoldSet
  <2> HIDE DEF s
  <2>4. PICK h : /\ h[0] = k /\ \A i \in 1 .. Len(s) : h[i] = ScrubEntry(h[i - 1], l, s[i])
                 /\ Fold("scrub", l, k, s) = h[Len(s)]
    BY <2>2, Chain, LoopSteps
  <2> DEFINE S == {i \in Nat : i <= Len(s) => Scrubbed(h[i], k, q, U) /\ AOK(h[i])}
  <2>5. 0 \in S
    <3>2. SameQueues(k, k) /\ SameRecord(k, k)
      BY DEF SameQueues, SameRecord
    <3>3. \A e \in Hashed(k) \ Hashed(k) : k.ent[e] = NoEntry
      OBVIOUS
    <3>4. Scrubbed(k, k, q, U)
      BY <3>2, <3>3, Zenon DEF Scrubbed
    <3> QED
      BY <2>4, <3>4
  <2>6. ASSUME NEW i \in Nat, i \in S PROVE i + 1 \in S
    <3>1. SUFFICES ASSUME i + 1 <= Len(s) PROVE Scrubbed(h[i + 1], k, q, U) /\ AOK(h[i + 1])
      BY <2>6
    <3>2. Len(s) \in Nat /\ i + 1 \in 1 .. Len(s) /\ (i + 1) - 1 = i /\ i <= Len(s)
      BY <2>2, <3>1
    <3>3. s[i + 1] \in Entry /\ Scrubbed(h[i], k, q, U) /\ AOK(h[i]) /\ k \in Cache
      BY <2>2, <2>6, <3>2 DEF CacheOK
    <3>4. h[i + 1] = ScrubEntry(h[i], l, s[i + 1])
      BY <2>4, <3>2
    <3> QED
      BY <3>3, <3>4, ScrubEntryStruct, ScrubEntryAllocates
  <2>7. Nat \subseteq S
    <3> HIDE DEF S
    <3> QED
      BY <2>5, <2>6, NatInd
  <2>8. Len(s) \in Nat
    BY <2>2
  <2>9. Scrubbed(f, k, q, U) /\ AOK(f)
    BY <2>3, <2>4, <2>7, <2>8
  <2> HIDE DEF f
  <2>10. CacheOK(f) /\ f \in Cache /\ IsInjective(f.writeq)
    BY <2>9 DEF Scrubbed, CacheOK
  <2>11. Updated(n, f)
    BY <2>10, UpdateFields
  <2> HIDE DEF n
  <2>12. n.panic = f.panic /\ Hashed(n) = Hashed(f) /\ n.ent = f.ent
    BY <2>11 DEF Updated, SameEntries, Hashed
  <2>13. AOK(n)
    BY <2>9, <2>12 DEF AOK
  <2> QED
    BY <2>1, <2>13
<1> QED
  BY <1>1, <1>2

\* What is to be shown of a step.
LEMMA NextAllocates ==
  ASSUME AInv, AOK(c'), missing' = missing, up' = up,
         c'.clean = c.clean \/ c'.clean = None,
         \A r \in Active(req') : r \in Active(req) /\ req'[r].ltg = req[r].ltg
  PROVE  AInv'
<1>1. /\ missing' \subseteq MayMiss /\ (MaxCrashes = 0 => up' = "up")
      /\ c'.clean # None => \A r \in Active(req') : LvOf[req'[r].ltg] # c'.clean
  BY DEF AInv
<1> QED
  BY <1>1 DEF AInv

\* sched_Q and done_Q are passed on.
LEMMA SettleAllocates ==
  ASSUME AInv, NEW n, NEW q, ReqOK(q), NEW L, AgainOK(n, q, {}, L), AOK(n),
         c' = Settled(n), req' = Passed(n, q), n.clean = c.clean, missing' = missing, up' = up,
         n.clean # None => \A r \in Active(q) : LvOf[q[r].ltg] # n.clean
  PROVE  AInv'
<1>1. n \in Cache /\ n.go \cup n.done \subseteq Held(q)
  BY DEF AgainOK, CacheOK
<1>2. /\ SameEntries(Settled(n), n) /\ Settled(n).clean = n.clean /\ Settled(n).panic = n.panic
  BY <1>1, SettledFields
<1>3. /\ Active(Passed(n, q)) = Active(q) \ n.done
      /\ \A r \in Req \ n.done : Passed(n, q)[r].ltg = q[r].ltg
  BY <1>1, PassedRequests
<1>4. AOK(Settled(n))
  BY <1>2, AllocFrame DEF SameEntries, Hashed
<1>5. n.clean # None => \A r \in Active(Passed(n, q)) : LvOf[Passed(n, q)[r].ltg] # n.clean
  BY <1>3 DEF Active
<1>6. missing' \subseteq MayMiss /\ (MaxCrashes = 0 => up' = "up")
  BY DEF AInv
<1>7. AOK(c') /\ c'.clean = n.clean
  BY <1>2, <1>4
<1>8. c'.clean # None => \A r \in Active(req') : LvOf[req'[r].ltg] # c'.clean
  BY <1>5, <1>7
<1> QED
  BY <1>6, <1>7, <1>8 DEF AInv

\* lv_mwcm does not panic.
LEMMA MwcmAllocates ==
  ASSUME SInv, AInv, Placed, NEW r \in Req, NEW x \in Ltg, Mwcm(r, x)
  PROVE  AInv'
<1> DEFINE q == Asked(req, r, x)
           n == CheckCache(c, r, x)
<1>1. /\ ~c.panic /\ req[r].at = "idle" /\ ReqOK(req) /\ CacheOK(c) /\ c.clean # LvOf[x]
      /\ Struct(c, req, Counted(c, req, {})) /\ AOK(c) /\ missing \subseteq MayMiss
  BY DEF Mwcm, ThreadRuns, Running, SInv, AInv
<1>2. c' = Settled(n) /\ req' = Passed(n, q) /\ missing' = missing /\ up' = up
  BY DEF Mwcm, Settle, Settled, Passed, Asked, vgsa
<1>3. /\ ReqOK(q) /\ Active(q) = Active(req) \cup {r} /\ q[r].ltg = x
      /\ \A o \in Req : o # r => q[o] = req[o]
  BY <1>1, NewRequest
<1>4. AgainOK(n, q, {}, list)
  BY <1>1, MwcmAgain
<1>5. Counted(c, req, {}) \in SUBSET Req
  BY DEF Counted, Active
<1>6. AOK(n) /\ n.clean = c.clean
  BY <1>1, <1>5, CheckAllocates
<1>7. c.clean # None => \A o \in Active(q) : LvOf[q[o].ltg] # c.clean
  <2>1. c.clean # None => \A o \in Active(req) : LvOf[req[o].ltg] # c.clean
    BY DEF AInv
  <2>2. Active(req) \subseteq Req
    BY DEF Active
  <2> HIDE DEF q
  <2> QED
    BY <1>1, <1>3, <2>1, <2>2
<1> HIDE DEF n, q
<1> QED
  BY <1>2, <1>3, <1>4, <1>6, <1>7, SettleAllocates

\* A request that returns has an entry.
LEMMA DoneAllocates ==
  ASSUME SInv, AInv, ~MayLose, NEW r \in Req, MwcDone(r)
  PROVE  AInv'
<1> DEFINE e == Search(c, req[r].ltg)
<1>1. ReleaseOf(c', c, e) /\ req' = Dropped(req, r) /\ e \in Entry
  BY DoneFields
<1> HIDE DEF e
<1>2. /\ \A d \in Entry : c'.ent[d].ltg = c.ent[d].ltg
      /\ Hashed(c') = Hashed(c) /\ c'.panic = c.panic /\ c'.clean = c.clean
  BY <1>1 DEF ReleaseOf, Hashed
<1>3. AOK(c')
  BY <1>2, AllocFrame DEF AInv
<1>4. ReqOK(req)
  BY DEF SInv
<1>5. /\ Active(req') = Active(req) \ {r}
      /\ \A o \in Req : o # r => req'[o] = req[o]
  BY <1>1, <1>4, DropRequest
<1>6. \A o \in Active(req') : o \in Active(req) /\ req'[o].ltg = req[o].ltg
  BY <1>5 DEF Active
<1>7. missing' = missing /\ up' = up
  BY DEF MwcDone
<1> QED
  BY <1>2, <1>3, <1>6, <1>7, NextAllocates

\* Starting a write does not panic.
LEMMA StartedAllocates ==
  ASSUME SInv, AInv, MwcmStart \/ DoneStart \/ Activated
  PROVE  AInv'
<1>1. c' = CacheStart(c) /\ req' = req /\ missing' = missing /\ up' \in {up, "up"} /\ c \in Cache
  BY DEF MwcmStart, DoneStart, Activated, vgsa, SInv, CacheOK
<1>2. /\ SameEntries(c', c) /\ c'.panic = c.panic /\ c'.clean = c.clean
  BY <1>1, StartFields DEF Started
<1>3. AOK(c')
  BY <1>2, AllocFrame DEF AInv, SameEntries, Hashed
<1> QED
  BY <1>1, <1>2, <1>3 DEF AInv

\* The entries of a volume that nobody writes to are scrubbed.
LEMMA ScrubForAllocates ==
  ASSUME NEW k, CacheOK(k), AOK(k), NEW l, NEW U \in SUBSET Active(req), Struct(k, req, U),
         l # None => \A r \in Active(req) : LvOf[req[r].ltg] # l
  PROVE  AOK(ScrubFor(k, l))
<1>1. CASE l = None
  BY <1>1 DEF ScrubFor
<1>2. CASE l # None
  <2>1. NoUsers(k, l)
    BY <1>2, NobodyUses
  <2>2. U \in SUBSET Req
    BY DEF Active
  <2>3. AOK(Scrub(k, l))
    BY <2>1, <2>2, ScrubAllocates
  <2> QED
    BY <1>2, <2>3 DEF ScrubFor
<1> QED
  BY <1>1, <1>2

\* The record has not been changed when its write ends, and the volume that is cleaned has no
\* requests.
LEMMA TakenAllocates ==
  ASSUME SInv, RInv, AInv, RecordDone
  PROVE  AInv'
<1> DEFINE k == Taken(c)
           s == ScrubFor(k, c.clean)
           U == Counted(c, req, {})
<1>1. /\ ~c.panic /\ c.inflight \in PV /\ TakenOf(k, c) /\ ScrubOf(s, k, req, U)
      /\ WriteEnd(c', s) /\ req' = req
  BY RecordDoneFields
<1>2. /\ CacheOK(c) /\ c \in Cache /\ Struct(c, req, U) /\ NoPv \notin PV /\ U \in SUBSET Active(req)
  BY <1>1, Consts DEF SInv, CacheOK, Counted
<1>3. ~c.changed
  BY <1>1, <1>2 DEF RInv, RecOK, Records
<1>4. AOK(c) /\ (c.clean # None => \A r \in Active(req) : LvOf[req[r].ltg] # c.clean)
  BY DEF AInv
<1> HIDE DEF s
<1>5. /\ k \in Cache /\ SameEntries(k, c) /\ k.panic = FALSE /\ k.writeq = c.writeq
      /\ k.clean = None
  BY <1>1, <1>3, <1>2 DEF TakenOf, Cache
<1> HIDE DEF k, U
<1>6. CacheOK(k) /\ Struct(k, req, U)
  BY <1>2, <1>5, EntriesFrame DEF CacheOK
<1>7. AOK(k)
  BY <1>1, <1>4, <1>5, AllocFrame DEF SameEntries, Hashed, AOK
<1>8. AOK(s)
  BY <1>2, <1>4, <1>6, <1>7, ScrubForAllocates DEF s
<1>9. /\ SameEntries(c', s) /\ c'.panic = s.panic /\ c'.clean = None
  BY <1>1, <1>5 DEF WriteEnd, ScrubOf
<1>10. AOK(c')
  BY <1>8, <1>9, AllocFrame DEF SameEntries, Hashed
<1>11. missing' = missing /\ up' = up
  BY DEF RecordDone, vgsa
<1> QED
  BY <1>1, <1>9, <1>10, <1>11, NextAllocates

\* The walk of lv_mwc_cache_done does not panic.
LEMMA NextEntryAllocates ==
  ASSUME SInv, AInv, Placed, RecordDoneNext
  PROVE  AInv'
<1> DEFINE r == Head(list)
           x == req[r].ltg
           e == Search(c, x)
<1>1. /\ ~c.panic /\ r \in Req /\ x \in Ltg /\ e \in Hashed(c) /\ e \in Entry
      /\ \/ ~err /\ c' = Settled(Recovered(c, e, r)) /\ req' = Passed(Recovered(c, e, r), req)
         \/ /\ err /\ NoPlace(c, x)
            /\ c' = Settled(GiveUp(c, e, r)) /\ req' = Passed(GiveUp(c, e, r), req)
         \/ /\ err /\ ~NoPlace(c, x)
            /\ c' = Settled(Queue(c, e, r, x)) /\ req' = Passed(Queue(c, e, r, x), req)
  BY NextFields
<1>2. c \in Cache /\ ReqOK(req)
  BY DEF SInv, CacheOK
<1>3. missing' = missing /\ up' = up
  BY DEF RecordDoneNext, vgsa
<1>4. AOK(c) /\ missing \subseteq MayMiss /\ (c.clean # None => \A o \in Active(req) : LvOf[req[o].ltg] # c.clean)
  BY DEF AInv
<1>5. ~NoPlace(c, x)
  BY <1>1, <1>4, AlwaysPlace
<1> HIDE DEF r, x, e
<1>6. \E n : /\ AgainOK(n, req, {}, Tail(list)) /\ c' = Settled(n) /\ req' = Passed(n, req)
             /\ AOK(n) /\ n.clean = c.clean
  <2>1. CASE ~err /\ c' = Settled(Recovered(c, e, r)) /\ req' = Passed(Recovered(c, e, r), req)
    <3> DEFINE n == Recovered(c, e, r)
    <3>1. AgainOK(n, req, {}, Tail(list)) /\ RecoveredOf(n, c, e, r)
      BY RecoveredAgain DEF r, x, e
    <3> HIDE DEF n
    <3>2. /\ \A d \in Entry : n.ent[d].ltg = c.ent[d].ltg
          /\ Hashed(n) = Hashed(c) /\ n.panic = c.panic /\ n.clean = c.clean
      BY <3>1 DEF RecoveredOf, Hashed
    <3>3. AOK(n)
      BY <1>4, <3>2, AllocFrame
    <3> QED
      BY <2>1, <3>1, <3>2, <3>3 DEF n
  <2>2. CASE c' = Settled(Queue(c, e, r, x)) /\ req' = Passed(Queue(c, e, r, x), req)
    <3> DEFINE n == Queue(c, e, r, x)
               p == Place(c, x)
    <3>1. AgainOK(n, req, {}, Tail(list)) /\ QueueOf(n, c, e, r, p) /\ p \in PV
      BY <1>5, QueuedAgain DEF r, x, e
    <3> HIDE DEF n, p
    <3>2. /\ \A d \in Entry : n.ent[d].ltg = c.ent[d].ltg
          /\ n.chain = c.chain /\ n.panic = c.panic
      BY <1>1, <1>2, <3>1, QueueParts
    <3>3. n.clean = c.clean /\ Hashed(n) = Hashed(c)
      BY <3>1, <3>2 DEF QueueOf, Hashed
    <3>4. AOK(n)
      BY <1>4, <3>2, <3>3, AllocFrame
    <3> QED
      BY <2>2, <3>1, <3>3, <3>4 DEF n
  <2> QED
    BY <1>1, <1>5, <2>1, <2>2
<1>7. PICK n : /\ AgainOK(n, req, {}, Tail(list)) /\ c' = Settled(n) /\ req' = Passed(n, req)
               /\ AOK(n) /\ n.clean = c.clean
  BY <1>6
<1> QED
  BY <1>2, <1>3, <1>4, <1>7, SettleAllocates

\* A request that waits for an entry asks for an LTG.
LEMMA WaitingLtg ==
  ASSUME SInv, ~c.panic, NEW i \in Nat, i + 1 <= Len(c.wait)
  PROVE  req[c.wait[i + 1]].ltg \in Ltg
<1>1. c \in Cache /\ ReqOK(req) /\ Waits(c, req, {}, list)
  BY DEF SInv, CacheOK
<1>2. c.wait \in Seq(Req) /\ i + 1 \in 1 .. Len(c.wait)
  <2>1. c.wait \in Seq(Req) /\ Len(c.wait) \in Nat
    BY <1>1, ChainSet
  <2> QED
    BY <2>1
<1>3. c.wait[i + 1] \in ToSet(c.wait)
  BY <1>2, SeqSet
<1>4. c.wait[i + 1] \in Held(req)
  BY <1>1, <1>3 DEF Waits
<1> QED
  BY <1>1, <1>4 DEF Held, ReqOK, Active

\* The requests that waited for an entry, one after another.
LEMMA WalkAllocates ==
  ASSUME SInv, AInv, Placed, NEW h, Walk(h, c.wait)
  PROVE  \A i \in Nat : i <= Len(c.wait) => AOK(h[i]) /\ h[i].clean = c.clean /\ h[i].done = {}
<1> DEFINE s == c.wait
           S == {i \in Nat : i <= Len(s) => AOK(h[i]) /\ h[i].clean = c.clean /\ h[i].done = {}}
<1>1. /\ CacheOK(c) /\ c \in Cache /\ ReqOK(req) /\ c.done = {} /\ ~c.panic
      /\ Waits(c, req, {}, list)
  BY DEF SInv, CacheOK, AInv, AOK
<1>2. /\ Len(s) \in Nat
      /\ \A i \in Nat : i <= Len(s) => AgainOK(h[i], req, Rest(s, i), list)
      /\ \A i \in Nat : i + 1 <= Len(s) =>
             h[i + 1] = CheckAgain(h[i], s[i + 1]) /\ s[i + 1] \in Req
  BY <1>1, WalkAgain
<1>3. 0 \in S
  <2>1. h[0] = Emptied(c)
    BY DEF Walk
  <2>2. /\ SameEntries(h[0], c) /\ h[0].panic = c.panic /\ h[0].clean = c.clean
        /\ h[0].done = {}
    BY <1>1, <2>1, EmptiedFields
  <2>3. AOK(h[0])
    BY <2>2, AllocFrame DEF AInv, SameEntries, Hashed
  <2> QED
    BY <2>2, <2>3
<1>4. ASSUME NEW i \in Nat, i \in S PROVE i + 1 \in S
  <2>1. SUFFICES ASSUME i + 1 <= Len(s)
                 PROVE AOK(h[i + 1]) /\ h[i + 1].clean = c.clean /\ h[i + 1].done = {}
    BY <1>4
  <2>2. i <= Len(s)
    BY <1>2, <2>1
  <2>3. /\ AOK(h[i]) /\ h[i].clean = c.clean /\ h[i].done = {}
        /\ AgainOK(h[i], req, Rest(s, i), list)
        /\ h[i + 1] = CheckAgain(h[i], s[i + 1]) /\ s[i + 1] \in Req
    BY <1>2, <1>4, <2>1, <2>2
  <2> DEFINE k == h[i]
             r == s[i + 1]
             U == Counted(k, req, Rest(s, i))
  <2>4. /\ CacheOK(k) /\ ~k.panic /\ AOK(k) /\ r \in Req /\ Struct(k, req, U) /\ U \in SUBSET Req
    BY <2>3 DEF AgainOK, AOK, Counted, Active
  <2>5. h[i + 1] = CheckCache(k, r, req[r].ltg)
    BY <2>3, <2>4 DEF CheckAgain
  <2>6. req[r].ltg \in Ltg
    BY <1>1, <2>1, WaitingLtg
  <2>7. missing \subseteq MayMiss /\ k.clean = c.clean /\ k.done = {}
    BY <2>3 DEF AInv
  <2> HIDE DEF k, r, U
  <2>8. LET n == CheckCache(k, r, req[r].ltg) IN AOK(n) /\ n.clean = k.clean /\ n.done = k.done
    BY <2>4, <2>6, <2>7, CheckAllocates
  <2> QED
    BY <2>5, <2>7, <2>8
<1>5. Nat \subseteq S
  <2> HIDE DEF S
  <2> QED
    BY <1>3, <1>4, NatInd
<1> QED
  BY <1>5

\* The walk over vg_cache_wait does not panic.
LEMMA WaitAllocates ==
  ASSUME SInv, AInv, Placed, CacheWait
  PROVE  AInv'
<1>1. /\ CacheOK(c) /\ c \in Cache /\ ReqOK(req) /\ ~c.panic
      /\ Waits(c, req, {}, list) /\ missing' = missing /\ up' = up
  BY DEF SInv, CacheOK, CacheWait, Running, vgsa
<1>2. CASE c' = c /\ req' = req
  BY <1>1, <1>2 DEF AInv
<1>3. CASE c.free > 0 /\ c.inflight = NoPv
  <2>1. PICK h : /\ Walk(h, c.wait)
                 /\ c' = Settled(h[Len(c.wait)]) /\ req' = Passed(h[Len(c.wait)], req)
    BY <1>3, WalkExists
  <2> DEFINE n == h[Len(c.wait)]
  <2>2. Len(c.wait) \in Nat /\ AgainOK(n, req, Rest(c.wait, Len(c.wait)), list)
    BY <1>1, <2>1, WalkAgain
  <2>3. AOK(n) /\ n.clean = c.clean
    BY <2>1, <2>2, WalkAllocates
  <2>4. Rest(c.wait, Len(c.wait)) = {}
    BY <1>1, ChainSet, RestSet DEF Waits
  <2>5. AgainOK(n, req, {}, list)
    BY <2>2, <2>4
  <2>6. c' = Settled(n) /\ req' = Passed(n, req)
    BY <2>1
  <2> HIDE DEF n
  <2>7. n.clean # None => \A r \in Active(req) : LvOf[req[r].ltg] # n.clean
    BY <2>3 DEF AInv
  <2> QED
    BY <1>1, <2>3, <2>5, <2>6, <2>7, SettleAllocates
<1> QED
  BY <1>2, <1>3 DEF CacheWait

\* A volume to be cleaned has been paused, so it has no requests.
LEMMA CleanAllocates ==
  ASSUME SInv, AInv, NEW l \in Lv, Clean(l)
  PROVE  AInv'
<1>1. /\ ~c.panic /\ req' = req /\ missing' = missing /\ up' = up /\ c.clean = None
      /\ \/ c' = [c EXCEPT !.clean = l] \/ c' = c
         \/ c' = CacheStart(Scrub(c, l))
  BY DEF Clean, ThreadRuns, Running, vgsa
<1>2. /\ CacheOK(c) /\ c \in Cache /\ Struct(c, req, Counted(c, req, {})) /\ AOK(c)
      /\ missing \subseteq MayMiss /\ (MaxCrashes = 0 => up = "up")
  BY <1>1 DEF SInv, CacheOK, AInv
<1>3. \A r \in Active(req) : LvOf[req[r].ltg] # l
  BY DEF Clean, Active
<1>4. CASE c' = c
  BY <1>1, <1>4 DEF AInv
<1>5. CASE c' = [c EXCEPT !.clean = l]
  <2>1. /\ c'.ent = c.ent /\ c'.chain = c.chain /\ c'.panic = c.panic /\ c'.clean = l
    BY <1>2, <1>5 DEF Cache
  <2>2. AOK(c')
    BY <1>2, <2>1, AllocFrame DEF Hashed
  <2> QED
    BY <1>1, <1>2, <1>3, <2>1, <2>2 DEF AInv
<1>6. CASE c' = CacheStart(Scrub(c, l))
  <2> DEFINE k == Scrub(c, l)
             U == Counted(c, req, {})
  <2>1. U \in SUBSET Req /\ U \in SUBSET Active(req)
    BY DEF Counted, Active
  <2>2. NoUsers(c, l)
    BY <1>2, <1>3, <2>1, NobodyUses
  <2>3. AOK(k)
    BY <1>2, <2>1, <2>2, ScrubAllocates
  <2>4. ScrubOf(k, c, req, U)
    BY <1>2, <2>1, ScrubStruct
  <2>5. c' = CacheStart(k)
    BY <1>6
  <2> HIDE DEF k
  <2>6. k.clean = None /\ k \in Cache
    BY <1>1, <2>4 DEF ScrubOf, CacheOK
  <2>7. SameEntries(c', k) /\ c'.panic = k.panic /\ c'.clean = k.clean
    BY <2>5, <2>6, StartFields DEF Started
  <2>8. AOK(c')
    BY <2>3, <2>7, AllocFrame DEF SameEntries, Hashed
  <2> QED
    BY <1>1, <1>2, <2>6, <2>7, <2>8 DEF AInv
<1> QED
  BY <1>1, <1>4, <1>5, <1>6

\* PVs in MayMiss are not the lowest mirrors'.
LEMMA MissingAllocates ==
  ASSUME AInv, NEW p \in PV, GoMissing(p) \/ Attach(p)
  PROVE  AInv'
<1>1. UNCHANGED <<c, req, up>> /\ missing' \subseteq missing \cup MayMiss
  BY DEF GoMissing, Attach
<1> QED
  BY <1>1 DEF AInv

\* No entry has a name.
LEMMA FreshAllocates ==
  ASSUME NEW k, NEW time, Initial(k, time), ~k.panic
  PROVE  AOK(k)
<1> QED
  BY DEF Initial, AOK, NoEntry

\* A new cache has no names.
LEMMA CrashAllocates ==
  ASSUME SInv, AInv, Crash
  PROVE  AInv'
<1>1. /\ c' = CacheInit(c.clock) /\ missing' = missing /\ crashes < MaxCrashes
      /\ crashes \in Nat /\ MaxCrashes \in Nat /\ c.clock \in Nat
  BY MirconsAssumption DEF Crash, SInv, StateOK, CacheOK, Cache
<1>2. MaxCrashes # 0
  BY <1>1
<1>3. Initial(c', c.clock) /\ ~c'.panic /\ c'.clean = None
  BY <1>1, PlainInitial DEF Initial
<1>4. AOK(c')
  BY <1>3, FreshAllocates
<1> QED
  BY <1>1, <1>2, <1>3, <1>4 DEF AInv
\* With one or two PVs, more than half of them are all of them.
LEMMA AllAttached ==
  ASSUME NPV <= 2, NEW Q \in SUBSET PV, 2 * Cardinality(Q) > NPV
  PROVE  Q = PV
<1>1. NPV \in Nat \ {0} /\ PV = 0 .. NPV - 1
  BY MirconsAssumption DEF PV
<1>2. IsFiniteSet(PV) /\ Cardinality(PV) = NPV
  BY <1>1, FS_Interval
<1>3. /\ Cardinality(Q) \in Nat /\ Cardinality(Q) <= NPV
      /\ Cardinality(PV) = Cardinality(Q) => PV = Q
  <2>1. IsFiniteSet(Q) /\ Cardinality(Q) <= Cardinality(PV)
        /\ (Cardinality(PV) = Cardinality(Q) => PV = Q)
    BY <1>2, FS_Subset
  <2> QED
    BY <1>2, <2>1, FS_CardinalityType
<1>4. Cardinality(Q) = NPV
  BY <1>1, <1>3
<1> QED
  BY <1>2, <1>3, <1>4

\* With one hole at most, no LTG has more good mirrors than lv_cache_stale counts on.
LEMMA NotTooGood ==
  ASSUME \A x \in Ltg : \A m, n \in Mirror \ MirrorsOf(x) : m = n, NEW s, NEW p
  PROVE  ~TooGood(s, p)
<1> SUFFICES ASSUME NEW x \in Ltg PROVE ~(Cardinality(Good(s, x, p) \ MirrorsOf(x)) > 1)
  BY DEF TooGood, OnPv
<1> DEFINE H == Good(s, x, p) \ MirrorsOf(x)
<1>1. H \subseteq Mirror \ MirrorsOf(x)
  BY DEF Good
<1> HIDE DEF H
<1>2. CASE H = {}
  BY <1>2, FS_EmptySet DEF H
<1>3. CASE H # {}
  <2>1. PICK m : m \in H
    BY <1>3
  <2>2. H = {m}
    BY <1>1, <2>1
  <2>3. Cardinality(H) = 1
    BY <2>2, FS_Singleton
  <2> QED
    BY <2>3 DEF H
<1> QED
  BY <1>2, <1>3

\* With every PV attached none is missing, and with one hole none is too good.
LEMMA ActivateAllocates ==
  ASSUME SInv, AInv, Attached, Activate
  PROVE  AInv'
<1>1. up = "down" /\ up' = "recover" /\ UNCHANGED req
  BY DEF Activate
<1>2. MaxCrashes # 0
  BY <1>1 DEF AInv
<1>3. NPV <= 2 /\ \A x \in Ltg : \A m, n \in Mirror \ MirrorsOf(x) : m = n
  BY <1>2 DEF Attached
<1>4. \A p : ~TooGood(stale, p)
  BY <1>3, NotTooGood
<1>5. PICK Q \in SUBSET PV : 2 * Cardinality(Q) > NPV /\ \E bad, k :
         /\ missing' = PV \ Q /\ Initial(k, c.clock)
         /\ k.panic = \E p \in (PV \ missing) \ ((Q \ missing) \ bad) : TooGood(stale, p)
         /\ (c' = k \/ c' = CacheUpdate(k))
  BY ActivateFields, ZenonT(60)
<1>6. PICK bad, k :
         /\ missing' = PV \ Q /\ Initial(k, c.clock)
         /\ k.panic = \E p \in (PV \ missing) \ ((Q \ missing) \ bad) : TooGood(stale, p)
         /\ (c' = k \/ c' = CacheUpdate(k))
  BY <1>5
<1>7. missing' = {}
  BY <1>3, <1>5, AllAttached
<1>8. ~k.panic /\ k.clean = None
  BY <1>4, <1>6 DEF Initial
<1>9. AOK(k)
  BY <1>6, <1>8, FreshAllocates
<1>10. AOK(c') /\ c'.clean = None
  <2>1. CASE c' = k
    BY <1>8, <1>9, <2>1
  <2>2. CASE c' = CacheUpdate(k)
    <3>1. k \in Cache /\ IsInjective(k.writeq)
      BY <1>6 DEF Initial, CacheOK
    <3>2. Updated(c', k)
      BY <2>2, <3>1, UpdateFields
    <3>3. SameEntries(c', k) /\ c'.panic = k.panic /\ c'.clean = k.clean
      BY <3>2 DEF Updated
    <3> QED
      BY <1>8, <1>9, <3>3, AllocFrame DEF SameEntries, Hashed
  <2> QED
    BY <1>6, <2>1, <2>2
<1> QED
  BY <1>2, <1>7, <1>10 DEF AInv

\* No panic in the initial states.
LEMMA InitAllocates ==
  ASSUME Init
  PROVE  AInv
<1>1. c = CacheInit(0) /\ missing = {} /\ up = "up"
  BY DEF Init
<1>2. Initial(c, 0) /\ ~c.panic
  BY <1>1, PlainInitial
<1>3. AOK(c) /\ c.clean = None
  BY <1>2, FreshAllocates DEF Initial
<1> QED
  BY <1>1, <1>3 DEF AInv

\* Every step keeps AInv.
LEMMA AllocatesStep ==
  ASSUME SInv, RInv, AInv, ~MayLose, Placed, Attached, [Next]_vars
  PROVE  AInv'
<1>1. CASE UNCHANGED vars
  BY <1>1 DEF vars, vgsa, AInv
<1>2. ASSUME NEW r \in Req, MwcDone(r) PROVE AInv'
  BY <1>2, DoneAllocates
<1>3. ASSUME NEW r \in Req, NEW x \in Ltg, Mwcm(r, x) PROVE AInv'
  BY <1>3, MwcmAllocates
<1>4. CASE MwcmStart \/ DoneStart \/ Activated
  BY <1>4, StartedAllocates
<1>5. CASE RecordDone
  BY <1>5, TakenAllocates
<1>6. CASE RecordDoneNext
  BY <1>6, NextEntryAllocates
<1>7. CASE CacheWait
  BY <1>7, WaitAllocates
<1>8. ASSUME NEW l \in Lv, Clean(l) PROVE AInv'
  BY <1>8, CleanAllocates
<1>9. ASSUME NEW p \in PV, GoMissing(p) \/ Attach(p) PROVE AInv'
  BY <1>9, MissingAllocates
<1>10. CASE Crash
  BY <1>10, CrashAllocates
<1>11. CASE Activate
  BY <1>11, ActivateAllocates
<1>12. ASSUME NEW x \in Ltg, RecoverLtg(x) PROVE AInv'
  BY <1>12 DEF RecoverLtg, AInv
<1> QED
  BY <1>1, <1>2, <1>3, <1>4, <1>5, <1>6, <1>7, <1>8, <1>9, <1>10, <1>11, <1>12 DEF Next

\* None of the panics of lv_mircons.c is reached: an entry that lv_cache_new takes is not
\* in use and is on the chain if it has a name, those that are scrubbed have no
\* requests, the record does not change while it is written, and a request that returns
\* has an entry.
THEOREM NeverPanics == Spec /\ ~MayLose /\ Placed /\ Attached => []NoPanic
<1> SUFFICES ASSUME ~MayLose, Placed, Attached PROVE Spec => []NoPanic
  OBVIOUS
<1>1. Init => SInv /\ RInv /\ AInv
  BY InitStructure, InitRecords, InitAllocates
<1>2. SInv /\ RInv /\ AInv /\ [Next]_vars => SInv' /\ RInv' /\ AInv'
  BY StructureStep, RecordsStep, AllocatesStep
<1>3. AInv => NoPanic
  BY DEF AInv, AOK, NoPanic
<1> QED
  BY <1>1, <1>2, <1>3, PTL DEF Spec

\* What the counts come to.
LEMMA ExactCounts ==
  ASSUME SInv, AInv
  PROVE  FreeExact
<1>1. /\ c \in Cache /\ ReqOK(req) /\ c.done = {} /\ Struct(c, req, Counted(c, req, {}))
  BY DEF SInv, CacheOK, AInv, AOK
<1>2. c.free = Cardinality({e \in Entry : c.ent[e].iocnt = 0})
  BY <1>1 DEF Struct
<1>3. ASSUME NEW e \in Entry
      PROVE  c.ent[e].iocnt = Cardinality({r \in Req : /\ req[r].ltg = c.ent[e].ltg /\ req[r].at # "idle"
                                                       /\ r \notin ToSet(c.wait)})
  <2> DEFINE W == {r \in Req : /\ req[r].ltg = c.ent[e].ltg /\ req[r].at # "idle"
                               /\ r \notin ToSet(c.wait)}
  <2>1. W = UsersOf(Counted(c, req, {}), req, c.ent[e].ltg)
    BY <1>1 DEF UsersOf, Counted, Active
  <2>2. CASE e \in Hashed(c)
    BY <1>1, <2>1, <2>2 DEF Struct
  <2>3. CASE e \notin Hashed(c)
    <3>1. c.ent[e].iocnt = 0 /\ c.ent[e].ltg = None
      BY <1>1, <2>3 DEF Struct, AInv, AOK
    <3>2. W = {}
      BY <1>1, <3>1, Consts DEF ReqOK, Active
    <3> QED
      BY <3>1, <3>2, FS_EmptySet
  <2> QED
    BY <2>2, <2>3
<1> QED
  BY <1>2, <1>3 DEF FreeExact

\* ca_free is the number of the entries that lv_cache_new may take, and ca_iocnt the
\* number of an entry's requests.
THEOREM CountsExact == Spec /\ ~MayLose /\ Placed /\ Attached => []FreeExact
<1> SUFFICES ASSUME ~MayLose, Placed, Attached PROVE Spec => []FreeExact
  OBVIOUS
<1>1. Init => SInv /\ RInv /\ AInv
  BY InitStructure, InitRecords, InitAllocates
<1>2. SInv /\ RInv /\ AInv /\ [Next]_vars => SInv' /\ RInv' /\ AInv'
  BY StructureStep, RecordsStep, AllocatesStep
<1>3. SInv /\ AInv => FreeExact
  BY ExactCounts
<1> QED
  BY <1>1, <1>2, <1>3, PTL DEF Spec

-----------------------------------------------------------------------------
(* Nobody waits for nothing.                                               *)

\* Whatever takes no request off the queues of PVs, and leaves the entries that need a
\* record alone.
LEMMA NokFrame ==
  ASSUME NEW k, CacheOK(k), NEW q, NEW L, NOK(k, q, L), NEW n, n \in Cache, NEW o,
         Hashed(n) \subseteq Hashed(k), n.pvwait = k.pvwait, n.inflight = k.inflight,
         \A e \in Hashed(n) : /\ n.ent[e].ltg = k.ent[e].ltg /\ n.ent[e].state = k.ent[e].state
                              /\ n.ent[e].pvol = k.ent[e].pvol,
         ToSet(k.writeq) \subseteq ToSet(n.writeq),
         \A r \in ToSet(L) : o[r].ltg = q[r].ltg,
         \A p \in PV : \A r \in ToSet(k.pvwait[p]) : o[r].ltg = q[r].ltg
  PROVE  NOK(n, o, L)
<1>1. k \in Cache /\ Hashed(k) \subseteq Entry
  BY ChainSet DEF CacheOK
<1>2. ASSUME NEW e \in Hashed(n), n.ent[e].state = {CHANGING} PROVE Sought(n, o, L, e)
  <2>1. /\ e \in Hashed(k) /\ e \in Entry /\ k.ent[e].state = {CHANGING}
        /\ n.ent[e].ltg = k.ent[e].ltg /\ n.ent[e].pvol = k.ent[e].pvol
    BY <1>1, <1>2
  <2>2. k.ent[e].pvol \in PV
    BY <2>1 DEF CacheOK
  <2>3. PICK r \in ToSet(k.pvwait[k.ent[e].pvol]) \cup ToSet(L) : q[r].ltg = k.ent[e].ltg
    BY <2>1 DEF NOK, Sought
  <2>4. r \in ToSet(n.pvwait[n.ent[e].pvol]) \cup ToSet(L) /\ o[r].ltg = n.ent[e].ltg
    BY <2>1, <2>2, <2>3
  <2> QED
    BY <2>4 DEF Sought
<1>3. ASSUME NEW p \in PV, n.pvwait[p] # <<>> PROVE n.inflight = p \/ Queued(n, p)
  <2>1. k.inflight = p \/ Queued(k, p)
    BY <1>3 DEF NOK
  <2> QED
    BY <1>1, <2>1, QueuedSet
<1> QED
  BY <1>2, <1>3 DEF NOK

\* A hit on an entry that waits for a record waits with it.
LEMMA HitWaits ==
  ASSUME NEW k, CacheOK(k), NEW q, NEW U \in SUBSET Req, Struct(k, q, U), NOK(k, q, <<>>), Short(k),
         NEW r \in Req, NEW e \in Hashed(k), k.ent[e].ltg = q[r].ltg, NEW n, HitOf(n, k, e, r)
  PROVE  NOK(n, q, <<>>) /\ Short(n)
<1>1. /\ k \in Cache /\ Hashed(k) \subseteq Entry /\ e \in Entry
      /\ k.ent \in [Entry -> EntryT] /\ k.pvwait \in [PV -> Seq(Req)] /\ ToSet(<<>>) = {}
  BY ChainSet, EmptySet DEF CacheOK
<1>2. /\ n.ent = [k.ent EXCEPT ![e].iocnt = k.ent[e].iocnt + 1] /\ n \in Cache
      /\ n.free = (IF k.ent[e].iocnt = 0 THEN k.free - 1 ELSE k.free)
      /\ n.pvwait = IF k.ent[e].state = {CHANGING}
                    THEN [k.pvwait EXCEPT ![k.ent[e].pvol] = Append(@, r)] ELSE k.pvwait
      /\ n.chain = k.chain /\ n.wait = k.wait /\ n.writeq = k.writeq /\ n.inflight = k.inflight
  BY DEF HitOf
<1>3. \A d \in Entry : /\ n.ent[d].ltg = k.ent[d].ltg /\ n.ent[d].state = k.ent[d].state
                       /\ n.ent[d].pvol = k.ent[d].pvol
  <2>1. k.ent[e].iocnt + 1 \in Int
    <3>1. k.ent[e].iocnt \in Int
      BY <1>1, EntryField
    <3> QED
      BY <3>1
  <2>2. LET f == [k.ent EXCEPT ![e].iocnt = k.ent[e].iocnt + 1] IN
        /\ f[e].ltg = k.ent[e].ltg /\ f[e].state = k.ent[e].state /\ f[e].pvol = k.ent[e].pvol
        /\ \A d \in Entry : d # e => f[d] = k.ent[d]
    BY <1>1, <2>1, CountChange
  <2> QED
    BY <1>2, <2>2
<1>4. Hashed(n) = Hashed(k) /\ \A p : Queued(n, p) <=> Queued(k, p)
  BY <1>2 DEF Hashed, Queued
<1>5. Short(n)
  <2>1. k.free = Cardinality(IdleOf(k.ent))
    BY DEF Struct, IdleOf
  <2>2. k.ent[e].iocnt = 0 => IdleOf(k.ent) # {}
    BY <1>1 DEF IdleOf
  <2>3. k.ent[e].iocnt # 0 \/ k.free # 0
    BY <2>1, <2>2, IdleFinite
  <2> QED
    BY <1>2, <2>3 DEF Short
<1>6. CASE k.ent[e].state = {CHANGING}
  <2> DEFINE p == k.ent[e].pvol
  <2>1. p \in PV /\ k.pvwait[p] \in Seq(Req)
    BY <1>1, <1>6 DEF CacheOK
  <2>2. PICK b \in ToSet(k.pvwait[p]) : TRUE
    BY <1>1, <1>6 DEF NOK, Sought
  <2>3. k.pvwait[p] # <<>>
    BY <2>2, <1>1
  <2>4. k.inflight = p \/ Queued(k, p)
    BY <2>1, <2>3 DEF NOK
  <2> HIDE DEF p
  <2>5. n.pvwait[p] = Append(k.pvwait[p], r) /\ \A o \in PV : o # p => n.pvwait[o] = k.pvwait[o]
    BY <1>1, <1>2, <1>6, <2>1 DEF p
  <2>6. ToSet(n.pvwait[p]) = ToSet(k.pvwait[p]) \cup {r}
    BY <2>1, <2>5, AppendSet
  <2>7. \A o \in PV : ToSet(k.pvwait[o]) \subseteq ToSet(n.pvwait[o])
    BY <2>5, <2>6
  <2>8. ASSUME NEW d \in Hashed(n), n.ent[d].state = {CHANGING} PROVE Sought(n, q, <<>>, d)
    <3>1. /\ d \in Hashed(k) /\ d \in Entry /\ k.ent[d].state = {CHANGING}
          /\ n.ent[d].ltg = k.ent[d].ltg /\ n.ent[d].pvol = k.ent[d].pvol
      BY <1>1, <1>3, <1>4, <2>8
    <3>2. k.ent[d].pvol \in PV
      BY <3>1 DEF CacheOK
    <3>3. PICK a \in ToSet(k.pvwait[k.ent[d].pvol]) \cup ToSet(<<>>) : q[a].ltg = k.ent[d].ltg
      BY <3>1 DEF NOK, Sought
    <3>4. a \in ToSet(n.pvwait[n.ent[d].pvol]) \cup ToSet(<<>>) /\ q[a].ltg = n.ent[d].ltg
      BY <2>7, <3>1, <3>2, <3>3
    <3> QED
      BY <3>4 DEF Sought
  <2>9. \A o \in PV : n.pvwait[o] # <<>> => n.inflight = o \/ Queued(n, o)
    <3>1. SUFFICES ASSUME NEW o \in PV, n.pvwait[o] # <<>> PROVE k.inflight = o \/ Queued(k, o)
      BY <1>2, <1>4
    <3> QED
      BY <2>4, <2>5, <3>1 DEF NOK
  <2> QED
    <3>1. NOK(n, q, <<>>)
      BY <2>8, <2>9 DEF NOK
    <3> QED
      BY <1>5, <3>1
<1>7. CASE k.ent[e].state # {CHANGING}
  <2>1. n.pvwait = k.pvwait /\ \A d \in Hashed(n) : d \in Entry
    BY <1>1, <1>2, <1>4, <1>7
  <2>2. /\ Hashed(n) \subseteq Hashed(k) /\ n \in Cache /\ ToSet(k.writeq) \subseteq ToSet(n.writeq)
        /\ n.inflight = k.inflight
        /\ \A d \in Hashed(n) : /\ n.ent[d].ltg = k.ent[d].ltg /\ n.ent[d].state = k.ent[d].state
                                /\ n.ent[d].pvol = k.ent[d].pvol
    BY <1>2, <1>3, <1>4, <2>1
  <2>3. NOK(n, q, <<>>)
    BY <2>1, <2>2, NokFrame
  <2> QED
    BY <1>5, <2>3
<1> QED
  BY <1>6, <1>7

\* A new entry waits with its request, on a PV that is queued.
LEMMA NewEntryWaits ==
  ASSUME NEW k, CacheOK(k), NEW q, NOK(k, q, <<>>), Short(k), k.inflight = NoPv, k.free > 0,
         NEW r \in Req, NEW e \in Entry, NEW p \in PV, NEW n, NewEntryOf(n, k, e, r, q[r].ltg, p)
  PROVE  NOK(n, q, <<>>) /\ Short(n)
<1>1. /\ k \in Cache /\ Hashed(k) \subseteq Entry /\ k.pvwait \in [PV -> Seq(Req)]
      /\ ToSet(<<>>) = {} /\ k.free \in Nat /\ k.writeq \in Seq(PV)
  BY ChainSet, EmptySet DEF CacheOK
<1>2. /\ n \in Cache /\ Hashed(n) = Hashed(k) \cup {e} /\ n.ent[e].ltg = q[r].ltg /\ n.ent[e].pvol = p
      /\ \A d \in Entry : d # e => n.ent[d] = k.ent[d]
      /\ n.pvwait = [k.pvwait EXCEPT ![p] = Append(@, r)]
      /\ n.writeq = (IF Queued(k, p) THEN k.writeq ELSE Append(k.writeq, p))
      /\ n.wait = k.wait /\ n.inflight = NoPv
  BY DEF NewEntryOf
<1>3. /\ ToSet(n.pvwait[p]) = ToSet(k.pvwait[p]) \cup {r}
      /\ \A o \in PV : o # p => n.pvwait[o] = k.pvwait[o]
  <2>1. n.pvwait[p] = Append(k.pvwait[p], r) /\ k.pvwait[p] \in Seq(Req)
    BY <1>1, <1>2
  <2> QED
    BY <1>1, <1>2, <2>1, AppendSet
<1>4. ToSet(n.writeq) = ToSet(k.writeq) \cup {p}
  <2>1. Queued(k, p) => p \in ToSet(k.writeq)
    BY <1>1, QueuedSet
  <2>2. ToSet(Append(k.writeq, p)) = ToSet(k.writeq) \cup {p}
    BY <1>1, AppendSet
  <2> QED
    BY <1>2, <2>1, <2>2
<1>5. \A o \in PV : ToSet(k.pvwait[o]) \subseteq ToSet(n.pvwait[o])
  BY <1>3
<1>6. ASSUME NEW d \in Hashed(n), n.ent[d].state = {CHANGING} PROVE Sought(n, q, <<>>, d)
  <2>1. CASE d = e
    BY <1>2, <1>3, <2>1 DEF Sought
  <2>2. CASE d # e
    <3>1. d \in Hashed(k) /\ d \in Entry /\ n.ent[d] = k.ent[d] /\ k.ent[d].state = {CHANGING}
      BY <1>1, <1>2, <1>6, <2>2
    <3>2. k.ent[d].pvol \in PV
      BY <3>1 DEF CacheOK
    <3>3. PICK a \in ToSet(k.pvwait[k.ent[d].pvol]) \cup ToSet(<<>>) : q[a].ltg = k.ent[d].ltg
      BY <3>1 DEF NOK, Sought
    <3>4. a \in ToSet(n.pvwait[n.ent[d].pvol]) \cup ToSet(<<>>) /\ q[a].ltg = n.ent[d].ltg
      BY <1>5, <3>1, <3>2, <3>3
    <3> QED
      BY <3>4 DEF Sought
  <2> QED
    BY <2>1, <2>2
<1>7. ASSUME NEW o \in PV, n.pvwait[o] # <<>> PROVE Queued(n, o)
  <2>1. o \in ToSet(n.writeq)
    <3>1. CASE o = p
      BY <1>4, <3>1
    <3>2. CASE o # p
      <4>1. k.inflight = o \/ Queued(k, o)
        BY <1>3, <1>7, <3>2 DEF NOK
      <4>2. k.inflight # o
        BY Consts
      <4>3. o \in ToSet(k.writeq)
        BY <1>1, <4>1, <4>2, QueuedSet
      <4> QED
        BY <1>4, <4>3
    <3> QED
      BY <3>1, <3>2
  <2> QED
    BY <1>2, <2>1, QueuedSet
<1>8. Short(n)
  <2>1. k.wait = <<>>
    BY <1>1 DEF Short
  <2> QED
    BY <1>2, <2>1 DEF Short
<1> QED
  BY <1>6, <1>7, <1>8 DEF NOK

\* lv_checkcache: a request that waits for an entry waits for a write, or for one of the
\* requests that have all of them.
LEMMA CheckWaits ==
  ASSUME NEW k, CacheOK(k), AOK(k), NEW q, NEW U \in SUBSET Req, Struct(k, q, U),
         Placed, missing \subseteq MayMiss, NEW r \in Req, q[r].ltg \in Ltg,
         NOK(k, q, <<>>), Short(k)
  PROVE  NOK(CheckCache(k, r, q[r].ltg), q, <<>>) /\ Short(CheckCache(k, r, q[r].ltg))
<1> DEFINE n == CheckCache(k, r, q[r].ltg)
<1> HIDE DEF n
<1> SUFFICES NOK(n, q, <<>>) /\ Short(n)
  BY DEF n
<1>1. ASSUME NEW e \in Hashed(k), k.ent[e].ltg = q[r].ltg, HitOf(n, k, e, r)
      PROVE  NOK(n, q, <<>>) /\ Short(n)
  BY <1>1, HitWaits
<1>2. ASSUME k.inflight = NoPv, k.free > 0,
             NEW e \in Entry, NEW p \in PV, NewEntryOf(n, k, e, r, q[r].ltg, p)
      PROVE  NOK(n, q, <<>>) /\ Short(n)
  BY <1>2, NewEntryWaits
<1>3. CASE ~(k.inflight = NoPv /\ k.free > 0) /\ n = Waiting(k, r)
  <2>1. /\ n.ent = k.ent /\ n.chain = k.chain /\ n.pvwait = k.pvwait /\ n.inflight = k.inflight
        /\ n.writeq = k.writeq /\ n.free = k.free /\ n \in Cache
    <3>1. k \in Cache /\ k.wait \in Seq(Req)
      BY ChainSet DEF CacheOK
    <3>2. Append(k.wait, r) \in Seq(Req)
      BY <3>1, AppendSet
    <3> QED
      BY <1>3, <3>1, <3>2 DEF Waiting, Cache
  <2>2. Hashed(n) = Hashed(k)
    BY <2>1 DEF Hashed
  <2>3. NOK(n, q, <<>>)
    BY <2>1, <2>2, NokFrame
  <2>4. Short(n)
    <3>1. k.free \in Nat
      BY DEF CacheOK
    <3> QED
      BY <1>3, <2>1, <3>1 DEF Short
  <2> QED
    BY <2>3, <2>4
<1>4. \/ \E e \in Hashed(k) : k.ent[e].ltg = q[r].ltg /\ HitOf(n, k, e, r)
      \/ k.inflight = NoPv /\ k.free > 0 /\ \E e \in Entry, p \in PV : NewEntryOf(n, k, e, r, q[r].ltg, p)
      \/ ~(k.inflight = NoPv /\ k.free > 0) /\ n = Waiting(k, r)
  BY CheckGoes DEF n
<1> QED
  BY <1>1, <1>2, <1>3, <1>4

\* With one processor nothing is left on the list of lv_mwc_cache_done while the thread
\* runs.
LEMMA ThreadAlone ==
  ASSUME SInv, ~MP, ThreadRuns
  PROVE  intr = "idle" /\ list = <<>> /\ up = "up" /\ ~c.panic
<1> QED
  BY DEF SInv, StateOK, ThreadRuns, Running

\* sched_Q and done_Q are passed on.
LEMMA SettleWaits ==
  ASSUME NEW n, NEW q, ReqOK(q), NEW L, AgainOK(n, q, {}, L), ~n.panic, n.done = {}, NOK(n, q, L)
  PROVE  NOK(Settled(n), Passed(n, q), L) /\ (Short(n) => Short(Settled(n)))
<1>1. n \in Cache /\ CacheOK(n) /\ n.go \cup n.done \subseteq Held(q) /\ Waits(n, q, {}, L)
  BY DEF AgainOK, CacheOK
<1> DEFINE k == Settled(n)
           o == Passed(n, q)
<1>2. /\ k \in Cache /\ SameEntries(k, n) /\ SameRecord(k, n) /\ k.wait = n.wait
      /\ k.pvwait = n.pvwait /\ k.writeq = n.writeq
  BY <1>1, SettledFields
<1>3. \A r \in Req : o[r].ltg = q[r].ltg
  BY <1>1, PassedRequests
<1> HIDE DEF k, o
<1>4. Hashed(k) = Hashed(n) /\ k.ent = n.ent /\ k.inflight = n.inflight /\ k.free = n.free
  BY <1>2 DEF SameEntries, SameRecord, Hashed
<1>5. \A r \in ToSet(L) : o[r].ltg = q[r].ltg
  BY <1>1, <1>3 DEF Waits, Held
<1>6. \A p \in PV : \A r \in ToSet(n.pvwait[p]) : o[r].ltg = q[r].ltg
  BY <1>1, <1>3 DEF Waits, Held
<1>7. NOK(k, o, L)
  BY <1>1, <1>2, <1>4, <1>5, <1>6, NokFrame
<1>8. Short(n) => Short(k)
  BY <1>2, <1>4 DEF Short
<1> QED
  BY <1>7, <1>8 DEF k, o

\* A new request that waits has something to wait for.
LEMMA MwcmWaits ==
  ASSUME SInv, AInv, NInv, Placed, ~MP, NEW r \in Req, NEW x \in Ltg, Mwcm(r, x)
  PROVE  NInv'
<1> DEFINE q == Asked(req, r, x)
           n == CheckCache(c, r, x)
<1>1. /\ req[r].at = "idle" /\ intr = "idle" /\ list = <<>> /\ up = "up" /\ ~c.panic
  BY ThreadAlone DEF Mwcm
<1>2. /\ ReqOK(req) /\ CacheOK(c) /\ c \in Cache /\ c.done = {} /\ AOK(c) /\ missing \subseteq MayMiss
      /\ Struct(c, req, Counted(c, req, {})) /\ Waits(c, req, {}, list)
  BY <1>1 DEF SInv, AInv, CacheOK
<1>3. c' = Settled(n) /\ req' = Passed(n, q) /\ UNCHANGED <<up, intr, list>> /\ thr' = "start"
  BY DEF Mwcm, Settle, Settled, Passed, Asked
<1>4. /\ ReqOK(q) /\ q[r].ltg = x /\ \A o \in Req : o # r => q[o] = req[o]
  BY <1>1, <1>2, NewRequest
<1>5. /\ AgainOK(n, q, {}, list) /\ AgainOK(c, q, {r}, list)
      /\ Counted(c, q, {r}) = Counted(c, req, {})
  BY <1>1, MwcmAgain
<1>6. Counted(c, req, {}) \in SUBSET Req
  BY DEF Counted, Active
<1>7. AOK(n) /\ n.done = {}
  BY <1>2, <1>6, CheckAllocates
<1>8. Struct(c, q, Counted(c, req, {}))
  BY <1>1, <1>5 DEF AgainOK
<1> HIDE DEF q
<1>9. NOK(c, q, <<>>) /\ Short(c)
  <2>1. NOK(c, req, <<>>) /\ Short(c)
    BY <1>1 DEF NInv
  <2>2. \A p \in PV : \A o \in ToSet(c.pvwait[p]) : q[o].ltg = req[o].ltg
    <3>1. \A p \in PV : ToSet(c.pvwait[p]) \subseteq Held(req)
      BY <1>2 DEF Waits
    <3>2. r \notin Held(req) /\ Held(req) \subseteq Req
      BY <1>1 DEF Held
    <3> QED
      BY <1>4, <3>1, <3>2
  <2>3. ToSet(<<>>) = {} /\ Hashed(c) \subseteq Hashed(c) /\ ToSet(c.writeq) \subseteq ToSet(c.writeq)
    BY EmptySet
  <2>4. NOK(c, q, <<>>)
    BY <1>2, <2>1, <2>2, <2>3, NokFrame
  <2> QED
    BY <2>1, <2>4
<1>10. NOK(CheckCache(c, r, q[r].ltg), q, <<>>) /\ Short(CheckCache(c, r, q[r].ltg))
  BY <1>2, <1>4, <1>6, <1>8, <1>9, CheckWaits
<1>11. NOK(n, q, <<>>) /\ Short(n)
  BY <1>4, <1>10
<1> HIDE DEF n
<1>12. NOK(Settled(n), Passed(n, q), <<>>) /\ Short(Settled(n))
  BY <1>1, <1>4, <1>5, <1>7, <1>11, SettleWaits DEF AOK
<1> QED
  BY <1>1, <1>3, <1>12 DEF NInv

\* lv_mwc_done: where an entry becomes free, those that wait for one are looked at next.
LEMMA DoneWaits ==
  ASSUME SInv, NInv, ~MayLose, NEW r \in Req, MwcDone(r)
  PROVE  NInv'
<1> DEFINE e == Search(c, req[r].ltg)
<1>1. /\ ~c.panic /\ up = "up" /\ intr = "idle" /\ req[r].at = "below" /\ e \in Entry
      /\ ReleaseOf(c', c, e) /\ req' = Dropped(req, r)
      /\ intr' = (IF c'.free > c.free THEN "wait" ELSE "start")
  BY DoneFields
<1>2. /\ ReqOK(req) /\ c \in Cache /\ CacheOK(c) /\ Hashed(c) \subseteq Entry /\ list = <<>>
      /\ Waits(c, req, {}, list) /\ c.free \in Int
  <2>1. ReqOK(req) /\ CacheOK(c) /\ Waits(c, req, {}, list)
    BY <1>1 DEF SInv
  <2>2. list = <<>>
    BY <1>1 DEF SInv, StateOK
  <2>3. c \in Cache
    BY <2>1 DEF CacheOK
  <2>4. c.free \in Int
    BY <2>3 DEF Cache
  <2>5. Hashed(c) \subseteq Entry
    BY <2>3, ChainSet
  <2> QED
    BY <2>1, <2>2, <2>3, <2>4, <2>5
<1>3. \A o \in Req : o # r => req'[o] = req[o]
  BY <1>1, <1>2, DropRequest
<1>4. UNCHANGED <<up, list>>
  BY DEF MwcDone
<1> HIDE DEF e
<1>5. /\ c' \in Cache /\ c'.pvwait = c.pvwait /\ c'.wait = c.wait /\ c'.inflight = c.inflight
      /\ c'.writeq = c.writeq /\ Hashed(c') = Hashed(c)
      /\ c'.free = (IF c.ent[e].iocnt = 1 THEN c.free + 1 ELSE c.free)
  BY <1>1 DEF ReleaseOf, SameQueues, SameRecord, Hashed
<1>6. \A d \in Hashed(c') : /\ c'.ent[d].ltg = c.ent[d].ltg /\ c'.ent[d].state = c.ent[d].state
                            /\ c'.ent[d].pvol = c.ent[d].pvol
  BY <1>1, <1>2, <1>5 DEF ReleaseOf
<1>7. \A p \in PV : \A o \in ToSet(c.pvwait[p]) : req'[o].ltg = req[o].ltg
  <2>1. \A p \in PV : ToSet(c.pvwait[p]) \subseteq Held(req)
    BY <1>2 DEF Waits
  <2>2. r \notin Held(req) /\ Held(req) \subseteq Req
    BY <1>1 DEF Held
  <2> QED
    BY <1>3, <2>1, <2>2
<1>8. NOK(c', req', <<>>)
  <2>1. NOK(c, req, <<>>) /\ ToSet(<<>>) = {}
    BY <1>2, EmptySet DEF NInv
  <2>2. Hashed(c') \subseteq Hashed(c) /\ ToSet(c.writeq) \subseteq ToSet(c'.writeq)
    BY <1>5
  <2> QED
    BY <1>2, <1>5, <1>6, <1>7, <2>1, <2>2, NokFrame
<1>9. intr' = "start" => Short(c')
  <2>1. intr' = "start" => c'.free = c.free
    BY <1>1, <1>2, <1>5
  <2>2. Short(c)
    BY <1>1 DEF NInv
  <2> QED
    BY <1>5, <2>1, <2>2 DEF Short
<1> QED
  BY <1>1, <1>2, <1>4, <1>8, <1>9 DEF NInv

\* lv_cache_start: the PV whose record is written was queued.
LEMMA StartWaits ==
  ASSUME NEW k, CacheOK(k), NEW q, NEW L, NOK(k, q, L)
  PROVE  LET n == CacheStart(k) IN
         /\ NOK(n, q, L) /\ (Short(k) => Short(n)) /\ (n.writeq # <<>> => n.inflight # NoPv)
<1> DEFINE n == CacheStart(k)
<1>1. k \in Cache /\ k.writeq \in Seq(PV) /\ Hashed(k) \subseteq Entry /\ NoPv \notin PV
  BY ChainSet, Consts DEF CacheOK
<1>2. /\ n \in Cache /\ SameEntries(n, k) /\ SameQueues(n, k)
      /\ (n = k /\ (k.inflight # NoPv \/ k.writeq = <<>>)) \/ Started(n, k)
  BY <1>1, StartFields
<1> HIDE DEF n
<1> SUFFICES NOK(n, q, L) /\ (Short(k) => Short(n)) /\ (n.writeq # <<>> => n.inflight # NoPv)
  BY DEF n
<1>3. CASE n = k /\ (k.inflight # NoPv \/ k.writeq = <<>>)
  BY <1>3
<1>4. CASE Started(n, k)
  <2>1. /\ k.inflight = NoPv /\ n.inflight = Head(k.writeq) /\ n.writeq = Tail(k.writeq)
        /\ k.writeq # <<>>
    BY <1>4 DEF Started
  <2>2. /\ Head(k.writeq) \in PV /\ ToSet(k.writeq) = ToSet(n.writeq) \cup {n.inflight}
    BY <1>1, <2>1, TailSet
  <2>3. n.ent = k.ent /\ n.pvwait = k.pvwait /\ Hashed(n) = Hashed(k)
    BY <1>2 DEF SameEntries, SameQueues, Hashed
  <2>4. ASSUME NEW p \in PV, n.pvwait[p] # <<>> PROVE n.inflight = p \/ Queued(n, p)
    <3>1. k.inflight = p \/ Queued(k, p)
      BY <2>3, <2>4 DEF NOK
    <3>2. p \in ToSet(k.writeq)
      BY <1>1, <2>1, <3>1, QueuedSet
    <3>3. p \in ToSet(n.writeq) \/ p = n.inflight
      BY <2>2, <3>2
    <3> QED
      BY <1>2, <3>3, QueuedSet
  <2>5. NOK(n, q, L)
    BY <2>3, <2>4 DEF NOK, Sought
  <2>6. n.inflight # NoPv
    BY <1>1, <2>1, <2>2
  <2> QED
    BY <2>5, <2>6 DEF Short
<1> QED
  BY <1>2, <1>3, <1>4

\* When a write starts, the PV is the first in line.
LEMMA StartedWaits ==
  ASSUME SInv, NInv, ~MP, MwcmStart \/ DoneStart \/ Activated
  PROVE  NInv'
<1>1. /\ c' = CacheStart(c) /\ req' = req /\ list' = list /\ up' = "up" /\ CacheOK(c)
      /\ (up = "up" => intr \in {"idle", "start"})
      /\ (up # "up" => c.wait = <<>>)
  BY MirconsAssumption DEF MwcmStart, DoneStart, Activated, ThreadRuns, Running, SInv, NInv
<1>2. NOK(c, req, list) /\ Short(c)
  BY <1>1 DEF NInv, Short
<1>3. /\ NOK(c', req, list) /\ Short(c') /\ (c'.writeq # <<>> => c'.inflight # NoPv)
  BY <1>1, <1>2, StartWaits
<1> QED
  BY <1>1, <1>3 DEF NInv

\* lv_mwc_cache_done, as far as the list is taken: who waited for the record is on it.
LEMMA TakenWaits ==
  ASSUME SInv, NInv, RecordDone
  PROVE  NInv'
<1> DEFINE p == c.inflight
           k == Taken(c)
           s == ScrubFor(k, c.clean)
<1>1. /\ ~c.panic /\ up = "up" /\ p \in PV /\ list = <<>> /\ TakenOf(k, c)
      /\ ScrubOf(s, k, req, Counted(c, req, {}))
      /\ WriteEnd(c', s) /\ list' = c.pvwait[p] /\ req' = req
      /\ intr' = (IF c.pvwait[p] = <<>> THEN "wait" ELSE "list")
  BY RecordDoneFields
<1>2. /\ c \in Cache /\ CacheOK(c) /\ Hashed(c) \subseteq Entry /\ NoPv \notin PV
      /\ c.pvwait \in [PV -> Seq(Req)] /\ ToSet(<<>>) = {}
  BY ChainSet, Consts, EmptySet DEF SInv, CacheOK
<1>3. NOK(c, req, <<>>)
  BY <1>1 DEF NInv
<1>4. up' = "up"
  BY <1>1 DEF RecordDone
<1> HIDE DEF s
<1>5. /\ k \in Cache /\ k.ent = c.ent /\ Hashed(k) = Hashed(c) /\ k.inflight = NoPv
      /\ k.writeq = c.writeq /\ k.pvwait = [c.pvwait EXCEPT ![p] = <<>>]
  BY <1>1 DEF TakenOf, SameEntries, Hashed
<1> HIDE DEF k
<1>6. /\ s \in Cache /\ Hashed(s) \subseteq Hashed(c) /\ (\A e \in Hashed(s) : s.ent[e] = c.ent[e])
      /\ s.pvwait = k.pvwait /\ ToSet(c.writeq) \subseteq ToSet(s.writeq)
  BY <1>1, <1>5 DEF ScrubOf, SameQueues, CacheOK
<1>7. /\ c' \in Cache /\ c'.ent = s.ent /\ Hashed(c') = Hashed(s) /\ c'.pvwait = s.pvwait
      /\ c'.writeq = s.writeq
  BY <1>1 DEF WriteEnd, SameEntries, SameQueues, Hashed
<1> HIDE DEF p
<1>8. c'.pvwait[p] = <<>> /\ \A o \in PV : o # p => c'.pvwait[o] = c.pvwait[o]
  BY <1>1, <1>2, <1>5, <1>6, <1>7
<1>9. ASSUME NEW e \in Hashed(c'), c'.ent[e].state = {CHANGING} PROVE Sought(c', req, list', e)
  <2>1. e \in Hashed(c) /\ e \in Entry /\ c'.ent[e] = c.ent[e] /\ c.ent[e].state = {CHANGING}
    BY <1>2, <1>6, <1>7, <1>9
  <2>2. c.ent[e].pvol \in PV
    BY <1>2, <2>1 DEF CacheOK
  <2>3. PICK r \in ToSet(c.pvwait[c.ent[e].pvol]) \cup ToSet(<<>>) : req[r].ltg = c.ent[e].ltg
    BY <1>3, <2>1 DEF NOK, Sought
  <2>4. r \in ToSet(c'.pvwait[c'.ent[e].pvol]) \cup ToSet(list')
    BY <1>1, <1>2, <1>8, <2>1, <2>2, <2>3
  <2> QED
    BY <2>1, <2>3, <2>4 DEF Sought
<1>10. ASSUME NEW o \in PV, c'.pvwait[o] # <<>> PROVE Queued(c', o)
  <2>1. o # p /\ c.pvwait[o] # <<>>
    BY <1>8, <1>10
  <2>2. Queued(c, o)
    BY <1>3, <2>1 DEF NOK, p
  <2>3. o \in ToSet(c'.writeq)
    BY <1>2, <1>6, <1>7, <2>2, QueuedSet
  <2> QED
    BY <1>7, <2>3, QueuedSet
<1>11. NOK(c', req', list')
  BY <1>1, <1>9, <1>10 DEF NOK
<1>12. intr' \notin {"idle", "start"}
  BY <1>1
<1> QED
  BY <1>4, <1>11, <1>12 DEF NInv

\* The next request of the list goes on, with its entry, or waits again.
LEMMA ListWaits ==
  ASSUME NEW k, CacheOK(k), NEW q, NEW L \in Seq(Req), L # <<>>, NEW U, Struct(k, q, U), NOK(k, q, L),
         NEW e \in Hashed(k), k.ent[e].ltg = q[Head(L)].ltg, NEW n, n \in Cache,
         Hashed(n) = Hashed(k), \A d \in Hashed(k) : d # e => n.ent[d] = k.ent[d],
         \A o \in PV : ToSet(k.pvwait[o]) \subseteq ToSet(n.pvwait[o]),
         n.inflight = k.inflight, ToSet(k.writeq) \subseteq ToSet(n.writeq),
         n.ent[e].state = {CHANGING} => Sought(n, q, Tail(L), e),
         \A o \in PV : n.pvwait[o] # <<>> => k.pvwait[o] # <<>> \/ Queued(n, o)
  PROVE  NOK(n, q, Tail(L))
<1>1. /\ k \in Cache /\ Hashed(k) \subseteq Entry /\ ToSet(L) = ToSet(Tail(L)) \cup {Head(L)}
  BY ChainSet, TailSet DEF CacheOK
<1>2. ASSUME NEW d \in Hashed(k), d # e, n.ent[d].state = {CHANGING} PROVE Sought(n, q, Tail(L), d)
  <2>1. n.ent[d] = k.ent[d] /\ k.ent[d].state = {CHANGING} /\ d \in Entry
    BY <1>1, <1>2
  <2>2. k.ent[d].pvol \in PV
    BY <2>1 DEF CacheOK
  <2>3. PICK r \in ToSet(k.pvwait[k.ent[d].pvol]) \cup ToSet(L) : q[r].ltg = k.ent[d].ltg
    BY <1>2, <2>1 DEF NOK, Sought
  <2>4. k.ent[d].ltg # k.ent[e].ltg
    BY <1>2 DEF Struct
  <2>5. r # Head(L)
    BY <2>3, <2>4
  <2>6. r \in ToSet(n.pvwait[n.ent[d].pvol]) \cup ToSet(Tail(L)) /\ q[r].ltg = n.ent[d].ltg
    BY <1>1, <2>1, <2>2, <2>3, <2>5
  <2> QED
    BY <2>6 DEF Sought
<1>3. ASSUME NEW o \in PV, n.pvwait[o] # <<>> PROVE n.inflight = o \/ Queued(n, o)
  <2>1. CASE k.pvwait[o] # <<>>
    <3>1. k.inflight = o \/ o \in ToSet(k.writeq)
      BY <1>1, <2>1, QueuedSet DEF NOK
    <3> QED
      BY <3>1, QueuedSet
  <2> QED
    BY <1>3, <2>1
<1> QED
  BY <1>2, <1>3 DEF NOK

\* A request that is queued again stands for its entry, and a PV in line for it.
LEMMA NextEntryWaits ==
  ASSUME SInv, AInv, NInv, Placed, RecordDoneNext
  PROVE  NInv'
<1> DEFINE r == Head(list)
           x == req[r].ltg
           e == Search(c, x)
<1>1. /\ ~c.panic /\ up = "up" /\ list # <<>> /\ r \in Req /\ x \in Ltg
      /\ e \in Hashed(c) /\ e \in Entry /\ c.ent[e].ltg = x
      /\ list' = Tail(list) /\ intr' = (IF Tail(list) = <<>> THEN "wait" ELSE "list")
      /\ \/ ~err /\ c' = Settled(Recovered(c, e, r)) /\ req' = Passed(Recovered(c, e, r), req)
         \/ /\ err /\ NoPlace(c, x)
            /\ c' = Settled(GiveUp(c, e, r)) /\ req' = Passed(GiveUp(c, e, r), req)
         \/ /\ err /\ ~NoPlace(c, x)
            /\ c' = Settled(Queue(c, e, r, x)) /\ req' = Passed(Queue(c, e, r, x), req)
  BY NextFields
<1>2. /\ c \in Cache /\ CacheOK(c) /\ ReqOK(req) /\ list \in Seq(Req) /\ c.done = {}
      /\ Hashed(c) \subseteq Entry /\ Struct(c, req, Counted(c, req, {})) /\ c.panic = FALSE
  BY <1>1, ChainSet DEF SInv, CacheOK, StateOK, Cache
<1>3. NOK(c, req, list) /\ missing \subseteq MayMiss
  BY DEF NInv, AInv
<1>4. ~NoPlace(c, x)
  BY <1>1, <1>3, AlwaysPlace
<1>5. up' = "up"
  BY <1>1 DEF RecordDoneNext
<1> HIDE DEF x, e
<1>6. \E n : /\ AgainOK(n, req, {}, Tail(list)) /\ c' = Settled(n) /\ req' = Passed(n, req)
             /\ ~n.panic /\ n.done = {} /\ NOK(n, req, Tail(list))
  <2>1. CASE ~err /\ c' = Settled(Recovered(c, e, r)) /\ req' = Passed(Recovered(c, e, r), req)
    <3> DEFINE n == Recovered(c, e, r)
    <3>1. AgainOK(n, req, {}, Tail(list)) /\ RecoveredOf(n, c, e, r)
      BY RecoveredAgain DEF x, e
    <3> HIDE DEF n, r
    <3>2. /\ n \in Cache /\ n.done = {} /\ ~n.panic /\ Hashed(n) = Hashed(c)
          /\ \A d \in Hashed(c) : d # e => n.ent[d] = c.ent[d]
          /\ n.pvwait = c.pvwait /\ n.writeq = c.writeq /\ n.inflight = c.inflight
          /\ n.ent[e].state = {}
      BY <1>1, <1>2, <3>1 DEF RecoveredOf, Hashed, SameRecord
    <3>3. n.ent[e].state # {CHANGING}
      BY <3>2
    <3>4. /\ \A o \in PV : ToSet(c.pvwait[o]) \subseteq ToSet(n.pvwait[o])
          /\ ToSet(c.writeq) \subseteq ToSet(n.writeq)
      BY <3>2
    <3>5. \A o \in PV : n.pvwait[o] # <<>> => c.pvwait[o] # <<>>
      BY <3>2
    <3>6. c.ent[e].ltg = req[Head(list)].ltg
      BY <1>1 DEF x, r
    <3>7. NOK(n, req, Tail(list))
      <4> DEFINE U == Counted(c, req, {})
      <4>1. CacheOK(c) /\ list \in Seq(Req) /\ list # <<>> /\ Struct(c, req, U)
        BY <1>1, <1>2
      <4>2. NOK(c, req, list) /\ e \in Hashed(c)
        BY <1>1, <1>3
      <4>3. /\ n \in Cache /\ Hashed(n) = Hashed(c) /\ n.inflight = c.inflight
            /\ \A d \in Hashed(c) : d # e => n.ent[d] = c.ent[d]
        BY <3>2
      <4>4. n.ent[e].state = {CHANGING} => Sought(n, req, Tail(list), e)
        BY <3>3
      <4>5. \A o \in PV : n.pvwait[o] # <<>> => c.pvwait[o] # <<>> \/ Queued(n, o)
        BY <3>5
      <4> HIDE DEF U
      <4> QED
        BY <3>4, <3>6, <4>1, <4>2, <4>3, <4>4, <4>5, ListWaits
    <3> QED
      BY <2>1, <3>1, <3>2, <3>7 DEF n
  <2>2. CASE c' = Settled(Queue(c, e, r, x)) /\ req' = Passed(Queue(c, e, r, x), req)
    <3> DEFINE n == Queue(c, e, r, x)
               p == Place(c, x)
    <3>1. AgainOK(n, req, {}, Tail(list)) /\ QueueOf(n, c, e, r, p) /\ p \in PV
      BY <1>4, QueuedAgain DEF x, e
    <3> HIDE DEF n, p, r
    <3>2. /\ n \in Cache /\ n.ent[e].pvol = p
          /\ \A d \in Entry : n.ent[d].ltg = c.ent[d].ltg /\ (d # e => n.ent[d] = c.ent[d])
      <4>1. c \in Cache /\ e \in Entry /\ r \in Req /\ p \in PV /\ QueueOf(n, c, e, r, p)
        BY <1>1, <1>2, <3>1
      <4>2. n \in Cache
        BY <3>1 DEF QueueOf
      <4>3. /\ n.ent[e].pvol = p
            /\ \A d \in Entry : n.ent[d].ltg = c.ent[d].ltg /\ (d # e => n.ent[d] = c.ent[d])
        BY ONLY <4>1, QueueEntries
      <4> QED
        BY <4>2, <4>3
    <3>3. /\ ToSet(n.pvwait[p]) = ToSet(c.pvwait[p]) \cup {r}
          /\ \A o \in PV : o # p => n.pvwait[o] = c.pvwait[o]
          /\ ToSet(n.writeq) = ToSet(c.writeq) \cup {p}
      <4>1. c \in Cache /\ e \in Entry /\ r \in Req /\ p \in PV /\ QueueOf(n, c, e, r, p)
        BY <1>1, <1>2, <3>1
      <4>2. ToSet(n.pvwait[p]) = ToSet(c.pvwait[p]) \cup {r}
        BY <4>1, QueueParts
      <4>3. \A o \in PV : o # p => n.pvwait[o] = c.pvwait[o]
        BY <4>1, QueueParts
      <4>4. ToSet(n.writeq) = ToSet(c.writeq) \cup {p}
        BY <4>1, QueueParts
      <4> QED
        BY <4>2, <4>3, <4>4
    <3>4. /\ n.inflight = c.inflight /\ Hashed(n) = Hashed(c) /\ n.done = {} /\ ~n.panic
      BY <1>1, <1>2, <3>1 DEF QueueOf, Hashed
    <3>5. n.ent[e].ltg = c.ent[e].ltg /\ \A d \in Hashed(c) : d # e => n.ent[d] = c.ent[d]
      BY <1>1, <1>2, <3>2
    <3>6. Sought(n, req, Tail(list), e)
      <4>1. r \in ToSet(n.pvwait[n.ent[e].pvol]) \cup ToSet(Tail(list)) /\ req[r].ltg = n.ent[e].ltg
        BY <1>1, <3>2, <3>3, <3>5 DEF x
      <4> QED
        BY <4>1 DEF Sought
    <3>7. \A o \in PV : ToSet(c.pvwait[o]) \subseteq ToSet(n.pvwait[o])
      BY <3>3
    <3>8. \A o \in PV : n.pvwait[o] # <<>> => c.pvwait[o] # <<>> \/ Queued(n, o)
      <4>1. Queued(n, p)
        BY <3>2, <3>3, QueuedSet
      <4> QED
        BY <3>3, <4>1
    <3>9. c.ent[e].ltg = req[Head(list)].ltg /\ ToSet(c.writeq) \subseteq ToSet(n.writeq)
      BY <1>1, <3>3 DEF x, r
    <3>10. list # <<>> /\ list \in Seq(Req) /\ e \in Hashed(c) /\ n \in Cache
      BY <1>1, <1>2, <3>2
    <3>11. NOK(n, req, Tail(list))
      BY <1>2, <1>3, <3>4, <3>5, <3>6, <3>7, <3>8, <3>9, <3>10, ListWaits
    <3> QED
      BY <2>2, <3>1, <3>4, <3>11 DEF n
  <2> QED
    BY <1>1, <1>4, <2>1, <2>2
<1>7. PICK n : /\ AgainOK(n, req, {}, Tail(list)) /\ c' = Settled(n) /\ req' = Passed(n, req)
               /\ ~n.panic /\ n.done = {} /\ NOK(n, req, Tail(list))
  BY <1>6
<1>8. NOK(Settled(n), Passed(n, req), Tail(list))
  BY <1>2, <1>7, SettleWaits
<1>9. NOK(c', req', list')
  BY <1>1, <1>7, <1>8
<1>10. intr' \notin {"idle", "start"}
  BY <1>1
<1> QED
  BY <1>5, <1>9, <1>10 DEF NInv

\* The requests that waited for an entry are looked at again, none on the list.
LEMMA WalkWaits ==
  ASSUME SInv, AInv, NInv, Placed, list = <<>>, NEW h, Walk(h, c.wait)
  PROVE  \A i \in Nat : i <= Len(c.wait) => NOK(h[i], req, <<>>) /\ Short(h[i])
<1> DEFINE s == c.wait
           S == {i \in Nat : i <= Len(s) => NOK(h[i], req, <<>>) /\ Short(h[i])}
<1>1. /\ CacheOK(c) /\ c \in Cache /\ ~c.panic /\ NOK(c, req, <<>>)
  BY DEF SInv, CacheOK, AInv, AOK, NInv
<1>2. /\ Len(s) \in Nat
      /\ \A i \in Nat : i <= Len(s) => AgainOK(h[i], req, Rest(s, i), list)
      /\ \A i \in Nat : i + 1 <= Len(s) =>
             h[i + 1] = CheckAgain(h[i], s[i + 1]) /\ s[i + 1] \in Req
  BY <1>1, WalkAgain
<1>3. 0 \in S
  <2> DEFINE n == Emptied(c)
  <2>1. h[0] = n
    BY DEF Walk
  <2>2. /\ n \in Cache /\ SameEntries(n, c) /\ SameRecord(n, c) /\ n.wait = <<>>
        /\ n.pvwait = c.pvwait /\ n.writeq = c.writeq
    BY <1>1, EmptiedFields
  <2> HIDE DEF n
  <2>3. /\ n.ent = c.ent /\ Hashed(n) = Hashed(c) /\ n.inflight = c.inflight
    BY <2>2 DEF SameEntries, SameRecord, Hashed
  <2>4. NOK(n, req, <<>>)
    BY <1>1, <2>2, <2>3, NokFrame
  <2>5. Short(n)
    BY <2>2 DEF Short
  <2> QED
    BY <2>1, <2>4, <2>5
<1>4. ASSUME NEW i \in Nat, i \in S PROVE i + 1 \in S
  <2>1. SUFFICES ASSUME i + 1 <= Len(s)
                 PROVE NOK(h[i + 1], req, <<>>) /\ Short(h[i + 1])
    BY <1>4
  <2>2. i <= Len(s)
    BY <1>2, <2>1
  <2>3. /\ NOK(h[i], req, <<>>) /\ Short(h[i]) /\ AOK(h[i])
        /\ AgainOK(h[i], req, Rest(s, i), list)
        /\ h[i + 1] = CheckAgain(h[i], s[i + 1]) /\ s[i + 1] \in Req
    BY <1>2, <1>4, <2>1, <2>2, WalkAllocates
  <2> DEFINE k == h[i]
             r == s[i + 1]
             U == Counted(k, req, Rest(s, i))
  <2>4. /\ CacheOK(k) /\ ~k.panic /\ AOK(k) /\ r \in Req /\ Struct(k, req, U) /\ U \in SUBSET Req
        /\ NOK(k, req, <<>>) /\ Short(k)
    BY <2>3 DEF AgainOK, AOK, Counted, Active
  <2>5. h[i + 1] = CheckCache(k, r, req[r].ltg)
    BY <2>3, <2>4 DEF CheckAgain
  <2>6. req[r].ltg \in Ltg
    BY <1>1, <2>1, WaitingLtg
  <2>7. missing \subseteq MayMiss
    BY DEF AInv
  <2> HIDE DEF k, r, U
  <2>8. NOK(CheckCache(k, r, req[r].ltg), req, <<>>) /\ Short(CheckCache(k, r, req[r].ltg))
    BY <2>4, <2>6, <2>7, CheckWaits
  <2> QED
    BY <2>5, <2>8
<1>5. Nat \subseteq S
  <2> HIDE DEF S
  <2> QED
    BY <1>3, <1>4, NatInd
<1> QED
  BY <1>5

\* Those that wait again after the walk wait for the last free entry, or for a write.
LEMMA WaitWaits ==
  ASSUME SInv, AInv, NInv, Placed, CacheWait
  PROVE  NInv'
<1>1. /\ CacheOK(c) /\ c \in Cache /\ ReqOK(req) /\ ~c.panic /\ c.free \in Nat
      /\ Waits(c, req, {}, list) /\ up = "up" /\ list = <<>> /\ NOK(c, req, <<>>)
      /\ UNCHANGED <<up, list>> /\ intr' = "start"
  <2>1. /\ ~c.panic /\ up = "up" /\ intr = "wait" /\ UNCHANGED <<up, list>> /\ intr' = "start"
    BY DEF CacheWait, Running
  <2>2. CacheOK(c) /\ ReqOK(req) /\ Waits(c, req, {}, list) /\ list = <<>>
    BY <2>1 DEF SInv, StateOK
  <2>3. c \in Cache /\ c.free \in Nat
    BY <2>2 DEF CacheOK
  <2>4. NOK(c, req, <<>>)
    BY <2>1, <2>2 DEF NInv
  <2> QED
    BY <2>1, <2>2, <2>3, <2>4
<1>2. CASE ~(c.free > 0 /\ c.inflight = NoPv)
  <2>1. c' = c /\ req' = req
    BY <1>2 DEF CacheWait
  <2>2. Short(c)
    BY <1>1, <1>2 DEF Short
  <2> QED
    BY <1>1, <2>1, <2>2 DEF NInv
<1>3. CASE c.free > 0 /\ c.inflight = NoPv
  <2>1. PICK h : /\ Walk(h, c.wait)
                 /\ c' = Settled(h[Len(c.wait)]) /\ req' = Passed(h[Len(c.wait)], req)
    BY <1>3, WalkExists
  <2> DEFINE n == h[Len(c.wait)]
  <2>2. Len(c.wait) \in Nat /\ AgainOK(n, req, Rest(c.wait, Len(c.wait)), list)
    BY <1>1, <2>1, WalkAgain
  <2>3. AOK(n) /\ n.done = {}
    BY <2>1, <2>2, WalkAllocates
  <2>4. NOK(n, req, <<>>) /\ Short(n)
    BY <1>1, <2>1, <2>2, WalkWaits
  <2>5. Rest(c.wait, Len(c.wait)) = {}
    BY <1>1, ChainSet, RestSet DEF Waits
  <2>6. AgainOK(n, req, {}, list)
    BY <2>2, <2>5
  <2>7. c' = Settled(n) /\ req' = Passed(n, req)
    BY <2>1
  <2> HIDE DEF n
  <2>8. NOK(Settled(n), Passed(n, req), <<>>) /\ Short(Settled(n))
    BY <1>1, <2>3, <2>4, <2>6, SettleWaits DEF AOK
  <2> QED
    BY <1>1, <2>7, <2>8 DEF NInv
<1> QED
  BY <1>2, <1>3

\* lv_cache_clean strands nobody.
LEMMA CleanWaits ==
  ASSUME SInv, AInv, NInv, ~MP, NEW l \in Lv, Clean(l)
  PROVE  NInv'
<1>1. intr = "idle" /\ list = <<>> /\ up = "up" /\ ~c.panic
  BY ThreadAlone DEF Clean
<1>2. /\ UNCHANGED <<up, req, thr, intr, list>>
      /\ \/ c' = c \/ (c.inflight # NoPv /\ c' = [c EXCEPT !.clean = l])
         \/ c.inflight = NoPv /\ c' = CacheStart(Scrub(c, l))
  BY DEF Clean
<1>3. /\ CacheOK(c) /\ c \in Cache /\ Struct(c, req, Counted(c, req, {}))
      /\ NOK(c, req, <<>>) /\ Short(c) /\ Hashed(c) \subseteq Entry
  BY <1>1, ChainSet DEF SInv, CacheOK, NInv
<1>4. CASE c' = c
  BY <1>1, <1>2, <1>4 DEF NInv
<1>5. CASE c.inflight # NoPv /\ c' = [c EXCEPT !.clean = l]
  <2>1. /\ c' \in Cache /\ c'.ent = c.ent /\ c'.chain = c.chain /\ c'.pvwait = c.pvwait
        /\ c'.wait = c.wait /\ c'.free = c.free /\ c'.inflight = c.inflight /\ c'.writeq = c.writeq
    BY <1>3, <1>5 DEF Cache
  <2>2. Hashed(c') = Hashed(c)
    BY <2>1 DEF Hashed
  <2>3. NOK(c', req, <<>>)
    BY <1>3, <2>1, <2>2, NokFrame
  <2>4. Short(c')
    BY <1>3, <2>1 DEF Short
  <2> QED
    BY <1>1, <1>2, <1>5, <2>1, <2>3, <2>4 DEF NInv
<1>6. CASE c.inflight = NoPv /\ c' = CacheStart(Scrub(c, l))
  <2> DEFINE k == Scrub(c, l)
             U == Counted(c, req, {})
  <2>1. U \in SUBSET Req /\ U \in SUBSET Active(req)
    BY DEF Counted, Active
  <2>2. ScrubOf(k, c, req, U)
    BY <1>3, <2>1, ScrubStruct
  <2>3. AOK(k)
    <3>1. AOK(c) /\ \A r \in Active(req) : LvOf[req[r].ltg] # l
      BY DEF AInv, Clean, Active
    <3>2. NoUsers(c, l)
      BY <1>3, <2>1, <3>1, NobodyUses
    <3> QED
      BY <1>3, <2>1, <3>1, <3>2, ScrubAllocates
  <2>4. c' = CacheStart(k)
    BY <1>6
  <2> HIDE DEF k
  <2>5. /\ CacheOK(k) /\ k \in Cache /\ k.inflight = c.inflight /\ k.pvwait = c.pvwait /\ k.wait = c.wait
        /\ Hashed(k) \subseteq Hashed(c) /\ (\A e \in Hashed(k) : k.ent[e] = c.ent[e])
        /\ ToSet(c.writeq) \subseteq ToSet(k.writeq)
    BY <2>2 DEF ScrubOf, SameQueues, CacheOK
  <2>6. NOK(k, req, <<>>)
    BY <1>3, <2>5, NokFrame
  <2>7. Short(k)
    <3>1. \A e \in Entry : k.ent[e] = c.ent[e] \/ (c.ent[e].iocnt = 0 /\ k.ent[e] = NoEntry)
      BY <2>2 DEF ScrubOf
    <3>2. \A e \in Entry : k.ent[e].iocnt = 0 <=> c.ent[e].iocnt = 0
      BY <3>1 DEF NoEntry
    <3>3. {e \in Entry : k.ent[e].iocnt = 0} = {e \in Entry : c.ent[e].iocnt = 0}
      BY <3>2
    <3>4. Struct(k, req, U)
      BY <2>2, <2>3 DEF ScrubOf, AOK
    <3>5. k.free = c.free
      BY <1>3, <3>3, <3>4 DEF Struct
    <3> QED
      BY <1>3, <2>5, <3>5 DEF Short
  <2>8. /\ NOK(c', req, <<>>) /\ Short(c') /\ (c'.writeq # <<>> => c'.inflight # NoPv)
    BY <2>4, <2>5, <2>6, <2>7, StartWaits
  <2> QED
    BY <1>1, <1>2, <2>8 DEF NInv
<1> QED
  BY <1>2, <1>4, <1>5, <1>6

\* PVs that go missing, and LTGs that are recovered: the cache does not change.
LEMMA SameWaits ==
  ASSUME NInv, UNCHANGED <<up, c, req, thr, intr, list>>
  PROVE  NInv'
<1> QED
  BY DEF NInv

\* Nobody waits.
LEMMA FreshWaits ==
  ASSUME NEW k, Initial(k, 0) \/ Initial(k, c.clock), NEW q, NEW L
  PROVE  /\ NOK(k, q, L) /\ Short(k) /\ k.wait = <<>> /\ \A p \in PV : k.pvwait[p] = <<>>
<1>1. Hashed(k) = {} /\ k.wait = <<>> /\ k.pvwait = [p \in PV |-> <<>>]
  BY DEF Initial
<1> QED
  BY <1>1 DEF NOK, Short

\* After a crash nobody waits.
LEMMA CrashWaits ==
  ASSUME SInv, NInv, Crash
  PROVE  NInv'
<1>1. c' = CacheInit(c.clock) /\ up' = "down" /\ c.clock \in Nat
  BY DEF Crash, SInv, CacheOK, Cache
<1>2. Initial(c', c.clock)
  BY <1>1, PlainInitial
<1> QED
  BY <1>1, <1>2, FreshWaits DEF NInv

\* After activation nobody waits.
LEMMA ActivateWaits ==
  ASSUME SInv, NInv, Activate
  PROVE  NInv'
<1>1. up' = "recover"
  BY DEF Activate
<1>2. PICK k : Initial(k, c.clock) /\ (c' = k \/ c' = CacheUpdate(k))
  BY ActivateFields, ZenonT(60)
<1>3. /\ NOK(k, req', list') /\ Short(k) /\ k.wait = <<>> /\ \A p \in PV : k.pvwait[p] = <<>>
  BY <1>2, FreshWaits
<1>4. Hashed(k) = {} /\ k \in Cache /\ IsInjective(k.writeq)
  BY <1>2 DEF Initial, CacheOK
<1>5. /\ Hashed(c') = Hashed(k) /\ c'.wait = k.wait /\ c'.pvwait = k.pvwait
  <2>1. CASE c' = k
    BY <2>1
  <2>2. CASE c' = CacheUpdate(k)
    <3>1. Updated(c', k)
      BY <1>4, <2>2, UpdateFields
    <3> QED
      BY <3>1 DEF Updated, SameEntries, SameQueues, Hashed
  <2> QED
    BY <1>2, <2>1, <2>2
<1>6. NOK(c', req', list') /\ Short(c')
  BY <1>3, <1>4, <1>5 DEF NOK, Short
<1> QED
  BY <1>1, <1>3, <1>5, <1>6 DEF NInv

\* Nobody waits in the initial states.
LEMMA InitWaits ==
  ASSUME Init
  PROVE  NInv
<1>1. c = CacheInit(0) /\ up = "up"
  BY DEF Init
<1>2. Initial(c, 0) /\ c.writeq = <<>>
  BY <1>1, PlainInitial
<1> QED
  BY <1>1, <1>2, FreshWaits DEF NInv

\* Every step keeps NInv.
LEMMA WaitsStep ==
  ASSUME SInv, AInv, NInv, ~MayLose, ~MP, Placed, [Next]_vars
  PROVE  NInv'
<1>1. CASE UNCHANGED vars
  BY <1>1, SameWaits DEF vars
<1>2. ASSUME NEW r \in Req, MwcDone(r) PROVE NInv'
  BY <1>2, DoneWaits
<1>3. ASSUME NEW r \in Req, NEW x \in Ltg, Mwcm(r, x) PROVE NInv'
  BY <1>3, MwcmWaits
<1>4. CASE MwcmStart \/ DoneStart \/ Activated
  BY <1>4, StartedWaits
<1>5. CASE RecordDone
  BY <1>5, TakenWaits
<1>6. CASE RecordDoneNext
  BY <1>6, NextEntryWaits
<1>7. CASE CacheWait
  BY <1>7, WaitWaits
<1>8. ASSUME NEW l \in Lv, Clean(l) PROVE NInv'
  BY <1>8, CleanWaits
<1>9. ASSUME NEW p \in PV, GoMissing(p) \/ Attach(p) PROVE NInv'
  BY <1>9, SameWaits DEF GoMissing, Attach
<1>10. CASE Crash
  BY <1>10, CrashWaits
<1>11. CASE Activate
  BY <1>11, ActivateWaits
<1>12. ASSUME NEW x \in Ltg, RecoverLtg(x) PROVE NInv'
  BY <1>12, SameWaits DEF RecoverLtg
<1> QED
  BY <1>1, <1>2, <1>3, <1>4, <1>5, <1>6, <1>7, <1>8, <1>9, <1>10, <1>11, <1>12 DEF Next

\* Whoever waits for a record has a write of it to wait for, and whoever waits for an
\* entry has a write or a request to wait for, on one processor.
THEOREM NoneStranded == Spec /\ ~MayLose /\ ~MP /\ Placed /\ Attached => []NobodyStranded
<1> SUFFICES ASSUME ~MayLose, ~MP, Placed, Attached PROVE Spec => []NobodyStranded
  OBVIOUS
<1>1. Init => SInv /\ RInv /\ AInv /\ NInv
  BY InitStructure, InitRecords, InitAllocates, InitWaits
<1>2. SInv /\ RInv /\ AInv /\ NInv /\ [Next]_vars => SInv' /\ RInv' /\ AInv' /\ NInv'
  BY StructureStep, RecordsStep, AllocatesStep, WaitsStep
<1>3. SInv /\ NInv => NobodyStranded
  BY DEF SInv, StateOK, NInv, NOK, Short, NobodyStranded
<1> QED
  BY <1>1, <1>2, <1>3, PTL DEF Spec

=============================================================================
