---------------------------- MODULE LvOpenProofs ----------------------------
(***************************************************************************)
(* Proofs about LvOpen, for any number of volumes, groups, requests and    *)
(* contexts, and however often memory cannot be had: type correctness,     *)
(* that the pool of pbufs is exact, that no pbuf is lost, and that a       *)
(* request waits for its pbufs once, and not while it has some.  Where one *)
(* volume at a time is in lv_adjpool and memory is never short, also that  *)
(* the counts are exact, that the pool is large enough while a volume is   *)
(* open, and that it is given up when none is.                             *)
(***************************************************************************)
EXTENDS LvOpen, FiniteSetTheorems, TLAPS

-----------------------------------------------------------------------------
(* The inductive invariant.                                                *)

\* A command whose lv_lvhold is still in lv_adjpool.
Holding(lv) == IF adj[lv].op = "open" /\ "FAKE" \in adj[lv].fmt THEN 1 ELSE 0

\* lv_ref counts every command that has the volume, so lv_lvrelease does not take it
\* below zero.
Referenced == \A lv \in Lv : holders[lv] + Holding(lv) <= ref[lv]

IInv == TypeOK /\ Referenced /\ PoolExact /\ WaitsOnce

-----------------------------------------------------------------------------
(* Sizes and sequences.                                                    *)

\* What lv_numpbufs computes is a number.
LEMMA NumpbufsType ==
  ASSUME TypeOK, NEW m \in Int, NEW n \in Int
  PROVE  Numpbufs(m, n) \in Int
<1>1. Grab \in Int /\ MaxGrab \in Int /\ MaxSys \in Int /\ pbuf_cnt \in Int
  BY OpenAssumption DEF TypeOK
<1>2. m * Grab \in Int /\ n * Grab \in Int
  BY <1>1
<1>3. n * Grab * MaxGrab \in Int /\ Grab * MaxGrab \in Int
  BY <1>1, <1>2
<1>4. Grab * MaxGrab * MaxSys \in Int
  BY <1>1, <1>3
<1>5. \A a, b \in Int : Least(a, b) \in Int
  BY DEF Least
<1>6. Least(Least(m * Grab, n * Grab * MaxGrab), Grab * MaxGrab * MaxSys) \in Int
  BY <1>2, <1>3, <1>4, <1>5
<1> QED
  BY <1>2, <1>6 DEF Numpbufs

\* A queue that is not empty is its head and its tail (lv_reschedule).
LEMMA QueueHead ==
  ASSUME NEW q \in Seq(Req), q # << >>
  PROVE  /\ Head(q) \in Req /\ Tail(q) \in Seq(Req)
         /\ Head(q) = q[1] /\ 1 \in DOMAIN q
         /\ \A i \in DOMAIN Tail(q) :
               i \in Nat \ {0} /\ i + 1 \in DOMAIN q /\ Tail(q)[i] = q[i + 1]
         /\ <<Head(q)>> \o Tail(q) = q
  OBVIOUS

-----------------------------------------------------------------------------
(* The initial states.                                                     *)

LEMMA Initially == Init => IInv
<1> SUFFICES ASSUME Init PROVE IInv
  OBVIOUS
<1> USE DEF Init
<1>1. TypeOK
  <2>1. NoAdj \in Adjustment
    BY DEF NoAdj, Adjustment, Modes
  <2>2. adj \in [Lv -> Adjustment]
    BY <2>1
  <2>3. status \in [Lv -> SUBSET (Modes \cup {"OPEN"})]
    OBVIOUS
  <2>4. pending \in Seq(Req)
    OBVIOUS
  <2>5. ref \in [Lv -> Nat] /\ holders \in [Lv -> Nat] /\ held \in [Req -> 0 .. 3]
    OBVIOUS
  <2>6. opencount \in [Vg -> Int]
    OBVIOUS
  <2>7. kick \in BOOLEAN
    OBVIOUS
  <2>8. /\ vgs_opn \in Int /\ lvs_opn \in Int /\ pbuf_cnt \in Int
        /\ pbuf_inuse \in Int /\ freebuf \in Nat /\ runners \in Nat
    OBVIOUS
  <2> HIDE DEF Init
  <2> QED
    BY <2>2, <2>3, <2>4, <2>5, <2>6, <2>7, <2>8 DEF TypeOK
<1>2. Referenced
  BY DEF Referenced, Holding, NoAdj
<1>3. PoolExact /\ WaitsOnce
  BY DEF PoolExact, WaitsOnce
<1> QED
  BY <1>1, <1>2, <1>3 DEF IInv

-----------------------------------------------------------------------------
(* Steps of the volumes: they leave the requests alone.                    *)

\* What changes neither the queue nor the pbufs of a request keeps WaitsOnce.
LEMMA WaitsFrame ==
  ASSUME WaitsOnce, UNCHANGED <<pending, held>>
  PROVE  WaitsOnce'
  BY DEF WaitsOnce

\* lv_adjpool computes what is to be added (lv_pbuf.c, 113-130).
LEMMA AdjustStep ==
  ASSUME IInv, NEW lv \in Lv, Adjust(lv)
  PROVE  IInv'
<1> USE DEF Adjust, reqs, pool
<1> DEFINE dvg  == IF opencount[VgOf[lv]] = 0 THEN Sign(lv) ELSE 0
           left == Delta(vgs_opn + dvg, lvs_opn + Sign(lv))
<1>1. dvg \in Int /\ lvs_opn + Sign(lv) \in Int /\ vgs_opn + dvg \in Int
  BY SMTT(40), ZenonT(20) DEF IInv, TypeOK, Sign
<1>2. left \in Int
  BY <1>1, NumpbufsType, SMTT(30) DEF Delta, IInv, TypeOK
<1>3. adj' = [adj EXCEPT ![lv] = [adj[lv] EXCEPT !.pc = "pool", !.dvg = dvg,
                                                 !.left = left, !.grow = left > 0]]
  BY DEF IInv, TypeOK
<1> HIDE DEF dvg, left
<1>4. adj' \in [Lv -> Adjustment]
  <2>1. adj \in [Lv -> Adjustment] /\ dvg \in Int /\ left \in Int /\ (left > 0) \in BOOLEAN
    BY <1>1, <1>2 DEF IInv, TypeOK
  <2>2. [adj[lv] EXCEPT !.pc = "pool", !.dvg = dvg, !.left = left, !.grow = left > 0]
          \in Adjustment
    BY <2>1 DEF Adjustment
  <2> QED
    BY <1>3, <2>1, <2>2
<1>5. TypeOK'
  BY <1>1, <1>4 DEF IInv, TypeOK, Vg, dvg
<1>6. \A k \in Lv : Holding(k)' = Holding(k)
  BY <1>3, SMTT(40), ZenonT(20) DEF Holding, IInv, TypeOK, Adjustment
<1>7. Referenced'
  BY <1>6 DEF Referenced, IInv
<1>8. PoolExact'
  BY DEF PoolExact, IInv
<1> QED
  BY <1>5, <1>7, <1>8, WaitsFrame DEF IInv

\* A pbuf is added to the pool or taken from it (lv_pbuf.c, 131-209).
LEMMA PoolStep ==
  ASSUME IInv, NEW lv \in Lv, Grow(lv) \/ Shrink(lv)
  PROVE  IInv'
<1> USE DEF Grow, Shrink, reqs, pool, opns, CountOne, NoneFree
<1>1. PICK l \in Int : adj' = [adj EXCEPT ![lv] = [adj[lv] EXCEPT !.left = l]]
  <2>1. adj[lv].left + 1 \in Int /\ adj[lv].left - 1 \in Int /\ 0 \in Int
    BY DEF IInv, TypeOK, Adjustment
  <2> QED
    BY <2>1 DEF IInv, TypeOK
<1>2. adj' \in [Lv -> Adjustment]
  <2>1. adj \in [Lv -> Adjustment]
    BY DEF IInv, TypeOK
  <2>2. [adj[lv] EXCEPT !.left = l] \in Adjustment
    BY <2>1 DEF Adjustment
  <2> QED
    BY <1>1, <2>1, <2>2
<1>3. pbuf_cnt' \in Int /\ freebuf' \in Nat /\ PoolExact'
  BY SMTT(30) DEF IInv, TypeOK, PoolExact
<1>4. TypeOK'
  BY <1>2, <1>3 DEF IInv, TypeOK, Vg
<1>5. \A k \in Lv : Holding(k)' = Holding(k)
  BY <1>1 DEF Holding, IInv, TypeOK, Adjustment
<1>6. Referenced'
  BY <1>5 DEF Referenced, IInv
<1> QED
  BY <1>3, <1>4, <1>6, WaitsFrame DEF IInv

\* What leaves the pool and the requests alone, and keeps the types of the rest.
LEMMA VolumeFrame ==
  ASSUME IInv, UNCHANGED <<pool, reqs>>, Referenced',
         status' \in [Lv -> SUBSET (Modes \cup {"OPEN"})],
         ref' \in [Lv -> Nat], holders' \in [Lv -> Nat],
         adj' \in [Lv -> Adjustment], opencount' \in [Vg -> Int],
         vgs_opn' \in Int, lvs_opn' \in Int
  PROVE  IInv'
<1>1. TypeOK'
  BY DEF IInv, TypeOK, pool, reqs, Vg
<1>2. PoolExact'
  BY DEF IInv, PoolExact, pool, reqs
<1>3. WaitsOnce'
  BY WaitsFrame DEF IInv, reqs
<1> QED
  BY <1>1, <1>2, <1>3 DEF IInv

\* What lv_openlv and lv_closelv hand to lv_adjpool.
LEMMA EnterType ==
  ASSUME IInv, NEW lv \in Lv, NEW fmt \in SUBSET Modes,
         NEW op \in {"open", "close", "release"}, Enter(lv, op, fmt)
  PROVE  /\ adj' \in [Lv -> Adjustment]
         /\ adj'[lv].op = op /\ adj'[lv].fmt = fmt
         /\ \A k \in Lv : k # lv => adj'[k] = adj[k]
<1> DEFINE a == [NoAdj EXCEPT !.op = op, !.pc = "count", !.fmt = fmt]
<1>1. NoAdj \in Adjustment
  BY DEF NoAdj, Adjustment, Modes
<1>2. a \in Adjustment /\ a.op = op /\ a.fmt = fmt
  BY <1>1 DEF Adjustment
<1>3. adj \in [Lv -> Adjustment] /\ adj' = [adj EXCEPT ![lv] = a]
  BY DEF IInv, TypeOK, Enter
<1> HIDE DEF a
<1> QED
  BY <1>2, <1>3

\* lv_open (lv_syscalls.c, 205-298).
LEMMA OpenStep ==
  ASSUME IInv, NEW lv \in Lv, NEW fmt \in Fmt, Open(lv, fmt)
  PROVE  IInv'
<1> USE DEF lvs, opns
<1>1. fmt \in Modes /\ {fmt} \in SUBSET Modes /\ fmt # "FAKE"
  BY OpenAssumption DEF Modes
<1>2. CASE IsOpen(lv)
  <2>1. status' = [status EXCEPT ![lv] = @ \cup {fmt}] /\ adj' = adj
    BY <1>2 DEF Open
  <2>2. status' \in [Lv -> SUBSET (Modes \cup {"OPEN"})]
    BY <1>1, <2>1 DEF IInv, TypeOK
  <2>3. Referenced'
    BY <2>1 DEF Open, IInv, Referenced, Holding
  <2> QED
    BY <2>1, <2>2, <2>3, VolumeFrame DEF Open, IInv, TypeOK
<1>3. CASE ~IsOpen(lv)
  <2>1. Enter(lv, "open", {fmt}) /\ status' = status
    BY <1>3 DEF Open
  <2>2. /\ adj' \in [Lv -> Adjustment]
        /\ adj'[lv].fmt = {fmt}
        /\ \A k \in Lv : k # lv => adj'[k] = adj[k]
    BY <1>1, <2>1, EnterType
  <2>3. adj[lv] = NoAdj
    BY DEF Open, MayWrite, MayRead
  <2>4. \A k \in Lv : Holding(k)' = Holding(k)
    BY <1>1, <2>2, <2>3 DEF Holding, NoAdj
  <2>5. Referenced'
    BY <2>4 DEF Open, IInv, Referenced
  <2> QED
    BY <2>1, <2>2, <2>5, VolumeFrame DEF Open, IInv, TypeOK
<1> QED
  BY <1>2, <1>3

\* lv_lvhold (lv_syscalls.c, 433-471).
LEMMA HoldStep ==
  ASSUME IInv, NEW lv \in Lv, Hold(lv)
  PROVE  IInv'
<1> USE DEF lvs, opns
<1>1. /\ ref' = [ref EXCEPT ![lv] = @ + 1]
      /\ status' \in [Lv -> SUBSET (Modes \cup {"OPEN"})]
      /\ ref' \in [Lv -> Nat]
  BY DEF Hold, IInv, TypeOK, Modes
<1>2. adj[lv] = NoAdj /\ Holding(lv) = 0
  BY DEF Hold, MayRead, Holding, NoAdj
<1>3. CASE IsOpen(lv)
  <2>1. holders' = [holders EXCEPT ![lv] = @ + 1] /\ adj' = adj
    BY <1>3 DEF Hold
  <2>2. \A k \in Lv : Holding(k)' = Holding(k)
    BY <2>1 DEF Holding
  <2>3. \A k \in Lv : Holding(k) \in 0 .. 1
    BY DEF Holding
  <2>4. holders' \in [Lv -> Nat] /\ Referenced'
    BY <1>1, <1>2, <2>1, <2>2, <2>3 DEF IInv, TypeOK, Referenced
  <2> QED
    BY <1>1, <2>1, <2>4, VolumeFrame DEF Hold, IInv, TypeOK
<1>4. CASE ~IsOpen(lv)
  <2>1. Enter(lv, "open", {"FAKE"}) /\ holders' = holders
    BY <1>4 DEF Hold
  <2>2. /\ adj' \in [Lv -> Adjustment]
        /\ \A k \in Lv : k # lv => adj'[k] = adj[k]
    BY <2>1, EnterType DEF Modes
  <2>3. /\ \A k \in Lv : k # lv => Holding(k)' = Holding(k)
        /\ Holding(lv)' \in 0 .. 1
        /\ \A k \in Lv : Holding(k) \in 0 .. 1
    BY <2>2 DEF Holding
  <2>4. Referenced'
    BY <1>1, <1>2, <2>1, <2>3 DEF IInv, TypeOK, Referenced
  <2> QED
    BY <1>1, <2>1, <2>2, <2>4, VolumeFrame DEF Hold, IInv, TypeOK
<1> QED
  BY <1>3, <1>4

\* The last close of lv_closelv enters lv_adjpool; no hold is under way then.
LEMMA CloseLvType ==
  ASSUME IInv, NEW lv \in Lv, NEW st \in SUBSET (Modes \cup {"OPEN"}),
         NEW op \in {"close", "release"}, CloseLv(lv, st, op), adj[lv] = NoAdj
  PROVE  /\ status' \in [Lv -> SUBSET (Modes \cup {"OPEN"})]
         /\ adj' \in [Lv -> Adjustment] /\ opencount' \in [Vg -> Int]
         /\ \A k \in Lv : Holding(k)' = Holding(k)
<1>1. CASE st \cap Modes # {}
  <2>1. status' = [status EXCEPT ![lv] = st] /\ UNCHANGED <<adj, opencount>>
    BY <1>1 DEF CloseLv
  <2> QED
    BY <2>1 DEF IInv, TypeOK, Holding
<1>2. CASE ~(st \cap Modes # {})
  <2>1. /\ status' = [status EXCEPT ![lv] = {}]
        /\ opencount' = [opencount EXCEPT ![VgOf[lv]] = @ - 1]
        /\ Enter(lv, op, {})
    BY <1>2 DEF CloseLv
  <2>2. /\ adj' \in [Lv -> Adjustment]
        /\ adj'[lv].fmt = {}
        /\ \A k \in Lv : k # lv => adj'[k] = adj[k]
    BY <2>1, EnterType
  <2>3. status' \in [Lv -> SUBSET (Modes \cup {"OPEN"})] /\ opencount' \in [Vg -> Int]
    <3>1. {} \in SUBSET (Modes \cup {"OPEN"}) /\ VgOf[lv] \in Vg
      BY DEF Vg
    <3>2. opencount \in [Vg -> Int] /\ status \in [Lv -> SUBSET (Modes \cup {"OPEN"})]
      BY DEF IInv, TypeOK
    <3> QED
      BY <2>1, <3>1, <3>2
  <2>4. \A k \in Lv : Holding(k)' = Holding(k)
    BY <2>2 DEF Holding, NoAdj
  <2> QED
    BY <2>2, <2>3, <2>4
<1> QED
  BY <1>1, <1>2

\* lv_close (lv_syscalls.c, 353-390).
LEMMA CloseStep ==
  ASSUME IInv, NEW lv \in Lv, NEW fmt \in Fmt, Close(lv, fmt)
  PROVE  IInv'
<1> USE DEF opns
<1>1. status[lv] \ {fmt} \in SUBSET (Modes \cup {"OPEN"})
  BY DEF IInv, TypeOK
<1>2. /\ CloseLv(lv, status[lv] \ {fmt}, "close") /\ adj[lv] = NoAdj
      /\ UNCHANGED <<ref, holders, vgs_opn, lvs_opn>> /\ UNCHANGED <<pool, reqs>>
  BY DEF Close, MayRead
<1>3. /\ status' \in [Lv -> SUBSET (Modes \cup {"OPEN"})]
      /\ adj' \in [Lv -> Adjustment] /\ opencount' \in [Vg -> Int]
      /\ \A k \in Lv : Holding(k)' = Holding(k)
  BY <1>1, <1>2, CloseLvType
<1>4. Referenced'
  BY <1>2, <1>3 DEF IInv, Referenced
<1> QED
  BY <1>2, <1>3, <1>4, VolumeFrame DEF IInv, TypeOK

\* lv_lvrelease (lv_syscalls.c, 474-492).
LEMMA ReleaseStep ==
  ASSUME IInv, NEW lv \in Lv, Release(lv)
  PROVE  IInv'
<1> USE DEF opns
<1>1. Unheld(lv) \in SUBSET (Modes \cup {"OPEN"})
  BY DEF IInv, TypeOK, Unheld
<1>2. /\ CloseLv(lv, Unheld(lv), "release") /\ adj[lv] = NoAdj /\ holders[lv] > 0
      /\ ref' = [ref EXCEPT ![lv] = @ - 1] /\ holders' = [holders EXCEPT ![lv] = @ - 1]
      /\ UNCHANGED <<vgs_opn, lvs_opn>> /\ UNCHANGED <<pool, reqs>>
  BY DEF Release, MayWrite, MayRead
<1>3. /\ status' \in [Lv -> SUBSET (Modes \cup {"OPEN"})]
      /\ adj' \in [Lv -> Adjustment] /\ opencount' \in [Vg -> Int]
      /\ \A k \in Lv : Holding(k)' = Holding(k)
  BY <1>1, <1>2, CloseLvType
<1>4. \A k \in Lv : Holding(k) \in 0 .. 1
  BY DEF Holding
<1>5. /\ ref \in [Lv -> Nat] /\ holders \in [Lv -> Nat]
      /\ \A k \in Lv : holders[k] + Holding(k) <= ref[k]
  BY DEF IInv, TypeOK, Referenced
<1>6. holders[lv] - 1 \in Nat /\ ref[lv] - 1 \in Nat
  BY <1>2, <1>4, <1>5
<1>7. ref' \in [Lv -> Nat] /\ holders' \in [Lv -> Nat]
  BY <1>2, <1>5, <1>6
<1>8. Referenced'
  <2> SUFFICES ASSUME NEW k \in Lv PROVE holders'[k] + Holding(k)' <= ref'[k]
    BY DEF Referenced
  <2>1. CASE k = lv
    BY <1>2, <1>3, <1>4, <1>5, <2>1
  <2>2. CASE k # lv
    BY <1>2, <1>3, <1>5, <2>2
  <2> QED
    BY <2>1, <2>2
<1> QED
  BY <1>2, <1>3, <1>7, <1>8, VolumeFrame DEF IInv, TypeOK

\* lv_adjpool returns to lv_openlv or lv_closelv (lv_syscalls.c, 323-343, 414-430).
LEMMA EndStep ==
  ASSUME IInv, NEW lv \in Lv, OpenEnd(lv) \/ CloseEnd(lv)
  PROVE  IInv'
<1> USE DEF opns
<1>1. /\ adj' = [adj EXCEPT ![lv] = NoAdj] /\ ref' = ref /\ UNCHANGED <<pool, reqs>>
  BY DEF OpenEnd, CloseEnd
<1>2. adj' \in [Lv -> Adjustment] /\ ref' \in [Lv -> Nat]
  BY <1>1 DEF IInv, TypeOK, Adjustment, NoAdj
<1>3. /\ Holding(lv)' = 0 /\ \A k \in Lv : k # lv => Holding(k)' = Holding(k)
      /\ \A k \in Lv : Holding(k) \in 0 .. 1
  BY <1>1 DEF Holding, NoAdj, IInv, TypeOK
<1>4. CASE UNCHANGED <<status, holders, opencount>>
  <2>1. vgs_opn' \in Int /\ lvs_opn' \in Int
    BY DEF OpenEnd, CloseEnd, IInv, TypeOK, Adjustment
  <2>2. Referenced'
    <3>1. /\ ref \in [Lv -> Nat] /\ holders \in [Lv -> Nat]
          /\ \A k \in Lv : holders[k] + Holding(k) <= ref[k]
      BY DEF IInv, TypeOK, Referenced
    <3> SUFFICES ASSUME NEW k \in Lv PROVE holders'[k] + Holding(k)' <= ref'[k]
      BY DEF Referenced
    <3>2. holders'[k] = holders[k] /\ ref'[k] = ref[k] /\ holders[k] + Holding(k) <= ref[k]
      BY <1>1, <1>4, <3>1
    <3>3. CASE k = lv
      BY <1>3, <3>1, <3>2, <3>3
    <3>4. CASE k # lv
      BY <1>3, <3>2, <3>4
    <3> QED
      BY <3>3, <3>4
  <2> QED
    BY <1>1, <1>2, <1>4, <2>1, <2>2, VolumeFrame DEF IInv, TypeOK
<1>5. CASE ~UNCHANGED <<status, holders, opencount>>
  <2>1. /\ adj[lv].op = "open"
        /\ status' = [status EXCEPT ![lv] = @ \cup {"OPEN"} \cup adj[lv].fmt]
        /\ opencount' = [opencount EXCEPT ![VgOf[lv]] = @ + 1]
        /\ holders' = [holders EXCEPT ![lv] = IF "FAKE" \in adj[lv].fmt THEN @ + 1 ELSE @]
        /\ UNCHANGED <<vgs_opn, lvs_opn>>
    BY <1>5 DEF OpenEnd, CloseEnd
  <2>2. status' \in [Lv -> SUBSET (Modes \cup {"OPEN"})]
    BY <2>1 DEF IInv, TypeOK, Adjustment
  <2>3. opencount' \in [Vg -> Int] /\ holders' \in [Lv -> Nat]
    BY <2>1 DEF IInv, TypeOK, Vg
  <2>4. holders'[lv] = holders[lv] + Holding(lv)
    BY <2>1 DEF Holding, IInv, TypeOK
  <2>5. Referenced'
    BY <1>1, <1>3, <2>1, <2>4 DEF IInv, TypeOK, Referenced
  <2> QED
    BY <1>1, <1>2, <2>1, <2>2, <2>3, <2>5, VolumeFrame DEF IInv, TypeOK
<1> QED
  BY <1>4, <1>5

-----------------------------------------------------------------------------
(* Steps of the requests: they leave the volumes and lv_pbuf_cnt alone.    *)

\* What leaves the volumes alone, and keeps the invariant of the rest.
LEMMA RequestFrame ==
  ASSUME IInv, UNCHANGED <<lvs, opns, pbuf_cnt>>,
         pbuf_inuse' \in Int, freebuf' \in Nat, pending' \in Seq(Req),
         held' \in [Req -> 0 .. 3], kick' \in BOOLEAN, runners' \in Nat,
         freebuf' + pbuf_inuse' = freebuf + pbuf_inuse, WaitsOnce'
  PROVE  IInv'
<1>1. TypeOK'
  BY DEF IInv, TypeOK, lvs, opns, Vg
<1>2. Referenced'
  BY DEF IInv, Referenced, Holding, lvs
<1>3. PoolExact'
  BY DEF IInv, TypeOK, PoolExact
<1> QED
  BY <1>1, <1>2, <1>3 DEF IInv

\* lv_schedule: the request is last on the queue (lv_schedule.c, 132-160).
LEMMA SubmitStep ==
  ASSUME IInv, NEW r \in Req, Submit(r)
  PROVE  IInv'
<1> USE DEF pool
<1>1. pending \in Seq(Req) /\ pending' = Append(pending, r) /\ held' = held /\ held[r] = 0
  BY DEF Submit, IInv, TypeOK
<1>2. \A i \in DOMAIN pending : pending[i] # r
  BY <1>1 DEF Submit, Waiting, Contains
<1>3. /\ pending' \in Seq(Req)
      /\ DOMAIN pending' = 1 .. Len(pending) + 1 /\ Len(pending) \in Nat
      /\ DOMAIN pending = 1 .. Len(pending)
      /\ pending'[Len(pending) + 1] = r
      /\ \A i \in DOMAIN pending : pending'[i] = pending[i]
  BY <1>1
<1>4. WaitsOnce'
  <2> SUFFICES ASSUME NEW i \in DOMAIN pending', NEW j \in DOMAIN pending'
               PROVE  /\ pending'[i] = pending'[j] => i = j
                      /\ held'[pending'[i]] = 0
    BY DEF WaitsOnce
  <2>1. /\ i \in DOMAIN pending \/ i = Len(pending) + 1
        /\ j \in DOMAIN pending \/ j = Len(pending) + 1
    BY <1>3
  <2> QED
    BY <1>1, <1>2, <1>3, <2>1 DEF IInv, WaitsOnce
<1>5. kick' \in BOOLEAN /\ runners' \in Nat
  <2>1. kick \in BOOLEAN /\ runners \in Nat
    BY DEF IInv, TypeOK
  <2>2. kick' = TRUE \/ kick' = kick
    BY Zenon DEF Submit
  <2>3. runners' = runners \/ runners' = runners + 1
    BY Zenon DEF Submit
  <2>4. kick' \in BOOLEAN
    BY <2>1, <2>2, Zenon
  <2>5. runners' \in Nat
    BY <2>1, <2>3
  <2> QED
    BY <2>4, <2>5
<1>6. /\ pbuf_inuse' \in Int /\ freebuf' \in Nat /\ held' \in [Req -> 0 .. 3]
      /\ freebuf' + pbuf_inuse' = freebuf + pbuf_inuse
      /\ UNCHANGED <<lvs, opns, pbuf_cnt>>
  BY <1>1 DEF Submit, IInv, TypeOK
<1> QED
  BY <1>3, <1>4, <1>5, <1>6, RequestFrame

\* A callout thread enters lv_reschedule.
LEMMA CallThreadStep ==
  ASSUME IInv, CallThread
  PROVE  IInv'
<1> USE DEF pool, CallThread
<1>1. WaitsOnce'
  BY WaitsFrame DEF IInv
<1>2. kick' \in BOOLEAN /\ runners' \in Nat
  <2>1. runners \in Nat
    BY DEF IInv, TypeOK
  <2>2. kick' = FALSE /\ runners' = runners + 1
    BY Zenon
  <2>3. kick' \in BOOLEAN
    BY <2>2, Zenon
  <2>4. runners' \in Nat
    BY <2>1, <2>2
  <2> QED
    BY <2>3, <2>4
<1>3. /\ pbuf_inuse' \in Int /\ freebuf' \in Nat /\ held' \in [Req -> 0 .. 3]
      /\ pending' \in Seq(Req) /\ freebuf' + pbuf_inuse' = freebuf + pbuf_inuse
      /\ UNCHANGED <<lvs, opns, pbuf_cnt>>
  BY DEF IInv, TypeOK
<1> QED
  BY <1>1, <1>2, <1>3, RequestFrame

\* One turn of lv_reschedule, with lv_allocmulti (lv_schedule.c, 178-262).
LEMMA RescheduleStep ==
  ASSUME IInv, Reschedule
  PROVE  IInv'
<1>1. /\ pending \in Seq(Req) /\ runners \in Nat /\ runners > 0
      /\ freebuf \in Nat /\ pbuf_inuse \in Int /\ held \in [Req -> 0 .. 3]
      /\ kick \in BOOLEAN /\ kick' = kick /\ UNCHANGED <<lvs, opns, pbuf_cnt>>
  BY DEF Reschedule, IInv, TypeOK
<1>2. CASE pending # << >> /\ Fits(Head(pending))
  <2> DEFINE r == Head(pending)
  <2>1. /\ r \in Req /\ r = pending[1] /\ 1 \in DOMAIN pending
        /\ Tail(pending) \in Seq(Req)
        /\ \A i \in DOMAIN Tail(pending) :
              /\ i \in Nat \ {0} /\ i + 1 \in DOMAIN pending
              /\ Tail(pending)[i] = pending[i + 1]
    BY <1>1, <1>2, QueueHead
  <2>2. /\ pending' = Tail(pending) /\ held' = [held EXCEPT ![r] = Need[r]]
        /\ freebuf' = freebuf - Need[r] /\ pbuf_inuse' = pbuf_inuse + Need[r]
        /\ runners' = runners
    BY <1>2 DEF Reschedule
  <2>3. Need[r] \in 1 .. 3 /\ Need[r] <= freebuf
    BY <1>2, <2>1, OpenAssumption DEF Fits
  <2>4. WaitsOnce'
    <3> SUFFICES ASSUME NEW i \in DOMAIN Tail(pending), NEW j \in DOMAIN Tail(pending)
                 PROVE  /\ Tail(pending)[i] = Tail(pending)[j] => i = j
                        /\ held'[Tail(pending)[i]] = 0
      BY <2>2 DEF WaitsOnce
    <3>1. /\ i \in Nat \ {0} /\ i + 1 \in DOMAIN pending
          /\ Tail(pending)[i] = pending[i + 1]
          /\ j \in Nat \ {0} /\ j + 1 \in DOMAIN pending
          /\ Tail(pending)[j] = pending[j + 1]
      BY <2>1
    <3>2. pending[i + 1] = pending[j + 1] => i + 1 = j + 1
      BY <3>1 DEF IInv, WaitsOnce
    <3>3. pending[i + 1] # r
      BY <2>1, <3>1 DEF IInv, WaitsOnce
    <3>4. held[pending[i + 1]] = 0
      BY <3>1 DEF IInv, WaitsOnce
    <3>5. pending[i + 1] \in Req
      BY <1>1, <3>1
    <3>6. held'[pending[i + 1]] = 0
      BY <1>1, <2>2, <3>3, <3>4, <3>5
    <3> QED
      BY <3>1, <3>2, <3>6
  <2> HIDE DEF r
  <2>5. held' \in [Req -> 0 .. 3] /\ freebuf' \in Nat /\ pbuf_inuse' \in Int
        /\ freebuf' + pbuf_inuse' = freebuf + pbuf_inuse
    <3>1. held' \in [Req -> 0 .. 3]
      <4>1. Need[r] \in 0 .. 3
        BY <2>3
      <4> QED
        BY <1>1, <2>1, <2>2, <4>1
    <3>2. Need[r] \in Nat /\ Need[r] <= freebuf
      BY <2>3
    <3>3. freebuf' \in Nat /\ pbuf_inuse' \in Int
          /\ freebuf' + pbuf_inuse' = freebuf + pbuf_inuse
      BY <1>1, <2>2, <3>2, SMTT(40), ZenonT(20)
    <3> QED
      BY <3>1, <3>3
  <2> QED
    BY <1>1, <2>1, <2>2, <2>4, <2>5, RequestFrame
<1>3. CASE ~(pending # << >> /\ Fits(Head(pending)))
  <2>1. /\ pending' = pending /\ held' = held /\ runners' = runners - 1
        /\ freebuf' = freebuf /\ pbuf_inuse' = pbuf_inuse
    <3>1. pending # << >> => PutBack(Head(pending)) = pending
      BY <1>1, QueueHead DEF PutBack
    <3>2. /\ pending' = IF pending = << >> THEN pending ELSE PutBack(Head(pending))
          /\ runners' = runners - 1 /\ held' = held
          /\ freebuf' = freebuf - 0 /\ pbuf_inuse' = pbuf_inuse + 0
      BY <1>3 DEF Reschedule, Kept
    <3> QED
      BY <1>1, <3>1, <3>2
  <2>2. WaitsOnce'
    BY <2>1, WaitsFrame DEF IInv
  <2> QED
    BY <1>1, <2>1, <2>2, RequestFrame
<1> QED
  BY <1>2, <1>3

\* A pbuf is free: a transfer is done, or not needed (lv_pbuf.c, 229-237).
LEMMA FreeStep ==
  ASSUME IInv, NEW r \in Req, Free(r) \/ FreeUnused(r)
  PROVE  IInv'
<1> USE DEF Free, FreeUnused
<1>1. /\ held \in [Req -> 0 .. 3] /\ pending \in Seq(Req) /\ kick \in BOOLEAN
      /\ freebuf \in Nat /\ pbuf_inuse \in Int /\ runners \in Nat
  BY DEF IInv, TypeOK
<1>2. held[r] > 0
  BY <1>1, OpenAssumption
<1>3. /\ held' = [held EXCEPT ![r] = @ - 1] /\ pending' = pending /\ runners' = runners
      /\ freebuf' = freebuf + 1 /\ pbuf_inuse' = pbuf_inuse - 1
      /\ UNCHANGED <<lvs, opns, pbuf_cnt>>
  OBVIOUS
<1>4. kick' \in BOOLEAN
  BY <1>1 DEF Kick
<1>5. held' \in [Req -> 0 .. 3]
  BY <1>1, <1>2, <1>3
<1>6. \A i \in DOMAIN pending : pending[i] \in Req /\ pending[i] # r
  BY <1>1, <1>2 DEF IInv, WaitsOnce
<1>7. WaitsOnce'
  BY <1>1, <1>3, <1>6 DEF IInv, WaitsOnce
<1> QED
  BY <1>1, <1>3, <1>4, <1>5, <1>7, RequestFrame

-----------------------------------------------------------------------------
(* The theorems.                                                           *)

\* Every step keeps the invariant.
LEMMA Invariance == IInv /\ [Next]_vars => IInv'
<1> SUFFICES ASSUME IInv, [Next]_vars PROVE IInv'
  OBVIOUS
<1>1. CASE \E lv \in Lv : AdjStep(lv)
  BY <1>1, AdjustStep, PoolStep, EndStep DEF AdjStep
<1>2. CASE \E lv \in Lv, fmt \in Fmt : Open(lv, fmt) \/ Close(lv, fmt)
  BY <1>2, OpenStep, CloseStep
<1>3. CASE \E lv \in Lv : Hold(lv) \/ Release(lv)
  BY <1>3, HoldStep, ReleaseStep
<1>4. CASE \E r \in Req : Submit(r) \/ Free(r) \/ FreeUnused(r)
  BY <1>4, SubmitStep, FreeStep
<1>5. CASE CallThread \/ Reschedule
  BY <1>5, CallThreadStep, RescheduleStep
<1>6. CASE UNCHANGED vars
  <2>1. UNCHANGED <<lvs, opns, pool, reqs>>
    BY <1>6 DEF vars
  <2>2. UNCHANGED <<pbuf_cnt, freebuf, pbuf_inuse, pending, held, kick, runners>>
    BY <2>1 DEF pool, reqs
  <2>3. WaitsOnce'
    BY <2>2, WaitsFrame DEF IInv
  <2> QED
    BY <2>1, <2>2, <2>3, RequestFrame DEF IInv, TypeOK
<1> QED
  BY <1>1, <1>2, <1>3, <1>4, <1>5, <1>6, Zenon DEF Next

\* So the invariant holds in every reachable state.
LEMMA Inductive == Spec => []IInv
  BY Initially, Invariance, PTL DEF Spec

\* Types: no volume is released more often than it is held, and lv_freebuf is never
\* taken from when it is empty.
THEOREM OpenTypeCorrect == Spec => []TypeOK
<1>1. IInv => TypeOK
  BY DEF IInv
<1> QED
  BY <1>1, Inductive, PTL

\* lv_pbuf_cnt is what is free and what is in use, however many contexts adjust the
\* pool at once and wherever memory runs out (lv_adjpool, lv_allocmulti, lv_free_pbuf).
THEOREM PoolCorrect == Spec => []PoolExact
<1>1. IInv => PoolExact
  BY DEF IInv
<1> QED
  BY <1>1, Inductive, PTL

\* A request is on lv_pbuf_pending_Q once, and not while it has pbufs (lv_schedule,
\* lv_reschedule).
THEOREM QueuedOnce == Spec => []WaitsOnce
<1>1. IInv => WaitsOnce
  BY DEF IInv
<1> QED
  BY <1>1, Inductive, PTL

-----------------------------------------------------------------------------
(* The pbufs of the requests.                                              *)

\* A request that waits for pbufs, or has some, keeps its volume open.
Used(r) == held[r] > 0 \/ Waiting(r)
UInv == NoneLost /\ \A r \in Req : Used(r) => IsOpen(LvOf[r])

\* The pbufs in use can be counted.
LEMMA FiniteInUse ==
  IsFiniteSet(Req \X (1 .. 3)) /\ IsFiniteSet(InUse) /\ Cardinality(InUse) \in Nat
<1>1. IsFiniteSet(Req \X (1 .. 3))
  <2>1. IsFiniteSet(1 .. 3)
    <3>1. 1 \in Int /\ 3 \in Int
      OBVIOUS
    <3> QED
      BY <3>1, FS_Interval, Zenon
  <2>2. IsFiniteSet(Req)
    BY OpenAssumption
  <2> QED
    BY <2>1, <2>2, FS_Product
<1>2. InUse \in SUBSET (Req \X (1 .. 3))
  BY DEF InUse
<1> QED
  BY <1>1, <1>2, FS_Subset, FS_CardinalityType

\* Steps of the volumes: a volume that is needed is not closed.
LEMMA UsersFrame ==
  ASSUME UInv, UNCHANGED reqs,
         \A lv \in Lv : IsOpen(lv) /\ Needed(lv) => IsOpen(lv)'
  PROVE  UInv'
<1>1. UNCHANGED <<held, pending, pbuf_inuse>>
  BY DEF reqs
<1>2. NoneLost'
  BY <1>1 DEF UInv, NoneLost, InUse
<1>3. ASSUME NEW r \in Req, Used(r)' PROVE IsOpen(LvOf[r])'
  <2>1. LvOf[r] \in Lv /\ Used(r)
    BY <1>1, <1>3, OpenAssumption DEF Used, Waiting
  <2> QED
    BY <2>1 DEF UInv, Used, Needed
<1> QED
  BY <1>2, <1>3 DEF UInv

LEMMA VolumeUsers ==
  ASSUME IInv, UInv, NEW lv \in Lv,
         \/ AdjStep(lv) \/ Hold(lv) \/ Release(lv)
         \/ \E fmt \in Fmt : Open(lv, fmt) \/ Close(lv, fmt)
  PROVE  UInv'
<1>1. status \in [Lv -> SUBSET (Modes \cup {"OPEN"})]
  BY DEF IInv, TypeOK
<1>2. CASE AdjStep(lv)
  <2>1. UNCHANGED reqs /\ \A k \in Lv : IsOpen(k) => IsOpen(k)'
    BY <1>1, <1>2 DEF AdjStep, Adjust, Grow, Shrink, OpenEnd, CloseEnd, IsOpen
  <2> QED
    BY <2>1, UsersFrame
<1>3. CASE Hold(lv)
  <2>1. UNCHANGED reqs /\ \A k \in Lv : IsOpen(k) => IsOpen(k)'
    BY <1>1, <1>3 DEF Hold, IsOpen
  <2> QED
    BY <2>1, UsersFrame
<1>4. CASE \E fmt \in Fmt : Open(lv, fmt)
  <2>1. UNCHANGED reqs /\ \A k \in Lv : IsOpen(k) => IsOpen(k)'
    BY <1>1, <1>4 DEF Open, IsOpen
  <2> QED
    BY <2>1, UsersFrame
<1>5. CASE Release(lv) \/ \E fmt \in Fmt : Close(lv, fmt)
  <2>1. /\ UNCHANGED reqs /\ ~Needed(lv)
        /\ \E st : status' = [status EXCEPT ![lv] = st]
    BY <1>5 DEF Release, Close, CloseLv
  <2>2. \A k \in Lv : IsOpen(k) /\ k # lv => IsOpen(k)'
    BY <1>1, <2>1 DEF IsOpen
  <2> QED
    BY <2>1, <2>2, UsersFrame
<1> QED
  BY <1>2, <1>3, <1>4, <1>5

\* lv_schedule comes with a volume that is open.
LEMMA SubmitUsers ==
  ASSUME IInv, UInv, NEW r \in Req, Submit(r)
  PROVE  UInv'
<1>1. /\ pending \in Seq(Req) /\ pending' = Append(pending, r) /\ held' = held
      /\ pbuf_inuse' = pbuf_inuse /\ status' = status /\ IsOpen(LvOf[r])
  BY DEF Submit, IInv, TypeOK, lvs
<1>2. NoneLost'
  BY <1>1 DEF UInv, NoneLost, InUse
<1>3. ASSUME NEW q \in Req, Used(q)' PROVE IsOpen(LvOf[q])'
  <2>1. q # r => Used(q)
    BY <1>1, <1>3 DEF Used, Waiting, Contains
  <2> QED
    BY <1>1, <2>1 DEF UInv, IsOpen
<1> QED
  BY <1>2, <1>3 DEF UInv

\* lv_allocmulti takes all that a request needs, or nothing.
LEMMA RescheduleUsers ==
  ASSUME IInv, UInv, Reschedule
  PROVE  UInv'
<1>1. /\ pending \in Seq(Req) /\ held \in [Req -> 0 .. 3] /\ pbuf_inuse \in Int
      /\ status' = status
  BY DEF Reschedule, IInv, TypeOK, lvs
<1>2. CASE pending # << >> /\ Fits(Head(pending))
  <2> DEFINE r == Head(pending)
             n == Need[r]
             new == {r} \X (1 .. n)
  <2>1. /\ r \in Req /\ r = pending[1] /\ 1 \in DOMAIN pending
        /\ Tail(pending) \in Seq(Req)
        /\ \A i \in DOMAIN Tail(pending) :
              /\ i \in Nat \ {0} /\ i + 1 \in DOMAIN pending
              /\ Tail(pending)[i] = pending[i + 1]
    BY <1>1, <1>2, QueueHead
  <2>2. /\ pending' = Tail(pending) /\ held' = [held EXCEPT ![r] = n]
        /\ pbuf_inuse' = pbuf_inuse + n
    BY <1>2 DEF Reschedule
  <2>3. n \in 1 .. 3 /\ held[r] = 0 /\ Waiting(r)
    BY <1>1, <2>1, OpenAssumption DEF IInv, WaitsOnce, Waiting, Contains
  <2> HIDE DEF r, n
  <2>4. InUse' = InUse \cup new /\ InUse \cap new = {}
    BY <1>1, <2>1, <2>2, <2>3 DEF InUse
  <2>5. IsFiniteSet(new) /\ Cardinality(new) = n
    <3>1. IsFiniteSet({r}) /\ Cardinality({r}) = 1
      BY FS_Singleton
    <3>2. IsFiniteSet(1 .. n) /\ Cardinality(1 .. n) = n
      <4>1. n \in Int /\ 1 \in Int /\ ~(1 > n) /\ n - 1 + 1 = n
        BY <2>3
      <4> QED
        BY <4>1, FS_Interval
    <3>3. IsFiniteSet(new) /\ Cardinality(new) = Cardinality({r}) * Cardinality(1 .. n)
      BY <3>1, <3>2, FS_Product
    <3> QED
      BY <2>3, <3>1, <3>2, <3>3
  <2> HIDE DEF new
  <2>6. Cardinality(InUse') = Cardinality(InUse) + n
    <3>1. Cardinality(InUse \cup new) =
            Cardinality(InUse) + Cardinality(new) - Cardinality(InUse \cap new)
      BY <2>5, FiniteInUse, FS_Union
    <3>2. Cardinality(InUse \cap new) = 0 /\ Cardinality(InUse) \in Nat
      BY <2>4, FiniteInUse, FS_EmptySet
    <3>3. Cardinality(InUse \cup new) = Cardinality(InUse) + n
      BY <2>3, <2>5, <3>1, <3>2
    <3> QED
      BY <2>4, <3>3
  <2>7. NoneLost'
    BY <2>2, <2>6 DEF UInv, NoneLost
  <2>8. ASSUME NEW q \in Req, Used(q)' PROVE IsOpen(LvOf[q])'
    <3>1. Waiting(q)' => Waiting(q)
      <4> SUFFICES ASSUME NEW i \in DOMAIN Tail(pending), Tail(pending)[i] = q
                   PROVE  Waiting(q)
        BY <2>1, <2>2 DEF Waiting, Contains
      <4>1. i + 1 \in DOMAIN pending /\ pending[i + 1] = q
        BY <2>1
      <4> QED
        BY <1>1, <4>1 DEF Waiting, Contains
    <3>2. held'[q] > 0 => held[q] > 0 \/ q = r
      BY <1>1, <2>2
    <3>3. Used(q)
      BY <2>3, <2>8, <3>1, <3>2 DEF Used
    <3> QED
      BY <1>1, <3>3 DEF UInv, IsOpen
  <2> QED
    BY <2>7, <2>8 DEF UInv
<1>3. CASE ~(pending # << >> /\ Fits(Head(pending)))
  <2>1. /\ pending' = IF pending = << >> THEN pending ELSE PutBack(Head(pending))
        /\ held' = held /\ pbuf_inuse' = pbuf_inuse + 0
    BY <1>3 DEF Reschedule, Kept
  <2>2. pending' = pending /\ pbuf_inuse' = pbuf_inuse
    BY <1>1, <2>1, QueueHead DEF PutBack
  <2> QED
    BY <1>1, <2>1, <2>2 DEF UInv, NoneLost, InUse, Used, Waiting, IsOpen
<1> QED
  BY <1>2, <1>3

\* A pbuf that is freed is one of its request's.
LEMMA FreeUsers ==
  ASSUME IInv, UInv, NEW r \in Req, Free(r) \/ FreeUnused(r)
  PROVE  UInv'
<1>1. /\ held \in [Req -> 0 .. 3] /\ pbuf_inuse \in Int
      /\ pending' = pending /\ status' = status
      /\ held' = [held EXCEPT ![r] = @ - 1] /\ pbuf_inuse' = pbuf_inuse - 1
  BY DEF Free, FreeUnused, IInv, TypeOK, lvs
<1>2. held[r] \in 1 .. 3
  BY <1>1, OpenAssumption DEF Free, FreeUnused
<1>3. InUse' = InUse \ {<<r, held[r]>>} /\ <<r, held[r]>> \in InUse
  BY <1>1, <1>2 DEF InUse
<1>4. Cardinality(InUse') = Cardinality(InUse) - 1
  BY <1>3, FiniteInUse, FS_RemoveElement
<1>5. NoneLost'
  BY <1>1, <1>4 DEF UInv, NoneLost
<1>6. \A q \in Req : Used(q)' => Used(q)
  BY <1>1, <1>2 DEF Used, Waiting
<1> QED
  BY <1>1, <1>5, <1>6 DEF UInv, IsOpen

\* Every step accounts for every pbuf.
LEMMA InvarianceUsers == IInv /\ UInv /\ [Next]_vars => UInv'
<1> SUFFICES ASSUME IInv, UInv, [Next]_vars PROVE UInv'
  OBVIOUS
<1>1. CASE \E lv \in Lv :
              \/ AdjStep(lv) \/ Hold(lv) \/ Release(lv)
              \/ \E fmt \in Fmt : Open(lv, fmt) \/ Close(lv, fmt)
  BY <1>1, VolumeUsers
<1>2. CASE \E r \in Req : Submit(r) \/ Free(r) \/ FreeUnused(r)
  BY <1>2, SubmitUsers, FreeUsers
<1>3. CASE Reschedule
  BY <1>3, RescheduleUsers
<1>4. CASE CallThread \/ UNCHANGED vars
  <2>1. UNCHANGED <<held, pending, pbuf_inuse, status>>
    BY <1>4 DEF CallThread, vars, lvs, reqs
  <2> QED
    BY <2>1 DEF UInv, NoneLost, InUse, Used, Waiting, IsOpen
<1> QED
  BY <1>1, <1>2, <1>3, <1>4, Zenon DEF Next

\* Nobody has a pbuf at the start.
LEMMA InitiallyUsers == Init => UInv
<1> SUFFICES ASSUME Init PROVE UInv
  OBVIOUS
<1>1. pbuf_inuse = 0 /\ pending = << >> /\ \A r \in Req : held[r] = 0
  BY DEF Init
<1>2. InUse = {}
  BY <1>1 DEF InUse
<1> QED
  BY <1>1, <1>2, FS_EmptySet DEF UInv, NoneLost, Used, Waiting, Contains

\* So they are accounted for in every reachable state.
LEMMA UsersAlways == Spec => []UInv
  BY InitiallyUsers, Inductive, InvarianceUsers, PTL DEF Spec

\* lv_pbuf_inuse is what the requests have, in whatever order pbufs are taken, put back
\* and freed (lv_allocmulti, lv_parwrite_done, lv_finished, lv_parallel).
THEOREM NoPbufIsLost == Spec => []NoneLost
<1>1. UInv => NoneLost
  BY DEF UInv
<1> QED
  BY <1>1, UsersAlways, PTL

-----------------------------------------------------------------------------
(* The counts, and the size of the pool, where one volume at a time is in  *)
(* lv_adjpool and memory is never short.                                   *)

\* A volume that vgs_opn and lvs_opn count, from the first half of lv_adjpool on.
InCount(lv) ==
    \/ IsOpen(lv)
    \/ adj[lv].op = "open" /\ adj[lv].pc = "pool"
    \/ adj[lv].op \in {"close", "release"} /\ adj[lv].pc = "count"
Counted    == {lv \in Lv : InCount(lv)}
OpenIn(vg) == {lv \in Lv : VgOf[lv] = vg /\ IsOpen(lv)}
Groups(s)  == {VgOf[lv] : lv \in s}

OneAtATime == \A k, lv \in Lv : adj[k] # NoAdj /\ adj[lv] # NoAdj => k = lv

Counts ==
    /\ \A vg \in Vg : opencount[vg] = Cardinality(OpenIn(vg))
    /\ lvs_opn = Cardinality(Counted)
    /\ vgs_opn = Cardinality(Groups(Counted))

\* How a volume is open, who holds it, and what lv_adjpool is at.
Resting(lv) ==
    /\ adj[lv] = NoAdj
    /\ IsOpen(lv) <=> status[lv] \cap Modes # {}
    /\ "FAKE" \in status[lv] <=> holders[lv] > 0
Opening(lv) ==
    /\ adj[lv].op = "open" /\ adj[lv].pc \in {"count", "pool"} /\ adj[lv].fmt # {}
    /\ status[lv] = adj[lv].fmt \cap {"FAKE"} /\ holders[lv] = 0
Closing(lv) ==
    /\ adj[lv].op \in {"close", "release"} /\ adj[lv].pc \in {"count", "pool"}
    /\ status[lv] = {} /\ holders[lv] = 0 /\ "FAKE" \notin adj[lv].fmt
VolumeOk(lv) ==
    /\ ref[lv] = holders[lv] + Holding(lv)
    /\ adj[lv].pc # "pool" => adj[lv].left = 0
    /\ Resting(lv) \/ Opening(lv) \/ Closing(lv)

\* What lv_adjpool makes of the pool is enough for a volume that is counted, and the
\* pool is enough while a volume is open.
Target(lv) ==
    /\ adj[lv].grow => adj[lv].left >= 0 /\ pbuf_cnt + adj[lv].left > 0
    /\ ~adj[lv].grow => adj[lv].left <= 0
    /\ pbuf_cnt + adj[lv].left >= 0
    /\ lvs_opn > 0 => pbuf_cnt + adj[lv].left >= Grab
    /\ lvs_opn = 0 => pbuf_cnt + adj[lv].left = 0
PoolSized ==
    /\ pbuf_cnt >= 0 /\ nomem = 0
    /\ \A lv \in Lv : IsOpen(lv) => pbuf_cnt >= Grab
    /\ \A lv \in Lv : adj[lv].pc = "pool" => Target(lv)
    /\ lvs_opn = 0 /\ (\A lv \in Lv : adj[lv].pc # "pool") => pbuf_cnt = 0

CInv == IInv /\ UInv /\ OneAtATime /\ Counts /\ (\A lv \in Lv : VolumeOk(lv)) /\ PoolSized

\* Sets of volumes and of their groups are finite, and no smaller than what is in them.
LEMMA FiniteVolumes ==
  ASSUME NEW s \in SUBSET Lv
  PROVE  /\ IsFiniteSet(s) /\ Cardinality(s) \in Nat
         /\ IsFiniteSet(Groups(s)) /\ Cardinality(Groups(s)) \in Nat
         /\ Cardinality(s) = 0 <=> s = {}
         /\ Cardinality(Groups(s)) = 0 <=> s = {}
<1>1. IsFiniteSet(s)
  BY OpenAssumption, FS_Subset
<1>2. IsFiniteSet(Groups(s))
  <2> DEFINE f == [lv \in s |-> VgOf[lv]]
  <2>1. f \in Surjection(s, Groups(s))
    BY DEF Surjection, Groups
  <2> HIDE DEF f
  <2> QED
    BY <1>1, <2>1, FS_Surjection
<1>3. Groups(s) = {} <=> s = {}
  BY DEF Groups
<1> QED
  BY <1>1, <1>2, <1>3, FS_CardinalityType, FS_EmptySet

\* One more volume, and perhaps one more group.
LEMMA AddVolume ==
  ASSUME NEW s \in SUBSET Lv, NEW lv \in Lv, lv \notin s
  PROVE  /\ Cardinality(s \cup {lv}) = Cardinality(s) + 1
         /\ Cardinality(Groups(s \cup {lv})) =
              IF VgOf[lv] \in Groups(s) THEN Cardinality(Groups(s))
              ELSE Cardinality(Groups(s)) + 1
<1>1. Groups(s \cup {lv}) = Groups(s) \cup {VgOf[lv]}
  BY DEF Groups
<1> QED
  BY <1>1, FiniteVolumes, FS_AddElement

\* The group of a volume is among those of others if one of the others is in it.
LEMMA GroupShared ==
  ASSUME NEW s \in SUBSET Lv, NEW lv \in Lv, lv \notin s, ~IsOpen(lv), Counts,
         OpenIn(VgOf[lv]) \ {lv} = {k \in s : VgOf[k] = VgOf[lv]}
  PROVE  opencount[VgOf[lv]] = 0 <=> VgOf[lv] \notin Groups(s)
<1>1. VgOf[lv] \in Vg /\ OpenIn(VgOf[lv]) \in SUBSET Lv
  BY DEF Vg, OpenIn
<1>2. opencount[VgOf[lv]] = Cardinality(OpenIn(VgOf[lv]))
  BY <1>1 DEF Counts
<1>3. opencount[VgOf[lv]] = 0 <=> OpenIn(VgOf[lv]) = {}
  BY <1>1, <1>2, FiniteVolumes
<1>4. lv \notin OpenIn(VgOf[lv])
  BY DEF OpenIn
<1>5. VgOf[lv] \in Groups(s) <=> {k \in s : VgOf[k] = VgOf[lv]} # {}
  BY DEF Groups
<1> QED
  BY <1>3, <1>4, <1>5

\* What a step does to one volume leaves the others as they are.
LEMMA OneVolume ==
  ASSUME CInv, NEW lv \in Lv, VolumeOk(lv)',
         \A k \in Lv \ {lv} : /\ adj'[k] = adj[k] /\ status'[k] = status[k]
                              /\ ref'[k] = ref[k] /\ holders'[k] = holders[k],
         \/ adj'[lv] = NoAdj \/ adj[lv] # NoAdj
         \/ \A k \in Lv \ {lv} : adj[k] = NoAdj
  PROVE  OneAtATime' /\ \A k \in Lv : VolumeOk(k)'
<1>1. OneAtATime'
  <2> SUFFICES ASSUME NEW j \in Lv, NEW k \in Lv, adj'[j] # NoAdj, adj'[k] # NoAdj
               PROVE  j = k
    BY DEF OneAtATime, NoAdj
  <2>1. j # lv => adj[j] # NoAdj
    OBVIOUS
  <2>2. k # lv => adj[k] # NoAdj
    OBVIOUS
  <2>3. \A a, b \in Lv : adj[a] # NoAdj /\ adj[b] # NoAdj => a = b
    BY DEF CInv, OneAtATime
  <2> QED
    BY <2>1, <2>2, <2>3
<1>2. ASSUME NEW k \in Lv, k # lv PROVE VolumeOk(k)'
  <2>1. VolumeOk(k)
    BY DEF CInv
  <2>2. /\ adj'[k] = adj[k] /\ status'[k] = status[k]
        /\ ref'[k] = ref[k] /\ holders'[k] = holders[k]
    BY <1>2
  <2> QED
    BY <2>1, <2>2 DEF VolumeOk, Resting, Opening, Closing, Holding, IsOpen, NoAdj
<1> QED
  BY <1>1, <1>2

\* A step that changes neither lvs_opn and vgs_opn nor the pool, and opens or closes a
\* volume that is and stays counted, or neither.
LEMMA CountFrame ==
  ASSUME CInv, NEW lv \in Lv, UNCHANGED <<pool, opns, nomem>>,
         \A k \in Lv \ {lv} : adj'[k] = adj[k] /\ status'[k] = status[k],
         InCount(lv)' <=> InCount(lv), adj'[lv].pc # "pool",
         adj[lv].pc = "pool" => adj[lv].left = 0,
         \/ (IsOpen(lv)' <=> IsOpen(lv)) /\ opencount' = opencount
         \/ /\ ~IsOpen(lv)' /\ IsOpen(lv)
            /\ opencount' = [opencount EXCEPT ![VgOf[lv]] = @ - 1]
         \/ /\ IsOpen(lv)' /\ ~IsOpen(lv) /\ pbuf_cnt >= Grab
            /\ opencount' = [opencount EXCEPT ![VgOf[lv]] = @ + 1]
  PROVE  Counts' /\ PoolSized'
<1>1. \A k \in Lv \ {lv} : (IsOpen(k)' <=> IsOpen(k)) /\ (InCount(k)' <=> InCount(k))
  BY DEF IsOpen, InCount
<1>2. Counted' = Counted
  BY <1>1 DEF Counted
<1>3. lvs_opn' = Cardinality(Counted)' /\ vgs_opn' = Cardinality(Groups(Counted))'
  BY <1>2 DEF CInv, Counts, opns, Groups
<1>4. ASSUME NEW vg \in Vg PROVE opencount'[vg] = Cardinality(OpenIn(vg)')
  <2>1. /\ OpenIn(vg) \in SUBSET Lv /\ opencount \in [Vg -> Int]
        /\ opencount[vg] = Cardinality(OpenIn(vg)) /\ IsFiniteSet(OpenIn(vg))
        /\ Cardinality(OpenIn(vg)) \in Nat
    BY FiniteVolumes DEF OpenIn, CInv, Counts, IInv, TypeOK
  <2>2. CASE VgOf[lv] # vg
    <3>1. OpenIn(vg)' = OpenIn(vg)
      BY <1>1, <2>2 DEF OpenIn
    <3> QED
      BY <2>1, <2>2, <3>1
  <2>3. CASE VgOf[lv] = vg /\ (IsOpen(lv)' <=> IsOpen(lv))
    <3>1. OpenIn(vg)' = OpenIn(vg)
      BY <1>1, <2>3 DEF OpenIn
    <3> QED
      BY <2>1, <2>3, <3>1
  <2>4. CASE VgOf[lv] = vg /\ ~IsOpen(lv)' /\ IsOpen(lv)
    <3>1. OpenIn(vg)' = OpenIn(vg) \ {lv} /\ lv \in OpenIn(vg)
      BY <1>1, <2>4 DEF OpenIn
    <3>2. opencount'[vg] = opencount[vg] - 1
      BY <2>1, <2>4
    <3>3. Cardinality(OpenIn(vg) \ {lv}) = Cardinality(OpenIn(vg)) - 1
      BY <2>1, <3>1, FS_RemoveElement
    <3> QED
      BY <2>1, <3>1, <3>2, <3>3
  <2>5. CASE VgOf[lv] = vg /\ IsOpen(lv)' /\ ~IsOpen(lv)
    <3>1. OpenIn(vg)' = OpenIn(vg) \cup {lv} /\ lv \notin OpenIn(vg)
      BY <1>1, <2>5 DEF OpenIn
    <3>2. opencount'[vg] = opencount[vg] + 1
      BY <2>1, <2>5
    <3>3. Cardinality(OpenIn(vg) \cup {lv}) = Cardinality(OpenIn(vg)) + 1
      BY <2>1, <3>1, FS_AddElement
    <3> QED
      BY <2>1, <3>1, <3>2, <3>3
  <2> QED
    BY <2>2, <2>3, <2>4, <2>5
<1>5. Counts'
  BY <1>3, <1>4 DEF Counts, Vg
<1>6. pbuf_cnt' = pbuf_cnt /\ nomem' = nomem /\ lvs_opn' = lvs_opn
  BY DEF pool, opns
<1>7. \A k \in Lv : IsOpen(k)' => pbuf_cnt' >= Grab
  BY <1>1, <1>6 DEF CInv, PoolSized
<1>8. \A k \in Lv : adj'[k].pc = "pool" => Target(k)'
  BY <1>6 DEF CInv, PoolSized, Target
<1>9. ASSUME lvs_opn' = 0, \A k \in Lv : adj'[k].pc # "pool" PROVE pbuf_cnt' = 0
  <2>1. CASE adj[lv].pc = "pool"
    <3>1. Target(lv) /\ adj[lv].left = 0 /\ pbuf_cnt \in Int
      BY <2>1 DEF CInv, PoolSized, IInv, TypeOK
    <3> QED
      BY <1>6, <1>9, <3>1 DEF Target
  <2>2. CASE adj[lv].pc # "pool"
    <3>1. \A k \in Lv : adj[k].pc # "pool"
      BY <1>9, <2>2
    <3> QED
      BY <1>6, <1>9, <3>1 DEF CInv, PoolSized
  <2> QED
    BY <2>1, <2>2
<1> QED
  BY <1>5, <1>6, <1>7, <1>8, <1>9 DEF CInv, PoolSized

\* A step of a request, or of nobody.
LEMMA VolumesAlone ==
  ASSUME CInv, UNCHANGED <<lvs, opns, pbuf_cnt, nomem>>
  PROVE  OneAtATime' /\ Counts' /\ (\A lv \in Lv : VolumeOk(lv)') /\ PoolSized'
<1> USE DEF CInv, lvs, opns
<1>1. OneAtATime'
  BY DEF OneAtATime, NoAdj
<1>2. \A lv \in Lv : (IsOpen(lv)' <=> IsOpen(lv)) /\ (InCount(lv)' <=> InCount(lv))
  BY DEF IsOpen, InCount
<1>3. Counted' = Counted /\ \A vg \in Vg : OpenIn(vg)' = OpenIn(vg)
  BY <1>2 DEF Counted, OpenIn
<1>4. Counts'
  BY <1>3 DEF Counts, Vg, Groups
<1>5. \A lv \in Lv : VolumeOk(lv)'
  BY DEF VolumeOk, Resting, Opening, Closing, Holding, IsOpen, NoAdj
<1>6. PoolSized'
  BY <1>2 DEF PoolSized, Target
<1> QED
  BY <1>1, <1>4, <1>5, <1>6

\* Where one volume at a time may be in lv_adjpool, none is when one comes in.
LEMMA NobodyIn ==
  ASSUME Parallel = 1, IInv, NEW lv \in Lv, MayRead(lv)
  PROVE  \A k \in Lv : adj[k] = NoAdj
<1> DEFINE busy == {k \in Lv : adj[k] # NoAdj}
<1>1. busy \in SUBSET Lv /\ Cardinality(busy) < 1
  BY DEF MayRead
<1>2. busy = {}
  BY <1>1, FiniteVolumes
<1> QED
  BY <1>2

\* lv_numpbufs asks for enough for a volume as soon as one is counted.
LEMMA NumpbufsSize ==
  ASSUME IInv, NEW m \in Nat, NEW n \in Nat
  PROVE  /\ Numpbufs(m, n) \in Int /\ Numpbufs(m, n) >= 0
         /\ m = 0 /\ n = 0 => Numpbufs(m, n) = 0
         /\ m > 0 /\ n > 0 => Numpbufs(m, n) >= Grab
<1>1. Grab \in Nat \ {0} /\ MaxGrab \in Nat \ {0} /\ MaxSys \in Nat \ {0} /\ pbuf_cnt \in Int
  BY OpenAssumption DEF IInv, TypeOK
<1>2. \A a, b \in Nat : a * b \in Nat /\ (b > 0 => a * b >= a)
  <2> SUFFICES ASSUME NEW a \in Nat, NEW b \in Nat
               PROVE  a * b \in Nat /\ (b > 0 => a * b >= a)
    OBVIOUS
  <2>1. a * b \in Nat
    OBVIOUS
  <2>2. CASE b > 0
    <3>1. b - 1 \in Nat /\ a * (b - 1) \in Nat
      BY <2>2
    <3>2. a * b = a + a * (b - 1)
      BY <2>2
    <3> QED
      BY <3>1, <3>2, <2>1
  <2> QED
    BY <2>1, <2>2
<1> DEFINE x == m * Grab
           y == n * Grab
           z == y * MaxGrab
           w == Grab * MaxGrab
           v == w * MaxSys
<1>3. x \in Nat /\ y \in Nat /\ w \in Nat
  BY <1>1, <1>2
<1>4. z \in Nat /\ v \in Nat /\ z >= y /\ w >= Grab
  BY <1>1, <1>2, <1>3
<1>5. v >= w
  BY <1>1, <1>2, <1>3
<1>6. m > 0 => x >= Grab
  <2>1. m > 0 => Grab * m >= Grab
    BY <1>1, <1>2
  <2> QED
    BY <1>1, <2>1
<1>7. n > 0 => y >= Grab
  <2>1. n > 0 => Grab * n >= Grab
    BY <1>1, <1>2
  <2> QED
    BY <1>1, <2>1
<1>8. Numpbufs(m, n) =
        IF m = 0 /\ n = 0 THEN 0
        ELSE IF y > pbuf_cnt THEN y ELSE Least(Least(x, z), v)
  BY DEF Numpbufs
<1> HIDE DEF x, y, z, w, v
<1> QED
  BY <1>1, <1>3, <1>4, <1>5, <1>6, <1>7, <1>8 DEF Least

\* While no volume is counted every pbuf is free.
LEMMA AllFree ==
  ASSUME IInv, UInv, Counts, lvs_opn = 0
  PROVE  pbuf_cnt = freebuf
<1>1. Counted \in SUBSET Lv /\ Cardinality(Counted) = 0
  BY DEF Counted, Counts
<1>2. Counted = {}
  BY <1>1, FiniteVolumes
<1>3. \A lv \in Lv : ~IsOpen(lv)
  BY <1>2 DEF Counted, InCount
<1>4. \A r \in Req : held[r] = 0
  <2> SUFFICES ASSUME NEW r \in Req PROVE held[r] = 0
    OBVIOUS
  <2>1. LvOf[r] \in Lv /\ held[r] \in 0 .. 3
    BY OpenAssumption DEF IInv, TypeOK
  <2>2. ~(held[r] > 0)
    BY <1>3, <2>1 DEF UInv, Used
  <2> QED
    BY <2>1, <2>2
<1>5. InUse = {}
  BY <1>4 DEF InUse
<1> QED
  BY <1>5, FS_EmptySet DEF UInv, NoneLost, IInv, PoolExact, TypeOK

\* While a volume is counted lvs_opn is above zero.
LEMMA IsCounted ==
  ASSUME Counts, NEW lv \in Lv, InCount(lv)
  PROVE  lvs_opn > 0
<1>1. Counted \in SUBSET Lv /\ Counted # {} /\ lvs_opn = Cardinality(Counted)
  BY DEF Counted, Counts
<1>2. Cardinality(Counted) \in Nat /\ Cardinality(Counted) # 0
  BY <1>1, FiniteVolumes
<1> QED
  BY <1>1, <1>2

\* lv_adjpool counts the volume, and its group if it is the only one of it.
LEMMA AdjustCounts ==
  ASSUME CInv, NEW lv \in Lv, Adjust(lv)
  PROVE  OneAtATime' /\ Counts' /\ (\A k \in Lv : VolumeOk(k)') /\ PoolSized'
<1> DEFINE dvg  == IF opencount[VgOf[lv]] = 0 THEN Sign(lv) ELSE 0
           left == Delta(vgs_opn + dvg, lvs_opn + Sign(lv))
<1>1. /\ adj \in [Lv -> Adjustment] /\ adj[lv].pc = "count"
      /\ adj' = [adj EXCEPT ![lv] = [adj[lv] EXCEPT !.pc = "pool", !.dvg = dvg,
                                                    !.left = left, !.grow = left > 0]]
      /\ vgs_opn' = vgs_opn + dvg /\ lvs_opn' = lvs_opn + Sign(lv)
      /\ UNCHANGED <<status, ref, holders, opencount, pbuf_cnt, freebuf, nomem>>
  BY DEF Adjust, CInv, IInv, TypeOK, pool
<1> HIDE DEF left
<1>2. /\ adj'[lv].op = adj[lv].op /\ adj'[lv].fmt = adj[lv].fmt /\ adj'[lv].pc = "pool"
      /\ adj'[lv].left = left /\ adj'[lv].grow = (left > 0)
      /\ \A k \in Lv \ {lv} : adj'[k] = adj[k]
  BY <1>1 DEF Adjustment
<1>3. adj[lv] # NoAdj /\ \A k \in Lv \ {lv} : adj[k] = NoAdj
  BY <1>1 DEF NoAdj, CInv, OneAtATime
<1>4. VolumeOk(lv) /\ (Opening(lv) \/ Closing(lv))
  BY <1>3 DEF CInv, VolumeOk, Resting
<1>5. VolumeOk(lv)'
  BY <1>1, <1>2, <1>4 DEF VolumeOk, Opening, Closing, Holding
<1>6. OneAtATime' /\ \A k \in Lv : VolumeOk(k)'
  BY <1>1, <1>2, <1>3, <1>5, OneVolume
<1>7. ~IsOpen(lv) /\ \A k \in Lv : IsOpen(k)' <=> IsOpen(k)
  BY <1>1, <1>4 DEF IsOpen, Opening, Closing
<1>8. \A k \in Lv \ {lv} : (InCount(k) <=> IsOpen(k)) /\ (InCount(k)' <=> IsOpen(k))
  BY <1>2, <1>3, <1>7 DEF InCount, NoAdj
<1> DEFINE s == Counted \ {lv}
<1>9. s \in SUBSET Lv /\ lv \notin s /\ s \cup {lv} \in SUBSET Lv
  BY DEF Counted
<1>10. opencount[VgOf[lv]] = 0 <=> VgOf[lv] \notin Groups(s)
  <2>1. OpenIn(VgOf[lv]) \ {lv} = {k \in s : VgOf[k] = VgOf[lv]}
    BY <1>8 DEF OpenIn, Counted
  <2> QED
    BY <1>7, <1>9, <2>1, GroupShared DEF CInv
<1>11. /\ Cardinality(s \cup {lv}) = Cardinality(s) + 1
       /\ Cardinality(Groups(s \cup {lv})) =
            IF VgOf[lv] \in Groups(s) THEN Cardinality(Groups(s))
            ELSE Cardinality(Groups(s)) + 1
       /\ Cardinality(s) \in Nat /\ Cardinality(Groups(s)) \in Nat
  BY <1>9, AddVolume, FiniteVolumes
<1>12. lvs_opn' = Cardinality(Counted') /\ vgs_opn' = Cardinality(Groups(Counted'))
  <2>1. lvs_opn = Cardinality(Counted) /\ vgs_opn = Cardinality(Groups(Counted))
    BY DEF CInv, Counts
  <2>2. CASE Opening(lv)
    <3>1. InCount(lv)' /\ ~InCount(lv) /\ Sign(lv) = 1
      BY <1>1, <1>2, <1>7, <2>2 DEF InCount, Opening, Sign
    <3>2. Counted = s /\ Counted' = s \cup {lv}
      BY <1>8, <3>1 DEF Counted
    <3> QED
      BY <1>1, <1>10, <1>11, <2>1, <3>1, <3>2
  <2>3. CASE Closing(lv)
    <3>1. ~InCount(lv)' /\ InCount(lv) /\ Sign(lv) = -1
      BY <1>1, <1>2, <1>7, <2>3 DEF InCount, Closing, Sign
    <3>2. Counted = s \cup {lv} /\ Counted' = s
      BY <1>8, <3>1 DEF Counted
    <3> QED
      BY <1>1, <1>10, <1>11, <2>1, <3>1, <3>2
  <2> QED
    BY <1>4, <2>2, <2>3
<1>13. Counts'
  <2>1. \A vg \in Vg : OpenIn(vg)' = OpenIn(vg)
    BY <1>7 DEF OpenIn
  <2> QED
    BY <1>1, <1>12, <2>1 DEF CInv, Counts, Vg, Groups
<1>14. Target(lv)'
  <2>1. Counted' \in SUBSET Lv
    BY DEF Counted
  <2>2. vgs_opn' \in Nat /\ lvs_opn' \in Nat /\ (lvs_opn' > 0 => vgs_opn' > 0)
        /\ (lvs_opn' = 0 => vgs_opn' = 0)
    BY <1>12, <2>1, FiniteVolumes
  <2>3. /\ left = Numpbufs(vgs_opn', lvs_opn') - pbuf_cnt
        /\ pbuf_cnt \in Int /\ pbuf_cnt >= 0
    BY <1>1 DEF left, Delta, CInv, PoolSized, IInv, TypeOK
  <2>4. /\ Numpbufs(vgs_opn', lvs_opn') \in Int /\ Numpbufs(vgs_opn', lvs_opn') >= 0
        /\ lvs_opn' > 0 => Numpbufs(vgs_opn', lvs_opn') >= Grab
        /\ lvs_opn' = 0 => Numpbufs(vgs_opn', lvs_opn') = 0
    BY <2>2, NumpbufsSize DEF CInv
  <2>5. Grab \in Nat
    BY OpenAssumption
  <2>6. left \in Int /\ pbuf_cnt + left = Numpbufs(vgs_opn', lvs_opn')
    BY <2>3, <2>4
  <2>7. pbuf_cnt' = pbuf_cnt /\ adj'[lv].left = left /\ (adj'[lv].grow <=> left > 0)
    BY <1>1, <1>2
  <2>8. /\ pbuf_cnt + left >= 0 /\ (lvs_opn' > 0 => pbuf_cnt + left >= Grab)
        /\ lvs_opn' = 0 => pbuf_cnt + left = 0
    BY <2>4, <2>6
  <2> QED
    BY <2>3, <2>6, <2>7, <2>8 DEF Target
<1>15. PoolSized'
  <2>1. \A k \in Lv : adj'[k].pc = "pool" => k = lv
    BY <1>2, <1>3 DEF NoAdj
  <2> QED
    BY <1>1, <1>7, <1>14, <2>1 DEF CInv, PoolSized
<1> QED
  BY <1>6, <1>13, <1>15

\* The pool grows to what is wanted, or shrinks no further.
LEMMA PoolCounts ==
  ASSUME MaxNoMem = 0, CInv, NEW lv \in Lv, Grow(lv) \/ Shrink(lv)
  PROVE  OneAtATime' /\ Counts' /\ (\A k \in Lv : VolumeOk(k)') /\ PoolSized'
<1>1. PICK l \in Int :
        /\ adj' = [adj EXCEPT ![lv] = [adj[lv] EXCEPT !.left = l]]
        /\ \/ adj[lv].left > 0 /\ l = adj[lv].left - 1 /\ pbuf_cnt' = pbuf_cnt + 1
           \/ adj[lv].left < 0 /\ l = adj[lv].left + 1 /\ pbuf_cnt' = pbuf_cnt - 1
           \/ adj[lv].left < 0 /\ l = 0 /\ pbuf_cnt' = pbuf_cnt /\ freebuf = 0
        /\ UNCHANGED <<status, ref, holders, opencount, vgs_opn, lvs_opn, nomem>>
  <2>1. adj \in [Lv -> Adjustment] /\ adj[lv].left \in Int /\ nomem = 0
    BY DEF CInv, IInv, TypeOK, Adjustment, PoolSized
  <2>2. adj[lv].left + 1 \in Int /\ adj[lv].left - 1 \in Int /\ 0 \in Int
    BY <2>1
  <2> QED
    BY <2>1, <2>2 DEF Grow, Shrink, pool, opns, CountOne, NoneFree
<1>2. /\ adj \in [Lv -> Adjustment] /\ adj[lv].left \in Int /\ pbuf_cnt \in Int
      /\ lvs_opn \in Int /\ adj[lv].grow \in BOOLEAN /\ Grab \in Nat
  BY OpenAssumption DEF CInv, IInv, TypeOK, Adjustment
<1>3. /\ adj'[lv].op = adj[lv].op /\ adj'[lv].pc = adj[lv].pc /\ adj'[lv].fmt = adj[lv].fmt
      /\ adj'[lv].grow = adj[lv].grow /\ adj'[lv].left = l
      /\ \A k \in Lv \ {lv} : adj'[k] = adj[k]
  BY <1>1, <1>2 DEF Adjustment
<1>4. adj[lv].pc = "pool" /\ adj[lv] # NoAdj /\ \A k \in Lv \ {lv} : adj[k] = NoAdj
  BY <1>1, <1>2 DEF NoAdj, CInv, OneAtATime, VolumeOk
<1>5. VolumeOk(lv)'
  <2>1. VolumeOk(lv) /\ (Opening(lv) \/ Closing(lv))
    BY <1>4 DEF CInv, VolumeOk, Resting
  <2> QED
    BY <1>1, <1>3, <2>1 DEF VolumeOk, Opening, Closing, Holding
<1>6. OneAtATime' /\ \A k \in Lv : VolumeOk(k)'
  BY <1>1, <1>3, <1>4, <1>5, OneVolume
<1>7. \A k \in Lv : (IsOpen(k)' <=> IsOpen(k)) /\ (InCount(k)' <=> InCount(k))
  BY <1>1, <1>3 DEF IsOpen, InCount
<1>8. Counts'
  <2>1. Counted' = Counted /\ \A vg \in Vg : OpenIn(vg)' = OpenIn(vg)
    BY <1>7 DEF Counted, OpenIn
  <2> QED
    BY <1>1, <2>1 DEF CInv, Counts, Vg, Groups
<1>9. Target(lv) /\ pbuf_cnt >= 0
  BY <1>4 DEF CInv, PoolSized
<1>10. Target(lv)' /\ pbuf_cnt' >= 0
  <2>1. lvs_opn = 0 => pbuf_cnt = freebuf
    BY AllFree DEF CInv
  <2> QED
    BY <1>1, <1>2, <1>3, <1>9, <2>1 DEF Target
<1>11. ASSUME NEW k \in Lv, IsOpen(k) PROVE pbuf_cnt' >= Grab
  <2>1. lvs_opn > 0
    BY <1>11, IsCounted DEF InCount, CInv
  <2>2. pbuf_cnt >= Grab /\ pbuf_cnt + adj[lv].left >= Grab
    BY <1>9, <1>11, <2>1 DEF Target, CInv, PoolSized
  <2> QED
    BY <1>1, <1>2, <2>2
<1>12. PoolSized'
  <2>1. \A k \in Lv : adj'[k].pc = "pool" => k = lv
    BY <1>3, <1>4 DEF NoAdj
  <2> QED
    BY <1>1, <1>3, <1>4, <1>7, <1>10, <1>11, <2>1 DEF CInv, PoolSized
<1> QED
  BY <1>6, <1>8, <1>12

\* lv_openlv or lv_closelv comes to lv_adjpool.
LEMMA EnterFields ==
  ASSUME IInv, NEW lv \in Lv, NEW op, NEW fmt, Enter(lv, op, fmt)
  PROVE  /\ adj'[lv].op = op /\ adj'[lv].pc = "count" /\ adj'[lv].fmt = fmt
         /\ adj'[lv].left = 0
         /\ \A k \in Lv \ {lv} : adj'[k] = adj[k]
  BY DEF Enter, NoAdj, IInv, TypeOK

\* lv_open: an open volume is open in one more way, or lv_openlv begins.
LEMMA OpenCounts ==
  ASSUME Parallel = 1, CInv, NEW lv \in Lv, NEW fmt \in Fmt, Open(lv, fmt)
  PROVE  OneAtATime' /\ Counts' /\ (\A k \in Lv : VolumeOk(k)') /\ PoolSized'
<1>1. /\ UNCHANGED <<pool, opns, nomem>> /\ UNCHANGED <<ref, holders, opencount>>
      /\ fmt # "FAKE" /\ fmt \in Modes /\ fmt # "OPEN"
  BY OpenAssumption DEF Open, Modes
<1>2. \A k \in Lv : adj[k] = NoAdj
  BY NobodyIn DEF Open, MayWrite, CInv
<1>3. VolumeOk(lv) /\ Resting(lv) /\ status \in [Lv -> SUBSET (Modes \cup {"OPEN"})]
  BY <1>2 DEF CInv, IInv, TypeOK, VolumeOk, Opening, Closing, NoAdj
<1>4. holders[lv] \in Nat /\ ref[lv] \in Nat /\ holders[lv] = ref[lv]
  BY <1>2, <1>3 DEF CInv, IInv, TypeOK, VolumeOk, Holding, NoAdj
<1>5. CASE IsOpen(lv)
  <2>1. status' = [status EXCEPT ![lv] = @ \cup {fmt}] /\ adj' = adj
    BY <1>5 DEF Open
  <2>2. /\ status'[lv] = status[lv] \cup {fmt}
        /\ \A k \in Lv \ {lv} : status'[k] = status[k]
    BY <1>3, <2>1
  <2>3. VolumeOk(lv)' /\ IsOpen(lv)'
    BY <1>1, <1>2, <1>3, <1>5, <2>1, <2>2
       DEF VolumeOk, Resting, Holding, IsOpen, NoAdj
  <2>4. OneAtATime' /\ \A k \in Lv : VolumeOk(k)'
    BY <1>1, <1>2, <2>1, <2>2, <2>3, OneVolume
  <2>5. Counts' /\ PoolSized'
    BY <1>1, <1>2, <1>5, <2>1, <2>2, <2>3, CountFrame DEF InCount, NoAdj
  <2> QED
    BY <2>4, <2>5
<1>6. CASE ~IsOpen(lv)
  <2>1. Enter(lv, "open", {fmt}) /\ status' = status
    BY <1>6 DEF Open
  <2>2. /\ adj'[lv].op = "open" /\ adj'[lv].pc = "count" /\ adj'[lv].fmt = {fmt}
        /\ adj'[lv].left = 0 /\ \A k \in Lv \ {lv} : adj'[k] = adj[k]
    BY <2>1, EnterFields DEF CInv
  <2>3. status[lv] = {} /\ holders[lv] = 0
    BY <1>3, <1>4, <1>6 DEF Resting, IsOpen, Modes
  <2>4. VolumeOk(lv)' /\ ~IsOpen(lv)'
    BY <1>1, <1>4, <1>6, <2>1, <2>2, <2>3 DEF VolumeOk, Opening, Holding, IsOpen
  <2>5. OneAtATime' /\ \A k \in Lv : VolumeOk(k)'
    BY <1>1, <1>2, <2>1, <2>2, <2>4, OneVolume
  <2>6. Counts' /\ PoolSized'
    BY <1>1, <1>2, <1>6, <2>1, <2>2, <2>4, CountFrame DEF InCount, NoAdj
  <2> QED
    BY <2>5, <2>6
<1> QED
  BY <1>5, <1>6

\* The same for a command that holds the volume (lv_lvhold).
LEMMA HoldCounts ==
  ASSUME Parallel = 1, CInv, NEW lv \in Lv, Hold(lv)
  PROVE  OneAtATime' /\ Counts' /\ (\A k \in Lv : VolumeOk(k)') /\ PoolSized'
<1>1. UNCHANGED <<pool, opns, nomem>> /\ opencount' = opencount
  BY DEF Hold
<1>2. \A k \in Lv : adj[k] = NoAdj
  BY NobodyIn DEF Hold, CInv
<1>3. VolumeOk(lv) /\ Resting(lv) /\ status \in [Lv -> SUBSET (Modes \cup {"OPEN"})]
  BY <1>2 DEF CInv, IInv, TypeOK, VolumeOk, Opening, Closing, NoAdj
<1>4. /\ holders[lv] \in Nat /\ ref[lv] \in Nat /\ holders[lv] = ref[lv]
      /\ holders \in [Lv -> Nat] /\ ref \in [Lv -> Nat]
  BY <1>2, <1>3 DEF CInv, IInv, TypeOK, VolumeOk, Holding, NoAdj
<1>5. /\ status'[lv] = IF ref[lv] = 0 THEN status[lv] \cup {"FAKE"} ELSE status[lv]
      /\ ref'[lv] = ref[lv] + 1
      /\ \A k \in Lv \ {lv} : status'[k] = status[k] /\ ref'[k] = ref[k]
  BY <1>3, <1>4 DEF Hold
<1>6. IsOpen(lv)' <=> IsOpen(lv)
  BY <1>5 DEF IsOpen
<1>7. CASE IsOpen(lv)
  <2>1. holders' = [holders EXCEPT ![lv] = @ + 1] /\ adj' = adj
    BY <1>7 DEF Hold
  <2>2. holders'[lv] = holders[lv] + 1 /\ \A k \in Lv \ {lv} : holders'[k] = holders[k]
    BY <1>4, <2>1
  <2>3. "FAKE" \in status'[lv] /\ "FAKE" \in Modes
    BY <1>3, <1>4, <1>5 DEF Resting, Modes
  <2>4. VolumeOk(lv)'
    BY <1>2, <1>4, <1>5, <1>6, <1>7, <2>1, <2>2, <2>3
       DEF VolumeOk, Resting, Holding, NoAdj
  <2>5. OneAtATime' /\ \A k \in Lv : VolumeOk(k)'
    BY <1>2, <1>5, <2>1, <2>2, <2>4, OneVolume
  <2>6. Counts' /\ PoolSized'
    BY <1>1, <1>2, <1>5, <1>6, <2>1, CountFrame DEF InCount, NoAdj
  <2> QED
    BY <2>5, <2>6
<1>8. CASE ~IsOpen(lv)
  <2>1. Enter(lv, "open", {"FAKE"}) /\ holders' = holders
    BY <1>8 DEF Hold
  <2>2. /\ adj'[lv].op = "open" /\ adj'[lv].pc = "count" /\ adj'[lv].fmt = {"FAKE"}
        /\ adj'[lv].left = 0 /\ \A k \in Lv \ {lv} : adj'[k] = adj[k]
    BY <2>1, EnterFields DEF CInv
  <2>3. status[lv] = {} /\ holders[lv] = 0
    BY <1>3, <1>4, <1>8 DEF Resting, IsOpen, Modes
  <2>4. status'[lv] = {"FAKE"}
    BY <1>4, <1>5, <2>3
  <2>5. VolumeOk(lv)'
    BY <1>4, <1>5, <2>1, <2>2, <2>3, <2>4 DEF VolumeOk, Opening, Holding
  <2>6. OneAtATime' /\ \A k \in Lv : VolumeOk(k)'
    BY <1>2, <1>5, <2>1, <2>2, <2>5, OneVolume
  <2>7. Counts' /\ PoolSized'
    BY <1>1, <1>2, <1>5, <1>6, <1>8, <2>2, CountFrame DEF InCount, NoAdj
  <2> QED
    BY <2>6, <2>7
<1> QED
  BY <1>7, <1>8

\* lv_closelv: other openers have the volume, or it is closed.
LEMMA CloseLvCounts ==
  ASSUME CInv, NEW lv \in Lv, NEW st, NEW op \in {"close", "release"},
         CloseLv(lv, st, op), UNCHANGED <<pool, opns, nomem>>,
         \A k \in Lv : adj[k] = NoAdj,
         \A k \in Lv \ {lv} : ref'[k] = ref[k] /\ holders'[k] = holders[k],
         st \in SUBSET status[lv], IsOpen(lv) => "OPEN" \in st,
         status[lv] \cap Modes # {}, ref'[lv] = holders'[lv], holders'[lv] \in Nat,
         "FAKE" \in st <=> holders'[lv] > 0
  PROVE  OneAtATime' /\ Counts' /\ (\A k \in Lv : VolumeOk(k)') /\ PoolSized'
<1>1. Resting(lv) /\ IsOpen(lv) /\ status \in [Lv -> SUBSET (Modes \cup {"OPEN"})]
  <2>1. VolumeOk(lv) /\ status \in [Lv -> SUBSET (Modes \cup {"OPEN"})]
    BY DEF CInv, IInv, TypeOK
  <2>2. Resting(lv)
    BY <2>1 DEF VolumeOk, Opening, Closing, NoAdj
  <2> QED
    BY <2>1, <2>2 DEF Resting
<1>2. CASE st \cap Modes # {}
  <2>1. status' = [status EXCEPT ![lv] = st] /\ UNCHANGED <<adj, opencount>>
    BY <1>2 DEF CloseLv
  <2>2. status'[lv] = st /\ \A k \in Lv \ {lv} : status'[k] = status[k]
    BY <1>1, <2>1
  <2>3. VolumeOk(lv)' /\ IsOpen(lv)'
    BY <1>1, <1>2, <2>1, <2>2 DEF VolumeOk, Resting, Holding, IsOpen, NoAdj
  <2>4. OneAtATime' /\ \A k \in Lv : VolumeOk(k)'
    BY <2>1, <2>2, <2>3, OneVolume
  <2>5. Counts' /\ PoolSized'
    BY <1>1, <2>1, <2>2, <2>3, CountFrame DEF InCount, NoAdj
  <2> QED
    BY <2>4, <2>5
<1>3. CASE st \cap Modes = {}
  <2>1. /\ status' = [status EXCEPT ![lv] = {}]
        /\ opencount' = [opencount EXCEPT ![VgOf[lv]] = @ - 1]
        /\ Enter(lv, op, {})
    BY <1>3 DEF CloseLv
  <2>2. status'[lv] = {} /\ \A k \in Lv \ {lv} : status'[k] = status[k]
    BY <1>1, <2>1
  <2>3. /\ adj'[lv].op = op /\ adj'[lv].pc = "count" /\ adj'[lv].fmt = {}
        /\ adj'[lv].left = 0 /\ \A k \in Lv \ {lv} : adj'[k] = adj[k]
    BY <2>1, EnterFields DEF CInv
  <2>4. holders'[lv] = 0 /\ ref'[lv] = 0
    BY <1>3 DEF Modes
  <2>5. VolumeOk(lv)' /\ ~IsOpen(lv)'
    BY <2>2, <2>3, <2>4 DEF VolumeOk, Closing, Holding, IsOpen
  <2>6. OneAtATime' /\ \A k \in Lv : VolumeOk(k)'
    BY <2>2, <2>3, <2>5, OneVolume
  <2>7. InCount(lv)' /\ InCount(lv)
    BY <1>1, <2>3 DEF InCount
  <2>8. adj[lv].pc # "pool" /\ adj'[lv].pc # "pool"
    BY <2>3 DEF NoAdj
  <2>9. Counts' /\ PoolSized'
    BY <1>1, <2>1, <2>2, <2>3, <2>5, <2>7, <2>8, CountFrame
  <2> QED
    BY <2>6, <2>9
<1> QED
  BY <1>2, <1>3

\* lv_close: one way in which the volume is open is taken away.
LEMMA CloseCounts ==
  ASSUME Parallel = 1, CInv, NEW lv \in Lv, NEW fmt \in Fmt, Close(lv, fmt)
  PROVE  OneAtATime' /\ Counts' /\ (\A k \in Lv : VolumeOk(k)') /\ PoolSized'
<1>1. /\ CloseLv(lv, status[lv] \ {fmt}, "close") /\ UNCHANGED <<ref, holders>>
      /\ UNCHANGED <<pool, opns, nomem>>
      /\ fmt \in status[lv] /\ fmt # "FAKE" /\ fmt \in Modes /\ fmt # "OPEN"
  BY OpenAssumption DEF Close, Modes
<1>2. \A k \in Lv : adj[k] = NoAdj
  BY NobodyIn DEF Close, CInv
<1>3. VolumeOk(lv) /\ Resting(lv)
  BY <1>2 DEF CInv, VolumeOk, Opening, Closing, NoAdj
<1>4. ref[lv] = holders[lv] /\ holders[lv] \in Nat
  BY <1>2, <1>3 DEF VolumeOk, Holding, NoAdj, CInv, IInv, TypeOK
<1>5. /\ status[lv] \ {fmt} \in SUBSET status[lv]
      /\ IsOpen(lv) => "OPEN" \in status[lv] \ {fmt}
      /\ status[lv] \cap Modes # {}
      /\ "FAKE" \in status[lv] \ {fmt} <=> holders[lv] > 0
  BY <1>1, <1>3 DEF IsOpen, Resting
<1> QED
  BY <1>1, <1>2, <1>4, <1>5, CloseLvCounts

\* lv_lvrelease: the last command that holds the volume takes LV_FAKEOPEN away.
LEMMA ReleaseCounts ==
  ASSUME Parallel = 1, CInv, NEW lv \in Lv, Release(lv)
  PROVE  OneAtATime' /\ Counts' /\ (\A k \in Lv : VolumeOk(k)') /\ PoolSized'
<1>1. /\ CloseLv(lv, Unheld(lv), "release") /\ holders[lv] > 0
      /\ ref' = [ref EXCEPT ![lv] = @ - 1] /\ holders' = [holders EXCEPT ![lv] = @ - 1]
      /\ UNCHANGED <<pool, opns, nomem>>
  BY DEF Release
<1>2. \A k \in Lv : adj[k] = NoAdj
  BY NobodyIn DEF Release, MayWrite, CInv
<1>3. VolumeOk(lv) /\ Resting(lv) /\ ref \in [Lv -> Nat] /\ holders \in [Lv -> Nat]
  BY <1>2 DEF CInv, IInv, TypeOK, VolumeOk, Opening, Closing, NoAdj
<1>4. ref[lv] = holders[lv] /\ holders[lv] \in Nat
  BY <1>2, <1>3 DEF VolumeOk, Holding, NoAdj
<1>5. /\ ref'[lv] = holders'[lv] /\ holders'[lv] = holders[lv] - 1 /\ holders'[lv] \in Nat
      /\ \A k \in Lv \ {lv} : ref'[k] = ref[k] /\ holders'[k] = holders[k]
  BY <1>1, <1>3, <1>4
<1>6. /\ Unheld(lv) \in SUBSET status[lv]
      /\ IsOpen(lv) => "OPEN" \in Unheld(lv)
      /\ status[lv] \cap Modes # {}
      /\ "FAKE" \in Unheld(lv) <=> holders'[lv] > 0
  BY <1>1, <1>3, <1>4, <1>5 DEF IsOpen, Resting, Unheld, Modes
<1> QED
  BY <1>1, <1>2, <1>5, <1>6, CloseLvCounts

\* lv_adjpool has brought the pool to its size, and the volume is open or closed.
LEMMA EndCounts ==
  ASSUME CInv, NEW lv \in Lv, OpenEnd(lv) \/ CloseEnd(lv)
  PROVE  OneAtATime' /\ Counts' /\ (\A k \in Lv : VolumeOk(k)') /\ PoolSized'
<1>1. /\ adj[lv].pc = "pool" /\ adj[lv].left = 0 /\ adj' = [adj EXCEPT ![lv] = NoAdj]
      /\ ref' = ref /\ UNCHANGED <<pool, nomem>>
  BY DEF OpenEnd, CloseEnd
<1>2. /\ adj'[lv] = NoAdj /\ \A k \in Lv \ {lv} : adj'[k] = adj[k]
      /\ status \in [Lv -> SUBSET (Modes \cup {"OPEN"})] /\ holders \in [Lv -> Nat]
      /\ pbuf_cnt \in Int /\ lvs_opn \in Int /\ Grab \in Nat /\ adj[lv].grow \in BOOLEAN
      /\ adj[lv].fmt \in SUBSET Modes
  BY <1>1, OpenAssumption DEF CInv, IInv, TypeOK, Adjustment
<1>3. VolumeOk(lv) /\ Target(lv)
  BY <1>1 DEF CInv, PoolSized
<1>4. CASE OpenEnd(lv)
  <2>1. Opening(lv)
    BY <1>3, <1>4 DEF VolumeOk, Resting, Closing, OpenEnd, NoAdj
  <2>2. ~(adj[lv].grow /\ pbuf_cnt = 0)
    BY <1>1, <1>2, <1>3 DEF Target
  <2>3. /\ status' = [status EXCEPT ![lv] = @ \cup {"OPEN"} \cup adj[lv].fmt]
        /\ opencount' = [opencount EXCEPT ![VgOf[lv]] = @ + 1]
        /\ holders' = [holders EXCEPT ![lv] = IF "FAKE" \in adj[lv].fmt THEN @ + 1 ELSE @]
        /\ UNCHANGED opns
    BY <1>4, <2>2 DEF OpenEnd
  <2>4. /\ status'[lv] = {"OPEN"} \cup adj[lv].fmt
        /\ holders'[lv] = IF "FAKE" \in adj[lv].fmt THEN 1 ELSE 0
        /\ \A k \in Lv \ {lv} : status'[k] = status[k] /\ holders'[k] = holders[k]
    BY <1>2, <2>1, <2>3 DEF Opening
  <2>5. IsOpen(lv)' /\ ~IsOpen(lv) /\ InCount(lv)' /\ InCount(lv)
    BY <1>1, <2>1, <2>4 DEF IsOpen, InCount, Opening
  <2>6. VolumeOk(lv)'
    BY <1>1, <1>2, <1>3, <2>1, <2>4, <2>5
       DEF VolumeOk, Resting, Opening, Holding, NoAdj, Modes
  <2>7. OneAtATime' /\ \A k \in Lv : VolumeOk(k)'
    BY <1>1, <1>2, <2>4, <2>6, OneVolume
  <2>8. pbuf_cnt >= Grab
    <3>1. lvs_opn > 0
      BY <2>5, IsCounted DEF CInv
    <3> QED
      BY <1>1, <1>2, <1>3, <3>1 DEF Target
  <2>9. UNCHANGED <<pool, opns, nomem>>
    BY <1>1, <2>3
  <2>10. adj'[lv].pc # "pool"
    BY <1>2 DEF NoAdj
  <2>11. Counts' /\ PoolSized'
    BY <1>1, <1>2, <2>3, <2>4, <2>5, <2>8, <2>9, <2>10, CountFrame
  <2> QED
    BY <2>7, <2>11
<1>5. CASE CloseEnd(lv)
  <2>1. Closing(lv) /\ UNCHANGED <<status, holders, opencount>> /\ UNCHANGED opns
    BY <1>3, <1>5 DEF VolumeOk, Resting, Opening, CloseEnd, NoAdj
  <2>2. ~IsOpen(lv)' /\ ~IsOpen(lv) /\ ~InCount(lv)' /\ ~InCount(lv)
    BY <1>1, <1>2, <2>1 DEF IsOpen, InCount, Closing, NoAdj
  <2>3. VolumeOk(lv)'
    BY <1>1, <1>2, <1>3, <2>1, <2>2 DEF VolumeOk, Resting, Closing, Holding, NoAdj
  <2>4. OneAtATime' /\ \A k \in Lv : VolumeOk(k)'
    BY <1>1, <1>2, <2>1, <2>3, OneVolume
  <2>5. Counts' /\ PoolSized'
    BY <1>1, <1>2, <2>1, <2>2, CountFrame DEF NoAdj
  <2> QED
    BY <2>4, <2>5
<1> QED
  BY <1>4, <1>5

\* Nothing is open at the start.
LEMMA InitiallyCounted == Init => CInv
<1> SUFFICES ASSUME Init PROVE CInv
  OBVIOUS
<1>1. IInv /\ UInv
  BY Initially, InitiallyUsers
<1>2. /\ \A lv \in Lv : /\ adj[lv] = NoAdj /\ status[lv] = {}
                        /\ holders[lv] = 0 /\ ref[lv] = 0
      /\ \A vg \in Vg : opencount[vg] = 0
      /\ vgs_opn = 0 /\ lvs_opn = 0 /\ pbuf_cnt = 0 /\ nomem = 0
  BY DEF Init
<1>3. OneAtATime
  BY <1>2 DEF OneAtATime
<1>4. \A lv \in Lv : VolumeOk(lv) /\ ~IsOpen(lv) /\ ~InCount(lv) /\ adj[lv].pc # "pool"
  BY <1>2 DEF VolumeOk, Resting, Holding, IsOpen, InCount, NoAdj
<1>5. Counts
  <2>1. Counted = {} /\ Groups(Counted) = {} /\ \A vg \in Vg : OpenIn(vg) = {}
    BY <1>4 DEF Counted, Groups, OpenIn
  <2> QED
    BY <1>2, <2>1, FS_EmptySet DEF Counts
<1>6. PoolSized
  BY <1>2, <1>4 DEF PoolSized
<1> QED
  BY <1>1, <1>3, <1>4, <1>5, <1>6 DEF CInv

\* Every step keeps the counts and the size of the pool.
LEMMA InvarianceCounted ==
  ASSUME Parallel = 1, MaxNoMem = 0, CInv, [Next]_vars
  PROVE  CInv'
<1>1. IInv' /\ UInv'
  BY Invariance, InvarianceUsers DEF CInv
<1>2. OneAtATime' /\ Counts' /\ (\A lv \in Lv : VolumeOk(lv)') /\ PoolSized'
  <2>1. CASE \E lv \in Lv : AdjStep(lv)
    BY <2>1, AdjustCounts, PoolCounts, EndCounts DEF AdjStep
  <2>2. CASE \E lv \in Lv, fmt \in Fmt : Open(lv, fmt) \/ Close(lv, fmt)
    BY <2>2, OpenCounts, CloseCounts
  <2>3. CASE \E lv \in Lv : Hold(lv) \/ Release(lv)
    BY <2>3, HoldCounts, ReleaseCounts
  <2>4. CASE \E r \in Req : Submit(r) \/ Free(r) \/ FreeUnused(r)
    <3>1. UNCHANGED <<lvs, opns, pbuf_cnt, nomem>>
      BY <2>4 DEF Submit, Free, FreeUnused, pool
    <3> QED
      BY <3>1, VolumesAlone
  <2>5. CASE CallThread \/ Reschedule
    <3>1. UNCHANGED <<lvs, opns, pbuf_cnt, nomem>>
      BY <2>5 DEF CallThread, Reschedule, pool
    <3> QED
      BY <3>1, VolumesAlone
  <2>6. CASE UNCHANGED vars
    <3>1. UNCHANGED <<lvs, opns, pbuf_cnt, nomem>>
      BY <2>6 DEF vars, pool
    <3> QED
      BY <3>1, VolumesAlone
  <2> QED
    BY <2>1, <2>2, <2>3, <2>4, <2>5, <2>6, Zenon DEF Next
<1> QED
  BY <1>1, <1>2, Zenon DEF CInv

\* So they hold in every reachable state.
LEMMA CountedAlways ==
  ASSUME Parallel = 1, MaxNoMem = 0
  PROVE  Spec => []CInv
<1>1. CInv /\ [Next]_vars => CInv'
  BY InvarianceCounted
<1> QED
  BY <1>1, InitiallyCounted, PTL DEF Spec

\* vg_opencount, lvs_opn, vgs_opn, lv_ref and lv_status agree whenever nobody is in
\* lv_adjpool, however many commands hold a volume: where one volume at a time is, and
\* memory is never short (lv_open, lv_close, lv_lvhold, lv_lvrelease, lv_adjpool).
THEOREM CountsAreExact ==
  ASSUME Parallel = 1, MaxNoMem = 0
  PROVE  Spec => []CountsExact
<1>1. CInv => CountsExact
  <2> SUFFICES ASSUME CInv, Quiet PROVE CountsExact
    BY DEF CountsExact
  <2>1. \A lv \in Lv : Resting(lv)
    BY DEF CInv, VolumeOk, Opening, Closing, Quiet, NoAdj
  <2>2. \A lv \in Lv : InCount(lv) <=> IsOpen(lv)
    BY DEF InCount, Quiet, NoAdj
  <2>3. Counted = {lv \in Lv : IsOpen(lv)}
    BY <2>2 DEF Counted
  <2>4. \A vg \in Vg : opencount[vg] = Cardinality({lv \in Lv : VgOf[lv] = vg /\ IsOpen(lv)})
    BY DEF CInv, Counts, OpenIn
  <2>5. /\ lvs_opn = Cardinality({lv \in Lv : IsOpen(lv)})
        /\ vgs_opn = Cardinality({VgOf[lv] : lv \in {k \in Lv : IsOpen(k)}})
    BY <2>3 DEF CInv, Counts, Groups
  <2> QED
    BY <2>1, <2>4, <2>5 DEF CountsExact, Resting
<1> QED
  BY <1>1, CountedAlways, PTL

\* "The appropriate number of pbufs are now in the pool" (lv_pbuf.c, 105): the pool is
\* large enough for one request for as long as its volume is open, while other volumes
\* are opened and closed, and empty when all are closed (271), under the same conditions.
THEOREM PoolIsAdjusted ==
  ASSUME Parallel = 1, MaxNoMem = 0, \A r \in Req : Need[r] <= Grab
  PROVE  Spec => []PoolFits
<1>1. CInv => PoolCovers
  <2> SUFFICES ASSUME CInv, NEW r \in Req, IsOpen(LvOf[r]) PROVE pbuf_cnt >= Need[r]
    BY DEF PoolCovers
  <2>1. LvOf[r] \in Lv /\ Need[r] \in 1 .. 3 /\ Grab \in Nat
    BY OpenAssumption
  <2>2. pbuf_cnt \in Int /\ pbuf_cnt >= Grab /\ Need[r] <= Grab
    BY <2>1 DEF CInv, PoolSized, IInv, TypeOK
  <2> QED
    BY <2>1, <2>2
<1>2. CInv => Emptied
  <2> SUFFICES ASSUME CInv, Quiet, \A lv \in Lv : status[lv] = {} PROVE pbuf_cnt = 0
    BY DEF Emptied
  <2>1. \A lv \in Lv : adj[lv].pc # "pool" /\ ~InCount(lv)
    BY DEF Quiet, NoAdj, InCount, IsOpen
  <2>2. Counted = {}
    BY <2>1 DEF Counted
  <2>3. lvs_opn = 0
    BY <2>2, FS_EmptySet DEF CInv, Counts
  <2> QED
    BY <2>1, <2>3 DEF CInv, PoolSized
<1>3. CInv => PoolFits
  BY <1>1, <1>2 DEF PoolFits
<1> QED
  BY <1>3, CountedAlways, PTL

=============================================================================
