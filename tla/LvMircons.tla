----------------------------- MODULE LvMircons -----------------------------
(***************************************************************************)
(* The mirror write consistency manager (lv_mircons.c): before the copies  *)
(* of a logical track group (LTG) are written, its name is written in a    *)
(* record (MWC) on one of the physical volumes (PV) that hold a copy.      *)
(* After a crash the newest record among the attached PVs names the LTGs   *)
(* whose copies may differ; those are recovered, and copies that lie on    *)
(* PVs whose record cannot be read are made stale.                         *)
(*                                                                         *)
(* One write of a record is in flight at a time.  Requests wait for it on  *)
(* pv_cache_wait of its PV, and on vg_cache_wait for a free entry of the   *)
(* cache.  Reads, and writes that need no record (LVM_OPT_NOMWC), go       *)
(* straight to the scheduler and are left out.  Each LTG stands for an     *)
(* extent of its own.  The hash chains are one chain here; what they are   *)
(* searched for is the LTG anyway.                                         *)
(*                                                                         *)
(* Contexts: one thread below lv_mwcm and one interrupt below lv_mwc_done, *)
(* each of which takes vg_ca_intlock several times.  With one processor    *)
(* (MP = FALSE) the interrupt is not interleaved with the thread.          *)
(***************************************************************************)
EXTENDS Integers, SequencesExt

CONSTANTS
    NPV,        \* number of PVs
    Mirror,     \* mirror numbers, 0 ..
    Ltg, Lv,    \* LTGs and logical volumes
    LvOf, PvOf, \* the volume of an LTG, and the PV of each copy of it
    Entry,      \* entries of the cache (ca_size)
    Req,        \* requests that write
    MP,         \* there is more than one processor
    MayClean, MayAttach, MayLose,  \* lv_cache_clean, lv_attachpv, loss of quorum
    MaxClock,   \* bound on the times a changed record is written
    MaxErrors,  \* bound on failing writes and reads
    MayMiss,    \* PVs that may go missing
    MaxCrashes

PV == 0 .. NPV - 1
NoPv == -1           \* PX_NOPV, and no PV
None == "none"
Copy == Ltg \X Mirror

ASSUME MirconsAssumption ==
    /\ NPV \in Nat \ {0} /\ Mirror \subseteq Nat
    /\ IsFiniteSet(Mirror) /\ IsFiniteSet(Entry) /\ IsFiniteSet(Req)
    /\ LvOf \in [Ltg -> Lv] /\ PvOf \in [Copy -> PV \cup {NoPv}]
    /\ None \notin Ltg \cup Lv
    /\ {MP, MayClean, MayAttach, MayLose} \subseteq BOOLEAN
    /\ MayMiss \subseteq PV /\ {MaxClock, MaxErrors, MaxCrashes} \subseteq Nat

VARIABLES
    up,       \* "up", "down", or "recover" (being activated)
    c,        \* the cache and its queues in struct volgrp
    req,      \* the requests
    thr, intr,\* what the two contexts do next
    list,     \* what lv_mwc_cache_done has taken from pv_cache_wait, and
    err,      \* the B_ERROR of the record that they waited for
    disk,     \* the two records on each PV
    stale,    \* copies marked stale in the status area
    missing,  \* PVs marked missing in the status area
    away,     \* PVs with LVM_NOTATTACHED
    lost,     \* VG_LOST_QUORUM
    torn,     \* LTGs whose copies differ since a crash or a failed request
    recover,  \* entries of the newest record still to be recovered
    errors, crashes

vgsa == <<stale, missing, away, lost>>
vars == <<up, c, req, thr, intr, list, err, disk, vgsa, torn, recover, errors,
          crashes>>

CHANGING == "CACHE_ENTRY_CHANGING"
FROZEN == "CACHE_ENTRY_FROZEN"

NoEntry == [ltg |-> None, iocnt |-> 0, state |-> {}, pvol |-> NoPv]
NoReq   == [at |-> "idle", ltg |-> None]
NoRec   == [ts |-> 0, ltgs |-> {}]      \* one whose two timestamps differ

\* The cache after lv_cache_init, at a given time.
CacheInit(time) ==
    [ent |-> [e \in Entry |-> NoEntry],
     lru |-> SetToSeq(Entry),            \* from ca_lst (MRU) on
     chain |-> <<>>,                     \* ca_hash
     free |-> Cardinality(Entry),
     changed |-> FALSE,                  \* CACHE_CHANGED
     inflight |-> NoPv,                  \* CACHE_INFLIGHT, to which PV
     clean |-> None,                     \* CACHE_CLEAN and ca_clean_minor
     wait |-> <<>>,                      \* vg_cache_wait
     pvwait |-> [p \in PV |-> <<>>],     \* pv_cache_wait
     writeq |-> <<>>,                    \* vg_cache_write (PV_CACHE_QUEUED)
     toggle |-> [p \in PV |-> 0],        \* PV_CACHE_TOGGLE
     latest |-> {},                      \* PVs with pv_mwc_latest set
     clock |-> time,                     \* timestamp of the record in memory
     go |-> {}, done |-> {},             \* sched_Q and done_Q
     panic |-> FALSE]

Named(k) == {k.ent[e].ltg : e \in Entry} \ {None}     \* vg_mwc_rec

MirrorsOf(x) == {m \in Mirror : PvOf[x, m] # NoPv}
Lowest(S)  == CHOOSE m \in S : \A j \in S : m <= j
Highest(S) == CHOOSE m \in S : \A j \in S : m >= j

-----------------------------------------------------------------------------
(* The cache.                                                              *)

\* lv_search_cache: the first entry of the chain that names x.
Found(k, x) == {i \in 1 .. Len(k.chain) : k.ent[k.chain[i]].ltg = x}
Search(k, x) == k.chain[Lowest(Found(k, x))]

\* lv_cache_use: e becomes the most, or the least, recently used.
Without(q, e) == RemoveAt(q, CHOOSE i \in 1 .. Len(q) : q[i] = e)
Mru(q, e) == <<e>> \o Without(q, e)
Lru(q, e) == Append(Without(q, e), e)

Queued(k, p) == \E i \in 1 .. Len(k.writeq) : k.writeq[i] = p

\* lv_cache_queue: the PV whose record is to name x: one that is to be written
\* already, else that of the lowest-numbered mirror.
Piggyback(k, x) ==
    {m \in MirrorsOf(x) : /\ PvOf[x, m] \notin missing
                          /\ k.pvwait[PvOf[x, m]] # <<>>}
Place(k, x) ==
    IF Piggyback(k, x) # {} THEN PvOf[x, Highest(Piggyback(k, x))]
    ELSE PvOf[x, Lowest(MirrorsOf(x))]
NoPlace(k, x) == MirrorsOf(x) = {} \/ Place(k, x) \in missing

\* A slip: the PV is not queued.
QueueForgotten(k, e, r, x) ==
    [k EXCEPT !.ent[e].pvol = Place(k, x), !.pvwait[Place(k, x)] = Append(@, r)]

Queue(k, e, r, x) ==
    LET p == Place(k, x)
    IN  [k EXCEPT !.ent[e].pvol = p,
                  !.pvwait[p] = Append(@, r),
                  !.writeq = IF Queued(k, p) THEN @ ELSE Append(@, p)]

\* lv_cache_new: the entry least recently used of those without requests.
Idle(k) == {i \in 1 .. Len(k.lru) : k.ent[k.lru[i]].iocnt = 0}
Oldest(k) == k.lru[Highest(Idle(k))]
Unhashed(k, e) == k.ent[e].ltg # None /\ e \notin ToSet(k.chain)

\* lv_checkcache, the hit: entry e names the LTG of r, which goes on, or waits for the
\* write of the record.  A slip: nobody waits for a record that is being written.
HitUnrecorded(k, e, r) ==
    [k EXCEPT !.lru = Mru(@, e), !.ent[e].iocnt = @ + 1, !.go = @ \cup {r},
              !.free = IF k.ent[e].iocnt = 0 THEN @ - 1 ELSE @]

\* Another: the request does not count as one of the entry's.
HitUncounted(k, e, r) ==
    [k EXCEPT !.lru = Mru(@, e),
              !.go = IF k.ent[e].state = {CHANGING} THEN @ ELSE @ \cup {r},
              !.pvwait[k.ent[e].pvol] =
                  IF k.ent[e].state = {CHANGING} THEN Append(@, r) ELSE @]

Hit(k, e, r) ==
    LET h == [k EXCEPT !.lru = Mru(@, e), !.ent[e].iocnt = @ + 1,
                       !.free = IF k.ent[e].iocnt = 0 THEN @ - 1 ELSE @]
    IN  IF k.ent[e].state = {CHANGING}
        THEN [h EXCEPT !.pvwait[k.ent[e].pvol] = Append(@, r)]
        ELSE [h EXCEPT !.go = @ \cup {r}]

\* lv_checkcache, the miss, with a free entry.
Miss(k, r, x) ==
    IF Idle(k) = {} \/ Unhashed(k, Oldest(k)) THEN [k EXCEPT !.panic = TRUE]
    ELSE LET e == Oldest(k)
             n == IF e \in ToSet(k.chain) THEN [k EXCEPT !.chain = Without(@, e)] ELSE k
         IN  IF NoPlace(n, x) THEN [n EXCEPT !.done = @ \cup {r}]
             ELSE [Queue(n, e, r, x) EXCEPT
                     !.free = @ - 1, !.changed = TRUE,
                     !.ent[e] = [@ EXCEPT !.ltg = x, !.iocnt = 1, !.state = {CHANGING}],
                     !.chain = <<e>> \o @, !.lru = Mru(@, e)]

CheckCache(k, r, x) ==
    IF Found(k, x) # {} /\ (\/ k.ent[Search(k, x)].iocnt > 0
                            \/ FROZEN \notin k.ent[Search(k, x)].state)
    THEN Hit(k, Search(k, x), r)
    ELSE IF k.inflight = NoPv /\ k.free > 0 THEN Miss(k, r, x)
    ELSE [k EXCEPT !.wait = Append(@, r)]

\* lv_cache_start: a write of the record is started if one is wanted and none is
\* in flight.
CacheStart(k) ==
    IF k.inflight # NoPv \/ k.writeq = <<>> THEN k
    ELSE [k EXCEPT !.inflight = Head(k.writeq), !.writeq = Tail(@),
                   !.toggle[Head(k.writeq)] = 1 - @,
                   !.clock = IF k.changed THEN @ + 1 ELSE @, !.changed = FALSE]

\* lv_cache_remove and lv_cache_use: e is empty, and least recently used.
CacheRemove(k, e) ==
    IF e \notin ToSet(k.chain) THEN [k EXCEPT !.panic = TRUE]
    ELSE [k EXCEPT !.chain = Without(@, e), !.ent[e] = NoEntry,
                   !.lru = Lru(@, e)]

\* lv_cache_update: the record is to be written on all PVs that have one.
AllPvs == [i \in 1 .. NPV |-> i - 1]
QueueLatest(k, p) ==
    IF p \in k.latest \ missing /\ ~Queued(k, p)
    THEN [k EXCEPT !.writeq = Append(@, p)] ELSE k
CacheUpdate(k) == [FoldLeft(QueueLatest, k, AllPvs) EXCEPT !.changed = TRUE]

\* lv_cache_scrub: the entries of volume l are removed, except frozen ones.
Mine(k, l, e) ==
    k.ent[e].ltg # None /\ FROZEN \notin k.ent[e].state /\ LvOf[k.ent[e].ltg] = l
ScrubEntry(k, l, e) ==
    IF k.panic \/ ~Mine(k, l, e) THEN k
    ELSE IF k.ent[e].iocnt # 0 THEN [k EXCEPT !.panic = TRUE]
    ELSE CacheRemove(k, e)
Scrub(k, l) ==
    IF \E e \in Entry : Mine(k, l, e)
    THEN CacheUpdate(FoldLeft(LAMBDA n, e : ScrubEntry(n, l, e), k, Reverse(k.lru)))
    ELSE k

\* sched_Q is passed to lv_schedule and done_Q to lv_terminate.
Settle(k, q) ==
    /\ c' = [k EXCEPT !.go = {}, !.done = {}]
    /\ req' = [r \in Req |-> IF r \in k.done THEN NoReq
                             ELSE IF r \in k.go THEN [q[r] EXCEPT !.at = "below"]
                             ELSE q[r]]

-----------------------------------------------------------------------------
(* Requests and their completion.                                          *)

Running    == up = "up" /\ ~c.panic
ThreadRuns == Running /\ (MP \/ intr = "idle")

\* lv_mwcm: a request to write to x, on its way down (none comes from a volume that is
\* paused to be cleaned).
Mwcm(r, x) ==
    /\ ThreadRuns /\ thr = "idle"
    /\ req[r].at = "idle" /\ c.clean # LvOf[x] /\ c.clock < MaxClock
    /\ Settle(CheckCache(c, r, x), [req EXCEPT ![r] = [at |-> "held", ltg |-> x]])
    /\ thr' = "start"
    /\ UNCHANGED <<up, intr, list, err, disk, vgsa, torn, recover, errors, crashes>>

\* The end of lv_mwcm and of lv_mwc_done.
MwcmStart ==
    /\ ThreadRuns /\ thr = "start"
    /\ c' = CacheStart(c) /\ thr' = "idle"
    /\ UNCHANGED <<up, req, intr, list, err, disk, vgsa, torn, recover, errors, crashes>>

\* A slip: only lv_mwcm starts the write.
DoneIdle ==
    /\ Running /\ intr = "start" /\ intr' = "idle"
    /\ UNCHANGED <<up, c, req, thr, list, err, disk, vgsa, torn, recover, errors, crashes>>

DoneStart ==
    /\ Running /\ intr = "start"
    /\ c' = CacheStart(c) /\ intr' = "idle"
    /\ UNCHANGED <<up, req, thr, list, err, disk, vgsa, torn, recover, errors, crashes>>

\* The scheduler's part: a write reaches the copies of x that are not stale, except
\* those in bad, which become stale (but one, if all are bad) if the status area can
\* be written.
Fresh(x) == {m \in MirrorsOf(x) : <<x, m>> \notin stale}
Broken(x, bad) == IF bad = Fresh(x) THEN bad \ {Lowest(bad)} ELSE bad
Scheduled(x, broken, frozen) ==
    IF frozen
    THEN /\ torn' = torn \cup {x} /\ UNCHANGED stale
    ELSE /\ stale' = stale \cup {<<x, m>> : m \in broken} /\ UNCHANGED torn

\* A slip: the entry is counted as free whenever a request of it is done.
ReleaseEarly(k, e, frozen) ==
    [k EXCEPT !.ent[e].iocnt = @ - 1, !.free = @ + 1,
              !.ent[e].state = IF frozen THEN @ \cup {FROZEN} ELSE @]

\* The request's entry has one request less; it is free after the last one unless
\* the status area could not be written.
Release(k, e, frozen) ==
    LET state == IF frozen THEN k.ent[e].state \cup {FROZEN} ELSE k.ent[e].state
    IN  [k EXCEPT !.ent[e].iocnt = @ - 1, !.ent[e].state = state,
                  !.free = IF k.ent[e].iocnt = 1 /\ FROZEN \notin state THEN @ + 1 ELSE @]

\* lv_mwc_done for a request that returns from the scheduler.
MwcDone(r) ==
    /\ Running /\ intr = "idle" /\ req[r].at = "below"
    /\ \E fail \in SUBSET Fresh(req[r].ltg), frozen \in {FALSE, MayLose} :
          LET x == req[r].ltg
              bad == fail \cup {m \in Fresh(x) : PvOf[x, m] \in missing}
              broken == IF bad = {} THEN {} ELSE Broken(x, bad)
              k == IF Found(c, x) = {} THEN [c EXCEPT !.panic = TRUE]
                   ELSE Release(c, Search(c, x), frozen)
          IN  /\ fail # {} => errors < MaxErrors
              /\ errors' = IF fail # {} THEN errors + 1 ELSE errors
              /\ frozen => broken # {}
              /\ lost /\ broken # {} => frozen
              /\ Scheduled(x, broken, frozen) /\ lost' = (lost \/ frozen)
              /\ c' = k
              /\ intr' = IF k.free > c.free THEN "wait" ELSE "start"
    /\ req' = [req EXCEPT ![r] = NoReq]
    /\ UNCHANGED <<up, thr, list, err, disk, missing, away, recover, crashes>>

\* lv_mwc_cache_done, as far as its first UNLOCK_INTERRUPT: the record has been
\* written, or not, to the location that the toggle names.
RecordDone ==
    /\ Running /\ intr = "idle" /\ c.inflight # NoPv
    /\ LET p == c.inflight
           k == [c EXCEPT !.inflight = NoPv, !.pvwait[p] = <<>>, !.clean = None,
                          !.panic = c.changed]
           scrubbed == IF c.clean # None THEN Scrub(k, c.clean) ELSE k
       IN  /\ \/ /\ disk' = [disk EXCEPT ![p][c.toggle[p]] =
                                [ts |-> c.clock, ltgs |-> Named(c)]]
                 /\ c' = [scrubbed EXCEPT !.latest = @ \cup {p}]
                 /\ err' = FALSE /\ UNCHANGED errors
              \/ /\ errors < MaxErrors /\ errors' = errors + 1
                 /\ disk' \in {disk, [disk EXCEPT ![p][c.toggle[p]] = NoRec]}
                 /\ c' = [scrubbed EXCEPT !.toggle[p] = 1 - @]
                 /\ err' = TRUE
           /\ list' = c.pvwait[p]
           /\ intr' = IF c.pvwait[p] = <<>> THEN "wait" ELSE "list"
    /\ UNCHANGED <<up, req, thr, vgsa, torn, recover, crashes>>

\* lv_mwc_cache_done with an error, where the record cannot go to any PV.
GiveUp(k, e, r) ==
    LET n == [k EXCEPT !.ent[e].iocnt = @ - 1, !.done = {r}]
    IN  IF n.ent[e].iocnt > 0 THEN n
        ELSE [CacheRemove(n, e) EXCEPT !.free = @ + 1]

\* lv_mwc_cache_done, the next request of the list: it goes on, or waits for the
\* record to be written again.
RecordDoneNext ==
    /\ Running /\ intr = "list"
    /\ LET r == Head(list)
           x == req[r].ltg
       IN  IF Found(c, x) = {} THEN Settle([c EXCEPT !.panic = TRUE], req)
           ELSE LET e == Search(c, x)
                IN  Settle(IF ~err
                           THEN [c EXCEPT !.ent[e].state = @ \ {CHANGING}, !.go = {r}]
                           ELSE IF NoPlace(c, x) THEN GiveUp(c, e, r)
                           ELSE Queue(c, e, r, x), req)
    /\ list' = Tail(list)
    /\ intr' = IF Tail(list) = <<>> THEN "wait" ELSE "list"
    /\ UNCHANGED <<up, thr, err, disk, vgsa, torn, recover, errors, crashes>>

\* lv_mwc_done: the requests that waited for a free entry are looked at again.
CheckAgain(k, r) == IF k.panic THEN k ELSE CheckCache(k, r, req[r].ltg)
CacheWait ==
    /\ Running /\ intr = "wait"
    /\ IF c.free > 0 /\ c.inflight = NoPv
       THEN Settle(FoldLeft(CheckAgain, [c EXCEPT !.wait = <<>>], c.wait), req)
       ELSE UNCHANGED <<c, req>>
    /\ intr' = "start"
    /\ UNCHANGED <<up, thr, list, err, disk, vgsa, torn, recover, errors, crashes>>

\* lv_cache_clean, for a volume that is paused, and has entries (nothing happens
\* otherwise): at once, or when the write in flight is done.
Clean(l) ==
    /\ MayClean /\ ThreadRuns /\ c.clean = None /\ c.clock < MaxClock
    /\ \A r \in Req : req[r].at # "idle" => LvOf[req[r].ltg] # l
    /\ \E x \in Named(c) : LvOf[x] = l
    /\ c' = IF c.inflight # NoPv THEN [c EXCEPT !.clean = l]
            ELSE IF Scrub(c, l) = c THEN c ELSE CacheStart(Scrub(c, l))
    /\ UNCHANGED <<up, req, thr, intr, list, err, disk, vgsa, torn, recover, errors, crashes>>

-----------------------------------------------------------------------------
(* PVs that go and come, crashes, and activation.                          *)

\* The status area could not be written on p: LVM_PVMISSING.
GoMissing(p) ==
    /\ Running /\ p \in MayMiss \ missing
    /\ 2 * (Cardinality(missing) + 1) < NPV
    /\ missing' = missing \cup {p}
    /\ UNCHANGED <<up, c, req, thr, intr, list, err, disk, stale, away, lost, torn,
                   recover, errors, crashes>>

\* lv_attachpv: its records are neither read nor written.
Attach(p) ==
    /\ MayAttach /\ Running /\ p \in away
    /\ away' = away \ {p} /\ missing' = missing \ {p}
    /\ UNCHANGED <<up, c, req, thr, intr, list, err, disk, stale, lost, torn, recover,
                   errors, crashes>>

Crash ==
    /\ up # "down" /\ crashes < MaxCrashes
    /\ up' = "down" /\ crashes' = crashes + 1
    /\ torn' = torn \cup {req[r].ltg : r \in {q \in Req : req[q].at = "below"}}
    /\ IF c.inflight = NoPv THEN UNCHANGED disk
       ELSE \E rec \in {disk[c.inflight][c.toggle[c.inflight]], NoRec,
                        [ts |-> c.clock, ltgs |-> Named(c)]} :
                disk' = [disk EXCEPT ![c.inflight][c.toggle[c.inflight]] = rec]
    /\ c' = CacheInit(c.clock) /\ req' = [r \in Req |-> NoReq]
    /\ thr' = "idle" /\ intr' = "idle" /\ list' = <<>> /\ err' = FALSE
    /\ away' = {} /\ lost' = FALSE /\ recover' = {}
    /\ UNCHANGED <<stale, missing, errors>>

\* lv_readmwcrecs: the newer of the two records of p.
RecordOf(p) == IF disk[p][1].ts > disk[p][0].ts THEN disk[p][1] ELSE disk[p][0]

\* lv_cache_activate: the newest record among the PVs in read.
NewestPv(read) ==
    CHOOSE p \in read : \A q \in read : \/ RecordOf(q).ts < RecordOf(p).ts
                                        \/ RecordOf(q).ts = RecordOf(p).ts /\ p <= q
Newest(read) ==
    IF read = {} \/ RecordOf(NewestPv(read)).ts = 0 THEN {}
    ELSE RecordOf(NewestPv(read)).ltgs

\* lv_cache_stale: the copies of x on p are made stale, and all others but one (what
\* is not allocated counts for a good copy too).
Good(s, x, p) == {m \in Mirror : PvOf[x, m] # p /\ <<x, m>> \notin s}
CacheStale(s, x, p) ==
    LET ngood == Cardinality(Good(s, x, p))
        copies == Good(s, x, p) \cap MirrorsOf(x)
        others == {m \in copies : Cardinality({k \in copies : k > m}) < ngood - 1}
    IN  s \cup {<<x, m>> : m \in {k \in MirrorsOf(x) : PvOf[x, k] = p} \cup others}
OnPv(p) == {x \in Ltg : \E m \in Mirror : PvOf[x, m] = p}
TooGood(s, p) ==
    \E x \in OnPv(p) : Cardinality(Good(s, x, p) \ MirrorsOf(x)) > 1

\* lv_cache_missing: all that is on p.
CacheMissing(s, p) == s \cup UNION {CacheStale(s, x, p) : x \in OnPv(p)}

\* lv_activatevg, from lv_init_pvols to lv_cache_activate, with the PVs in Q
\* attached: bad are those whose records cannot be read.  The PVs that were marked
\* missing are neither read nor made stale.
Activate ==
    /\ up = "down" /\ up' = "recover"
    /\ \E Q \in SUBSET PV : \E bad \in SUBSET (Q \ missing) :
          LET read == (Q \ missing) \ bad
              unread == (PV \ missing) \ read
              latest == {p \in read : RecordOf(p).ts > 0}
              k == [CacheInit(c.clock) EXCEPT
                       !.latest = latest,
                       !.toggle = [p \in PV |-> IF p \in read THEN 1 ELSE 0],
                       !.panic = \E p \in unread : TooGood(stale, p)]
          IN  /\ 2 * Cardinality(Q) > NPV
              /\ errors + Cardinality(bad) <= MaxErrors
              /\ errors' = errors + Cardinality(bad)
              /\ stale' = FoldLeft(LAMBDA s, p : IF p \in unread THEN CacheMissing(s, p)
                                                ELSE s, stale, AllPvs)
              /\ recover' = Newest(read)
              /\ c' = IF Newest(read) = {} THEN k ELSE CacheUpdate(k)
              /\ missing' = PV \ Q /\ away' = PV \ Q
    /\ UNCHANGED <<req, thr, intr, list, err, disk, lost, torn, crashes>>

\* lv_recover_ltg: a good copy of x is read and written to the others, and those that
\* cannot be written become stale; without a copy to read nothing is done.
RecoverLtg(x) ==
    LET reach == {m \in Fresh(x) : PvOf[x, m] \notin missing}
    IN  /\ up = "recover" /\ ~c.panic /\ x \in recover
        /\ recover' = recover \ {x}
        /\ IF reach = {} THEN UNCHANGED <<torn, stale>>
           ELSE /\ torn' = torn \ {x}
                /\ stale' = stale \cup {<<x, m>> : m \in Fresh(x) \ reach}
        /\ UNCHANGED <<up, c, req, thr, intr, list, err, disk, missing, away, lost,
                       errors, crashes>>

\* The end of lv_cache_activate and lv_activatevg.
Activated ==
    /\ up = "recover" /\ ~c.panic /\ recover = {}
    /\ up' = "up" /\ c' = CacheStart(c)
    /\ UNCHANGED <<req, thr, intr, list, err, disk, vgsa, torn, recover, errors, crashes>>

Init ==
    /\ up = "up" /\ c = CacheInit(0) /\ req = [r \in Req |-> NoReq]
    /\ thr = "idle" /\ intr = "idle" /\ list = <<>> /\ err = FALSE
    /\ disk = [p \in PV |-> [i \in {0, 1} |-> NoRec]]
    /\ stale = {} /\ missing = {} /\ away = {} /\ lost = FALSE
    /\ torn = {} /\ recover = {} /\ errors = 0 /\ crashes = 0

Next ==
    \/ \E r \in Req : MwcDone(r) \/ \E x \in Ltg : Mwcm(r, x)
    \/ MwcmStart \/ RecordDone \/ RecordDoneNext \/ CacheWait \/ DoneStart
    \/ \E l \in Lv : Clean(l)
    \/ \E p \in PV : GoMissing(p) \/ Attach(p)
    \/ Crash \/ Activate \/ Activated
    \/ \E x \in Ltg : RecoverLtg(x)

Spec == Init /\ [][Next]_vars

\* Devices answer, interrupts are served one after another, and the thread goes on
\* between them however often they come.
Fairness ==
    /\ WF_vars(RecordDoneNext) /\ WF_vars(CacheWait) /\ WF_vars(DoneStart)
    /\ SF_vars(MwcmStart) /\ SF_vars(RecordDone) /\ \A r \in Req : SF_vars(MwcDone(r))

FairSpec == Spec /\ Fairness

-----------------------------------------------------------------------------
(* Properties.                                                             *)

TypeOK ==
    /\ up \in {"up", "down", "recover"}
    /\ \A e \in Entry : /\ c.ent[e].ltg \in Ltg \cup {None}
                        /\ c.ent[e].iocnt \in 0 .. Cardinality(Req)
                        /\ c.ent[e].state \subseteq {CHANGING, FROZEN}
    /\ ToSet(c.lru) = Entry /\ Len(c.lru) = Cardinality(Entry)
    /\ IsInjective(c.chain) /\ c.free \in 0 .. Cardinality(Entry)
    /\ IsInjective(c.writeq) /\ ToSet(c.writeq) \subseteq PV
    /\ \A r \in Req : req[r].at \in {"idle", "held", "below"}
    /\ thr \in {"idle", "start"} /\ intr \in {"idle", "list", "wait", "start"}
    /\ stale \subseteq Copy /\ torn \subseteq Ltg /\ missing \subseteq PV

\* The mirror consistency manager "allows the LVM to determine whether all the mirror
\* copies of a given logical track group are identical, even across system crashes"
\* (implementation.t:684-688): once the volume group is active again, no two good
\* copies differ.
CopiesAgree ==
    up = "up" /\ ~lost => \A x \in torn :
        Cardinality({m \in MirrorsOf(x) : <<x, m>> \notin stale}) <= 1

\* "pick a partition to call good, set the other (one or two) as STALE"
\* (lv_cache_activate).
SomeGood ==
    up = "up" => \A x \in Ltg : \E m \in MirrorsOf(x) : <<x, m>> \notin stale

\* None of the panics of lv_mircons.c is reached.
NoPanic == ~c.panic

\* ca_free counts the entries that lv_cache_new may take, and ca_iocnt the requests
\* of an entry.
FreeExact ==
    up = "up" => /\ c.free = Cardinality({e \in Entry : c.ent[e].iocnt = 0})
                 /\ \A e \in Entry : c.ent[e].iocnt = Cardinality({r \in Req :
                        /\ req[r].ltg = c.ent[e].ltg /\ req[r].at # "idle"
                        /\ r \notin ToSet(c.wait)})

\* Whoever waits for a record has a write of it to wait for, and whoever waits for an
\* entry has a write or a request to wait for.
NobodyStranded ==
    up = "up" =>
        /\ \A p \in PV : c.pvwait[p] # <<>> => c.inflight = p \/ Queued(c, p)
        /\ c.writeq # <<>> => c.inflight # NoPv \/ thr = "start" \/ intr # "idle"
        /\ c.wait # <<>> => c.inflight # NoPv \/ c.free = 0 \/ intr # "idle"

\* After an error a request is refused only "if all extent are on pvols that have gone
\* off-line" (lv_mwc_cache_done).
RefusedForCause ==
    \A i \in 1 .. Len(list) : err /\ NoPlace(c, req[list[i]].ltg) =>
        \A m \in MirrorsOf(req[list[i]].ltg) : PvOf[req[list[i]].ltg, m] \in missing

\* Every request is returned.
Returned == \A r \in Req : req[r].at # "idle" ~> req[r].at = "idle"
=============================================================================
