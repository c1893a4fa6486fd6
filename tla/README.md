# The logical volume manager of OSF/1, specified and checked

This directory specifies, in TLA+, the Logical Volume Manager (LVM)
pseudo-driver of OSF/1 1.0: the C sources under
`src/usr/opt/OSC200/src/kernel/lvm` (14 000 lines; called `lvm/` below), the
callout threads it runs on (`src/usr/opt/OSC200/src/kernel/kern/threadcall.c`),
and what its design document
(`src/usr/opt/OSC200/src/usr/doc/osf/lvm/implementation.t`) says of them.

The repository is a whole operating system.  LVM was chosen because it is
self-contained, is the system's own concurrent code (threads, interrupt
handlers, disks that answer when they like, commands that change the
configuration underneath), keeps state that must survive crashes, and carries
its own correctness statements as comments and panics.

## 1. The system

A *volume group* owns *physical volumes* (disks), cut into *physical extents*,
and offers *logical volumes*, whose *logical extents* each map to up to three
physical extents (mirror copies).  The unit of conflict detection and of mirror
consistency is the *logical track group* (LTG, `PGPTRK` pages).

A logical request (a `struct buf`) passes down these layers; completions come
back up, at interrupt level:

```
   lv_strategy   lv_reject, lv_collect          syscalls: lv_read, lv_write
       |                                           lv_pause / lv_continue
   lv_block  --> work_Q --> lv_ready_Q --> lv_initiate
                                               |
                   mirror consistency   lv_mwcm ... lv_mwc_done     lv_mircons.c
                                               |
                   scheduler            lv_schedule ... lv_finished lv_schedule.c
                         |                     |
       status area  lv_stalepp -> lv_sa_start  |                    lv_vgsa.c
                                               |
                   physical             lv_begin ... lv_end         lv_phys.c
                                               |                    lv_defect.c
                                        disk drivers
```

| Component | Source in `lvm/` | State | Operations | What is hard | What makes it correct |
|---|---|---|---|---|---|
| Strategy layer | `lv_strategy.c`, `lv_block.c` | `work_Q`, `lv_ready_Q`, `lv_status`, `lv_complcnt`, `lx_synctrk`, `b_error`, `b_work` | `lv_strategy`, `lv_initiate`, `lv_terminate`, `lv_complete`, `lv_pause`, `lv_continue`, `lv_collect` | three contexts serve one queue; unlocked tests of it; pause against arrivals and resynchronisation; requests that pass twice | overlapping requests one at a time, in order; no request forgotten; a paused volume is quiet; the count of `lv_pause` is exact |
| Splitting of requests | `lv_strategy.c`, `lv_block.c`, `lv_syscalls.c` | the two halves' `b_forw`, the original's `b_flags`, `b_resid` | `lv_minphys`, the head of `lv_strategy`, `lv_workmask`, `lv_reject`, `lv_collect` | halves complete at the same time; arithmetic at page and LTG boundaries | the original is returned once, with any error; the halves cover it and fit an LTG |
| Mirror write consistency (MWC) | `lv_mircons.c` | the cache of LTGs with writes in progress, the records on each disk, `vg_cache_wait`, `pv_cache_wait` | `lv_mwcm`, `lv_mwc_done`, `lv_mwc_cache_done`, `lv_cache_clean`, `lv_cache_activate`, `lv_cache_recover` | record written while the cache changes; disks that miss records; a full cache; crash between any two writes | no copy of an LTG is written before a record on some disk names the LTG; after a crash every LTG whose copies may differ is recovered, or all copies but one are stale |
| Status area (VGSA) | `lv_vgsa.c` | `vg_sa_active`, `vg_sa_hold`, the wheel of copies, stale and missing bits | `lv_sa_start`, `lv_sa_continue`, `lv_sa_config`, `lv_sa_iodone`, `lv_sa_whladv`, `lv_sa_qrmcheck` | a wheel of writes that requests ride one full turn; disks lost on the way; quorum | a request is answered when every active copy written since holds its change; on loss of quorum everybody is refused |
| Mirror scheduler | `lv_schedule.c` | the `pbuf`: `pb_mirdone`, `pb_mirbad`, `pb_miravoid`; `e_state` | reserved, sequential and parallel strategies, `lv_stalepp`, `lv_fixup` | mirrors that fail one after the other; marking copies stale before answering | a read returns data of a fresh copy; a write that succeeds is on every copy not marked stale |
| pbuf pool | `lv_pbuf.c`, `lv_schedule.c` | `lv_freebuf_*`, the hold queue | `lv_adjpool`, `lv_alloc_pbuf`, `lv_allocmulti`, `lv_reschedule` | pool at its limit, several pbufs for one request | somebody who waits is served |
| Physical layer and defects | `lv_phys.c`, `lv_defect.c` | `pv_queue`, the defect directory | `lv_begin`, `lv_end`, `lv_resume`, `lv_swreloc`, `lv_hwreloc`, `lv_relocdone` | requests held behind a relocation; a directory on disk | a block being relocated is not touched; what was written is read back, and a block is refused only while it is bad |
| Logical volume configuration | `lv_lvsubr.c` | extent maps, `lv_lock`, VGDA entries | change, extend, reduce, reallocate, resynchronise | multi-step updates of maps, disks and memory that may fail half-way | maps in memory and on disk agree; no extent owned twice |
| Volume group configuration | `lv_ioctls.c`, `lv_vgda.c`, `lv_subr.c` | VGDA, PV lists, quorum count | create, activate, install, remove, deactivate | recovery from disks of different age | the newest complete VGDA wins |
| Entry points | `lv_syscalls.c` | `lv_ref`, `LV_OPEN`, `vg_opencount` | `lv_open`, `lv_close`, `lv_lvhold`, `lv_lvrelease` | first open and last close | open counts balance |
| Hooks | `lv_kdb.c`, `lv_config.c` | - | printing, loading | - | - |

`PROJECT.json` lists every component with its status and every hazard at its
line.

## 2. The modules

| Module | What it is | Code |
|---|---|---|
| `LvStrategy` | the strategy layer of one volume | `lv_strategy.c`, `lv_block.c`, parts of `lv_lvsubr.c` and `threadcall.c` |
| `LvPageLocks` | the abstract specification that `LvStrategy` implements | - |
| `LvStrategyProofs` | theorems about `LvStrategy`: order, exclusion, pauses, nobody left behind, resynchronisations keep their place; that it implements `LvPageLocks` | - |
| `LvSplit` | one request that is split, and its completion | heads of `lv_strategy`, `lv_collect`, `lv_workmask`, `lv_minphys` |
| `LvSplitProofs` | theorems about `LvSplit` | - |
| `LvSchedule` | the mirror scheduler: reads, writes, repair, resynchronisation | `lv_schedule.c`, `lv_syncx` |
| `LvBlock` | the abstract specification that `LvSchedule` implements | - |
| `LvScheduleProofs` | theorems about `LvSchedule`: types, panics, that it implements `LvBlock`, that answered writes last | - |
| `LvVgsa` | the status area with the scheduler's writes and resynchronisations | `lv_vgsa.c`, parts of `lv_schedule.c`, `lv_ioctls.c`, `lv_lvsubr.c` |
| `LvVgsaProofs` | theorems about `LvVgsa` | - |
| `LvMircons` | mirror write consistency: cache, records, recovery | `lv_mircons.c`, parts of `lv_schedule.c`, `lv_ioctls.c` |
| `LvMirconsProofs` | the inductive invariant of `LvMircons`, kept by every action, with lemmas about its loops | - |
| `LvMirconsSafety` | theorems about `LvMircons`: copies agree after a crash, no panic, exact counts, nobody stranded | - |
| `LvOpen` | open and close, the pool of pbufs, and the requests that wait for them | `lv_syscalls.c`, `lv_pbuf.c`, parts of `lv_schedule.c` |
| `LvOpenProofs` | theorems about `LvOpen` | - |
| `LvDefect` | one physical volume: defects, relocation, the defect directory | `lv_phys.c`, `lv_defect.c` |
| `LvVgda` | the descriptor area: changes, crashes, the choice at activation | `lv_vgda.c`, parts of `lv_ioctls.c` |
| `LvVgdaProofs` | theorems about `LvVgda` | - |
| `MCLv*` | constants of the instances TLC checks | - |

The modules meet where the layers do.  `LvStrategy` promises the layers below one
request at a time for each page (`LvPageLocks`); `LvSchedule` and `LvDefect` rely on
it.  `LvSchedule` takes the status area for one step, `SaDone`; `LvVgsa` says what
that step does, wheel, quorum and crashes included.  What `LvSchedule` calls a
transfer of a mirror, which may fail, is a request of `LvDefect`.  `LvMircons` is
what `LvSchedule` needs after a crash: mirrors that agree.

Definitions keep the names of the code where they can; `PROJECT.json` ("map")
gives the lines of each.  An operator introduced as "a slip" is a plausible bug
of the definition it precedes: the mutants of `PROJECT.json` put it in that
definition's place and the property must then fail.

### LvStrategy

*State.*  `workQ` is `work_Q` (each hash chain a sequence of requests), `buf`
what each `struct buf` asks for, and `phase` where it is: `blocked` on its chain
with `ELBBLOCKED`, `ready` on `lv_ready_Q`, `pending` on the private queue of a
running `lv_initiate` (`holder` says whose), `own` to be completed by it, `below`
in the lower layers, `complete` between `lv_terminate` and `lv_complete`.
`lvStatus`, `complcnt`, `rdonly`, `synctrk` and `syncmsk` are `lv_status`,
`lv_complcnt`, `LVM_RDONLY`, `lx_synctrk` and `lx_syncmsk`; `pc`, `called` and
`kicks` are the contexts that may run `lv_initiate`.

*Actions.*  One per section under `lv_intlock` and one per unlocked read.
`UserRequest` is `lv_strategy` as far as the queue; `Check(p)` the unlocked test
of `lv_ready_Q` that follows; `Initiate(p)` covers `lv_initiate`;
`TerminateRequest` and `TerminateResync` then `TerminateComplete` and `Kick` are
`lv_terminate`; `ThreadCall` the callout thread; `Pause`, `PauseWake`, `Continue`
the administrator's side; `CopyMaps` and `Reconfigure` are `lv_changelv`;
`SyncBegin`, `SyncSubmit`, `SyncNext` are `lv_syncx` and recovery.

*Abstraction.*  `LvPageLocks` says what all this is for: page locks on LTGs,
granted in order of arrival, behind a gate.  The mapping takes `blocked` to
waiting, everything later to busy, the chain's order to "older", and `lv_status`
to the gate; `Implements` is checked as a property.

### LvSplit

One request of any start and length, in units of half a block so that counts
that are not whole blocks occur.  `Split`, `Link` (twice) and the three
steps of `lv_collect` for each half: `CollectRead` reads `b_forw`, `CollectLoad`
and `CollectError` add the residue and error (a load and a store, because they
are not locked), `CollectFree` clears the other half's `b_forw` or returns the
original.

### LvVgsa

*State.*  `e_state` and `sync` are the extents' flags and `lx_syncmsk`,
`lx_syncerr`; `pb` the pbufs with `pb_mirbad` and their place, so that `Active`, the
pbufs whose place is the wheel, is `vg_sa_active`; `hold` is `vg_sa_hold`; `stale` the area in memory; `disk` the copies
(two per disk) with their timestamps; `wheel`, `pc` and `saseq` the wheel; `conf`
and `call` a command in `lv_sa_config`; `pvols`, `missing`, `away`, `lost` the PVs
and `VG_LOST_QUORUM`.

*Actions.*  `WriteStart`, `WriteDone`, `SyncStart`, `SyncDone` and `Answer` are the
scheduler; `Passed` is what the strategy layer's conflict test keeps from the last
track of a resynchronisation; `lv_sa_continue` is `Enter` (held requests join the wheel) and `Turn`
(configuration, quorum, completion, next copy), which the code runs under one
lock; whatever comes between them only adds held requests, which the code's loop would
have found on its next call, so nothing is seen of the split.  `WriteArea` is
the write and `lv_sa_iodone`.  `Command` and `ConfigReturn` bracket a command.
`Crash` may tear the copy being written; `Activate` chooses any majority and the
newest copy in it.

### LvMircons

*State.*  `c` is the part of `struct volgrp` that `vg_ca_intlock` protects: the
entries, LRU list and hash chain, `ca_free`, the flags `CACHE_CHANGED`,
`CACHE_INFLIGHT`, `CACHE_CLEAN`, the queues `vg_cache_wait`, `vg_cache_write` and
`pv_cache_wait`, `PV_CACHE_TOGGLE` and the time of the record in memory.  `disk`
holds two records per PV.  `torn` is not in the code: it is the set of LTGs
whose copies may really differ, against which the recovery is judged.

*Actions.*  `Mwcm` and `MwcmStart` are `lv_mwcm`, which takes the lock twice;
`MwcDone`, `RecordDone`, `RecordDoneNext`, `CacheWait` and `DoneStart` are the
sections of `lv_mwc_done` and `lv_mwc_cache_done`, one per lock held, so that with
`MP` another processor's `lv_mwcm` comes between.  `Clean` is `lv_cache_clean`;
`Activate`, `RecoverLtg` and `Activated` are `lv_cache_activate`.  The panics of
the file set `panic`.

### LvSchedule and LvBlock

*State.*  One extent of up to three mirrors, of which the last may be holes
(`PX_NOPV`).  `copy` is what each mirror holds of each track; `stale`, `changing`
and `onDisk` are `PX_STALE`, `PX_CHANGING` and the stale bits of the status area on
the disks; `req` has each request with its pbufs: `pb_mirdone`, `pb_mirbad` of
each, `pb_miravoid`; `lx` is `lx_synctrk`, `lx_syncmsk` and `lx_syncerr`.

*Actions.*  `Submit` and `SyncRead` are what arrives from the strategy layer and
from `lv_syncx`.  `ParWrite`, `StartNext` and `ParRead` are `lv_parallel`, one step for
each mirror it starts, so that transfers that end come between; `Sequential` is
`lv_sequential`; `TransferDone` is the end of a transfer with all that follows at
interrupt level (`lv_parwrite_done`, `lv_seqread_done`, `lv_fixup`, `lv_stalepp`, ..).

*Abstraction.*  `LvBlock` is one row of tracks: a read that succeeds returns what is
stored, a write that succeeds is stored, one that fails has happened or not, for
good.  `Implements` maps what is stored to what the fresh mirrors hold (`held`).

### LvOpen

*State.*  `status`, `ref`, `opencount`, `vgs_opn`, `lvs_opn` are `lv_status`, `lv_ref`,
`vg_opencount` and the two counters of `lv_pbuf.c`; `adj` is, for each volume, the
thread in `lv_openlv` or `lv_closelv` and how many pbufs it has still to add or take
away; `pbuf_cnt`, `freebuf`, `pbuf_inuse` are the pool; `pending`, `held`, `kick` and
`runners` the requests in `lv_pbuf_pending_Q` and those who serve it.

*Actions.*  `Open`, `Close`, `Hold`, `Release` run up to `lv_adjpool`; `Adjust` is its
head, `Grow` and `Shrink` one turn of its loops, which run without a lock;
`OpenEnd` and `CloseEnd` are the rest.  `Submit`, `CallThread`, `Reschedule`, `Free` and
`FreeUnused` are the requests.

### LvDefect

*State.*  `medium` is the disk, with the blocks that are bad; `disk` the two copies of
the directory on it; `pv` the directory in memory with its hash table and the next
alternate; `pb` the request: the part of it that is with the device, and how far a
relocation has come; `dirq` and `copy` who waits for the directory to be written
and which copy is being written.  `copy` is 0 while `lv_bbdirend` has dropped its
lock between two requests (906-919).  `last` is not in the code: it is what a read of
each block may return.

*Actions.*  `Begin` is `lv_begin` with `lv_validblk`; `Read`, `Write`, `Relocate` and
`Fail` are the device's answer with `lv_end` and what it calls (`lv_hwreloc`,
`lv_swreloc`, `lv_relocdone`, `lv_resume`), one interrupt; `DirWrite`, `DirFail` and
`DirNext` are `lv_bbdirend`; `Crash` ends with `lv_initdefects`.  The device is
external: no driver of this tree returns `EMEDIA`, `ESOFT` or `ERELOCATED`, and what
it may do is taken from how `lv_phys.c` and `lv_defect.c` use it.

### LvVgda

*State.*  `copy` has the two descriptors of each PV, each a time and the PVs it
lists; `ts` is `pv_vgdats`, `vgda` the descriptor in memory, `pvols` and `attached` the
PVs of the group in memory, `cmd` the command that updates the descriptors and how
far it is.  `chosen` and `answered` are not in the code.

*Actions.*  `Attach`, `Activate`, `Deactivate`, `Change`, `Install` and `Delete` are the
`ioctl`s; `Begin`, `Written`, `Skip` and `Return` are `lv_updatevgda`, one step before
and one after each write, so that a crash leaves a copy torn or PVs behind.

## 3. The runs

| Run | Question | Distinct states |
|---|---|---|
| `strategy_io` | order, exclusion, pause count, forgotten requests: three requests, two threads, changes of `LVM_RDONLY` | 608 000 |
| `strategy_live` | requests, pauses and a resynchronisation of three tracks end, it keeps its place; `LvStrategy` implements `LvPageLocks` | 103 000 |
| `split_requests` | exact masks, halves that fit, what the caller gets back | 20 000 |
| `vgsa_crash` | an answered write is stale on disk, across a crash, torn copies, failed PVs, lost quorum | 426 000 |
| `vgsa_live` | the wheel never stops with work left; waiting requests and commands return; a new mirror is stale on disk first | 124 000 |
| `mwc_crash` | no two good copies differ after up to two crashes at any step | 1 750 000 |
| `mwc_live` | nobody stranded, exact counts, no panic, every request returned | 48 000 |
| `schedule` | `LvSchedule` implements `LvBlock`; an answered write is safe from a crash; no panic; both policies | 2 180 000 |
| `open_pool` | pool and counts exact, nobody's pbufs lost, everybody served; a pool large enough while a volume is open | 181 000 |
| `defect` | what was written is read back after relocations and a crash; no block refused without cause; every request answered | 539 000 |
| `vgda` | an answered change survives crashes, PVs that come and go, and activation; the newest copy is never the one overwritten | 3 470 000 |
| `vgda_unmade` | a disagreement with the code's own comment (section 6) | - |

Larger or other instances that pass, with their own configurations:
`LvSchedule_live.cfg` (every request of the scheduler is answered), `LvDefect_io.cfg`
(three requests, 9.0 million states), `LvVgsa_extend.cfg` (a mirror that is added and
resynchronised is stale on disk first).

**Bounds.**  Races need two contexts on one object and a third to arrive between,
so there are two user threads, a callout thread, an interrupt and an
administrator, and two or three requests.  A resynchronisation has two or three
tracks: a first, a last, and one between.  Three PVs are the least for which a
majority can lose one; two mirrors the least that can differ.  `MaxClock` bounds
the changes of the status area or of the record (not the writes of them),
`MaxFailures` and `MaxErrors` failing writes, `MaxCrashes` crashes, `MaxIntr`
interrupts at one time.  Sizes of `LvSplit` are scaled down: a page is two
blocks and an LTG two pages, and the word is wider than any sum.  One
cache entry of `mwc_crash` and `mwc_live` makes every request of another LTG
wait for or evict it, which with the code's 32 entries takes 32 requests.

In `schedule` two tracks let one be written while the other is resynchronised;
one transfer fails and one PV goes (`MaxFail`, `MaxMiss`), so that with two mirrors
both can be lost.  In `open_pool` the grab is three pbufs, which is what a write of three
mirrors needs; two volumes of one group and one of another make the first and
last open of a group differ from those of a volume.  In `defect` two entries of
the directory and four alternates, two of them possibly bad, let
each run out; two tracks on two hash chains put blocks in both orders on a chain.
In `vgda` a third PV is installed into a group of two; five times allow two
changes after a crash, which overwrite either copy.

`CHECK_DEADLOCK FALSE` is in the configurations of all modules but `LvStrategy`: a split
request ends, and the bounds on clocks, requests, failures and crashes stop the others.

**What runs are spared.**  `LvSchedule`, `LvDefect` and `LvVgda` have a constant
`Spared`: events that really may happen, after which the code does not keep its
promises (section 6).  The listed runs are spared them, to show that
nothing else breaks those promises; taking one out of `Spared` shows what it breaks.
The theorems of section 4 take as hypotheses the spared events that they need.

**Fairness.**  Threads that can run do (`WF`); devices answer every request; the
interrupts that wait are served in some order, so that one is not passed over for
ever by others (`SF` where the action is disabled by other interrupts); users and
administrators need not do anything.  Locks are held for bounded sections.  No
fairness is assumed of crashes, failures, or new requests.  `LvDefect` writes weak
fairness out (infinitely often not waiting, or infinitely often taken), because its
actions are cheap to test for and dear to enumerate twice; a transfer that is
with the device ends, and a write of the directory is not refused for ever.  In
`LvOpen` pbufs that a request holds come back, which is `LvSchedule`'s `Answered`.

## 4. What is proved

`LvStrategyProofs` proves, with TLAPS, for any numbers of requests, threads,
tracks, extents and hash chains, under `StrategyAssumption` (the constants are
finite or positive, the contexts different):

| Theorem | Statement |
|---|---|
| `TypeCorrect` | `Spec => []TypeOK` |
| `FifoOrder` | `Spec => [](Chained /\ NoOvertaking)`: no request in progress has overtaken an older conflicting one |
| `MutualExclusion` | `Spec => []Exclusion` |
| `NothingLeftBehind` | `Spec => []BlockedForCause` |
| `QueueIsServed` | `Spec => []ReadyIsServed`: of a request on `lv_ready_Q` some context has yet to look at the queue |
| `PauseCorrect` | `Spec => []PauseExact`: a paused volume is quiet, and the count of those `lv_pause` waits for is exact |
| `ResyncInSequence` | `Undisturbed` implies `Spec => []NoResyncPanic` |

The inductive invariant is `IInv == TypeOK /\ OrderInv /\ PauseInv`.  Exclusion is
not inductive: that two requests in progress do not overlap follows from
`NoOvertaking` only if both are on the same chain, each once, which is `Chained`.
`NoOvertaking` in turn survives `lv_unblock` because a request is let go only when
nothing in front of it conflicts, and survives the removal of a request because
removal keeps the order of the rest.  `BlockedForCause` has to be carried along
with the status, since `lv_continue` restores it for all chains at once.
`PauseInv` needs that a completion of anything in progress while pausing steps
`lv_complcnt`, which is the cardinality of a finite set that loses one member.
`BlockEffect` and `CompleteEffect` reduce `lv_block` and `lv_complete` to their
effect on one chain; every action is then one of these two, or leaves chains and
phases alone (`OrderFrame`, `PauseFrame`), which is how `Invariance` splits.

`Undisturbed` is that none of the three events of `LvStrategy_change`, `_rdonly` and
`_nocopy` happens (section 6), each of which makes `lv_initiate` panic; `ResyncInv`
then says where the resynchronisation is, as a function of where its one buffer is.

On it stands `ImplementsPageLocks`, which is `Spec => Implements`, that
`LvStrategy` implements `LvPageLocks`.  Each action is an arrival, an end, a pause, a
continuation or a stutter of the page locks.  "Older" is a set of the abstract state
and a sequence of the concrete one: `OlderPrecedes` says that under `Chained` the two
are the same, and `IInv` then gives `BusyGrantable`, the guard of the abstract grant,
which in the code is a scan of the chain by `lv_unblock`.

`LvScheduleProofs` proves, for any mirrors, tracks, values, failures
and PVs that go missing and come back, under `ScheduleAssumption`:

| Theorem | Statement |
|---|---|
| `TypeCorrect` | `Spec => []TypeOK` |
| `FewPanics` | `Spec => [](panic \in {"no"} \cup Near)`: all but three panics are out of reach |
| `NoPanicReached` | `Known = {}`, sparing `"seqread"`: `Spec => []NoPanic` |
| `ImplementsBlock` | `Benign` implies `Spec => Implements`: `LvSchedule` implements `LvBlock` |
| `WrittenLasts` | `Benign` implies `Spec => WrittenIsDurable` |

The first three need `IInv == ReqInv /\ DataInv` only.  Its core is `SyncOk`: the
resynchronisation has one request, for the track `lx_synctrk` names, and its
`lx_syncmsk` are stale mirrors.  `Near` are the panics that a bad block that cannot be
relocated leads to, or `lv_seqread_done` (section 6).

`Benign` is again section 6 turned round: no hole (`LvSchedule_hole`), and sparing
`"early"`, `"seqsync"` and `"gone"`; it adds that no bad block is known that cannot be
relocated, with which `Near` can be reached.  `"seqread"` and `"leftover"` are not
needed: a read may panic, and a pbuf may have left mirrors to avoid over, without a
wrong answer.

`ImplementsBlock`: the mirrors that count, `Good(t)`, are the fresh ones and those
the resynchronisation has caught up on the track.  They agree, except while transfers of
a write are under way (`Contents`); then each mirror is still to be written, or has the
value, or has failed and is in the `pb_mirbad` of a transfer that has not ended, from
which `lv_parwrite_done` hands it on to the next (`ParWrites`, `SeqWrites`).  So when the
last one ends, `pb_mirbad` is exactly what `lv_stalepp` has to mark.  A read that has found
a value has found what the good mirrors hold (`Finds`), since none is written meanwhile.
A step is one of three kinds, one that goes on with a request (`Plain`), one that ends a
write (`Ends`) and the completion of a status area's write (`SaDone`); `Kept` says that it
leaves the other tracks alone, and `HeldSettled`, `HeldWriting` and `HeldWritten` what it
does to what is stored.

`WrittenLasts` needs the order of the wheel.  `Marks(t)` and `Clears(t)` are the mirrors
that the request of a track, while it waits for the status area, is to make stale or
fresh there.  `InOrder`: none is marked by a request ahead of one that makes it fresh.
`MarksOk`: a mirror that is stale in memory and not changing is stale on the disks; if it
is changing, a request that marks it waits, and if a resynchronisation is to make it
fresh, that request's track is one it has not come to.  `ClearsOk`: a mirror that is being
made fresh is stale in memory only if it is changing again, so that a write that finds it
so waits too (the test of `PX_CHANGING` in `lv_stalepp`).  `Ahead`: a mirror that a request
marks during a resynchronisation is in `lx_syncerr`, or the request's track is still to
come.  `OnAll` is then what the write may answer when its turn comes.

`LvOpenProofs` proves, for any volumes, groups and requests, any number of contexts
in `lv_adjpool` and in `lv_reschedule`, and however often memory cannot be had, under
`OpenAssumption`:

| Theorem | Statement |
|---|---|
| `OpenTypeCorrect` | `Spec => []TypeOK`: `lv_ref`, the holders and the free list never go below zero |
| `PoolCorrect` | `Spec => []PoolExact`: `lv_pbuf_cnt` is the free pbufs and those in use |
| `QueuedOnce` | `Spec => []WaitsOnce`: a request waits for pbufs once, and not while it has some |
| `NoPbufIsLost` | `Spec => []NoneLost`: `lv_pbuf_inuse` is what the requests have |
| `CountsAreExact` | `Parallel = 1`, `MaxNoMem = 0`: `Spec => []CountsExact` |
| `PoolIsAdjusted` | the same, and no request needs more than `PBSUBPOOLSIZE`: `Spec => []PoolFits` |

The invariant is `TypeOK /\ Referenced /\ PoolExact /\ WaitsOnce`.  `Referenced`, that
`lv_ref` counts every command that holds the volume and the one that is still in
`lv_adjpool`, is what keeps `lv_lvrelease` from taking it below zero; it holds only as
an inequality, since a hold that fails for want of memory leaves `lv_ref` stepped.
`VolumeFrame` and `RequestFrame` split the proof: the steps of volumes leave requests
alone, and the other way round.  `PoolExact` needs no bound on `Parallel`: that the
pool is exact does not depend on the lock that is missing, only that it is large
enough does.

`NoneLost` counts pairs of a request and the number of one of its pbufs, so that
taking and freeing are unions and differences of finite sets; with it goes that a
request in need keeps its volume open (`UInv`), as `lv_close` and `lv_lvrelease` wait
for the requests.

The last two need what the code does not ensure, one volume at a time in `lv_adjpool`
and memory (section 6 has what happens otherwise).  Their invariant `CInv` says of each
volume where its open or close has got to (`VolumeOk`), that the counts are those of
the volumes that have passed the first half of `lv_adjpool` (`Counts`, over the
cardinality of `Counted` and of its image under `VgOf`), and that the size
`lv_adjpool` is on its way to is enough if any volume is counted, and nothing if none
is (`PoolSized`; by `UInv` every pbuf is then free).

`LvVgsaProofs` proves, for any mirrors, extents, PVs, requests, failures and crashes,
under `VgsaAssumption`:

| Theorem | Statement |
|---|---|
| `TypeCorrect` | `Spec => []TypeOK` |
| `NobodyIsForgotten` | `Spec => []NobodyForgotten`: while somebody is on the hold list, on the wheel or waits for a configuration, the wheel turns or quorum is lost |
| `OnlyStaleIsSynced` | `Spec => SyncNotStale`: the panic "sync not stale" is not reached |
| `NextCopyIsOldest` | without `attach`: `Spec => []NextIsOldest` |
| `AnswersAreDurable` | with `BlocksTellExtents` and no command but `extend`: `Spec => AckIsDurable` |
| `StaleStaysDurable` | with `BlocksTellExtents`, no command, no resynchronisation: `Spec => []StaleIsDurable` |

The hypotheses are the violations of section 6, turned round.  `BlocksTellExtents`
(a block of the status area does not hold bits of two logical extents) is
what `LvVgsa_merge` lacks; the commands left out are those of `LvVgsa_attach`,
`LvVgsa_delete` and `LvVgsa_nofail`; the resynchronisation is left out of
`StaleStaysDurable` because of the last row but one of the table of changes.

The argument of `AnswersAreDurable` is the wheel's.  `OrderInv`: from the present copy
on, the copies that can be written are in the order of their times, so that the wheel
always comes to the oldest.  `PbInv`: what a request on the wheel marks is `Carried`
since its number, that is, it is stale in memory and on every copy with that number
or a later one.  A request is let go when the oldest copy has its number; then every
usable copy has it, and as quorum was not lost, those are copies on more than half of
the PVs (`Spread`).  What is carried since a number that is spread is `Kept`, and kept
it stays: when a copy is torn by a crash, the PV's other copy is no older than the
wheel's order allows, so half of the PVs still have one; an activation needs a majority,
which meets that half (`FS_MajoritiesIntersect`), and the newest copy that it finds
carries the mark.  `FreshInv` is what a resynchronisation could spoil: that its end,
on the hold list, clears no mark of a request before it.  `StateInv` adds for
`StaleStaysDurable` that an extent that is stale and not changing is kept, through
activation, which writes the area it has read to all copies before it is `up`.

`LvVgdaProofs` proves, for any number of PVs, changes, failures and crashes, under
`VgdaAssumption`:

| Theorem | Statement |
|---|---|
| `TypeCorrect` | `Spec => []TypeOK` |
| `NewestIsKept` | sparing `"single"`: `Spec => NewestKept`, the newest descriptor of a PV is never the one overwritten |
| `AnsweredChangesSurvive` | sparing `"minority"`, `"single"`, `"reinstall"`, `"unsettled"`: `Spec => []AnsweredSurvives` |

`CopyInv` relates the time stamps in memory to the copies on the disk (`Tracks`).
`SettleInv` says that there is a settled descriptor `s`: a majority of the PVs it lists
has it or a newer one, it is as new as every answered change (`Reached`), all older
ones on disks are outnumbered among the PVs that they list themselves
(`Superseded`), and at most one newer one exists, which lists one PV more or less or
the same (`Overtaken`); a majority of either then meets a majority of the other.  An
active group has `s` or a change of it in memory (`Current`).

The hypothesis `"unsettled"` came out of that proof.  TLC with up to four PVs did not
find that a group activated with one side of an interrupted change may be changed
again; with five PVs it undoes an answered change (section 6).

`LvSplitProofs` proves, for any sizes of pages, LTGs and words (words large enough for
the requests, `SplitAssumption`) and any request:

| Theorem | Statement |
|---|---|
| `TypeCorrect` | `Spec => []TypeOK`: `lv_collect` returns the original at most once |
| `ReturnedComplete` | `Spec => []Returned`: when both halves are through, with what both have to say |
| `MaskIsExact` | `Spec => []MaskExact` |
| `PiecesAlwaysFit` | `Spec => []PiecesFit` |

The arithmetic rests on `Places` (a block's page and LTG by one division or by two) and
`LeavesTrack`: the test that `lv_strategy` and `lv_workmask` make on counts of pages says
that first and last block lie in different LTGs.  Every other question about a piece is
then one about two quotients by `BLKPTRK`.  `CollectInv` is why the unlocked additions
of `lv_collect` do no harm: a half that finds `b_forw` clear comes after the end of the
other (`Links`), so what it loads is what the other has stored (`Counts`); and if
neither finds it clear nobody returns the original, which is the recorded
violation of `NotLost`, and not one of these.

`LvMirconsProofs` and `LvMirconsSafety` prove, for any number of PVs, LTGs, entries
and requests, any placement of the copies, and any failures, crashes, cleanings and PVs
that go missing or come back, under `MirconsAssumption` and `~MayLose`:

| Theorem | Statement |
|---|---|
| `TypeCorrect` | `Spec => []TypeOK` |
| `Structure` | `Spec => []SInv`: the cache and its queues keep their structure |
| `AgreeAfterCrash` | `Placed` and `FewMissing`: `Spec => []CopiesAgree` |
| `NeverPanics` | `Placed` and `Attached`: `Spec => []NoPanic` |
| `CountsExact` | the same: `Spec => []FreeExact` |
| `NoneStranded` | the same and `~MP`: `Spec => []NobodyStranded` |

All but the last hold on any number of processors.  Each hypothesis is a violation
of section 6 turned round, and TLC finds the conclusion violated without it.
`~MayLose`: quorum is not lost, since a frozen entry may be reused (`LvMircons_frozen`).
`Placed`: every LTG has a mirror, and the lowest one's PV does not go missing while the
group is active; otherwise requests are refused for want of a place for their record, and
the record is on a PV that activation does not read (`LvMircons_refused`).  `FewMissing`:
of the copies of an LTG one at most is on a PV that may go missing; two that do are
neither read nor made stale by the next activation.  `Attached`: there is no crash; or there
are at most two PVs, so that a quorum is all of them and none is missing after an activation,
and at most one mirror of an LTG is not allocated (at two `lv_cache_stale` panics,
`LvMircons_holes`).  `~MP`: another processor's `lv_mwcm`
can put a request on `pv_cache_wait` while `lv_mwc_cache_done` goes through what
it has taken from there.  `mwc_live` satisfies all of them, `mwc_crash` those of
`AgreeAfterCrash` but `~MayLose`: the lost quorum is TLC's alone.

The loops of `lv_mircons.c` are folds.  `Chain` says of each what a loop's invariant
needs, that there is a sequence of states from the first to the last; it rests on the
existence of the recursive function by which a fold is defined (`PartialExists`), an
induction over sets of numbers (`NatInd`).  For each operation there is then one lemma of
what it does to the structure (`CheckCache`, `Scrub`, `CacheUpdate` and so on), for an
arbitrary cache and set of requests, since `CacheWait` and `RecordDoneNext` apply them in
the middle of a walk.

`SInv` has two parts.  `Struct(k, q, U)`: an LTG has one entry at most, `ca_iocnt` is the
number of the requests in `U` that write it, each of those has an entry, and `ca_free` is
the number of entries whose count is zero.  `U` are the requests that entries count, all
but those that wait for an entry or are being looked at.  `Waits`: a request waits on one
queue at most, and is held until it is let go.  `lv_cache_new` and `lv_cache_scrub` may
panic in the middle of that, and another context goes on, so after a panic only the types are kept;
`FreeExact` needs `NeverPanics`.

`AgreeAfterCrash` needs what the records say.  `Names(d, p, i, x)`: a record
names `x`, and every record that is not older does too, on whatever PV.  `Recorded`: a
PV that holds a copy of `x` and stays has such a record in the half that is not being
written.  `RInv` says that every LTG of a request below is recorded (`BelowOK`), and
every entry that is not `CHANGING` (`Known`): that is kept when a record is written
because the one in memory names every LTG that has an entry, and an entry is reused only
if no request needs it.  A hit on an entry that is `CHANGING` waits for
the same PV (`Route`).  `TInv` takes it over the crash: an LTG whose copies may
differ is named on a PV that stays, by what may be torn in one half only (`OnDisk`); the
newest record that activation finds names it too, or that PV's records could not be read, and
then the copies on it are made stale and all others but one with them.  So
`CopiesAgree` holds by agreement or by recovery.

`NeverPanics` adds that an entry off the chain has no name (`AOK`), so that what
`lv_cache_new` takes and `lv_cache_scrub` removes is hashed, that a request that returns
has its entry (from `Struct`), and that nobody changes the record while it is written (the
tests of `CACHE_INFLIGHT`).  `NoneStranded` adds (`NInv`) that an entry that
is `CHANGING` has a request on the queue of its PV, or in the list of `lv_mwc_cache_done`,
and that the PV of a queue that is not empty is being written or is in line for it.

Only model-checked: `LvDefect`; quorum lost in `LvMircons`; `Released` and `ConfigReturns`
of `LvVgsa`, `Returned` of `LvMircons`, and every other liveness property, which is beyond
the proof system.

## 5. Not modelled

* `LvStrategy`: one volume; requests arrive aligned to one LTG (`LvSplit` has the
  rest); the statistics counters.
* `LvSchedule`: the reserved policy (one PV, no mirrors), `LVM_MIRAVOID`, residual
  counts, the choice of the least busy mirror (any is chosen).
* `LvVgsa`: one logical volume with the parallel policy; the missing-PV bits of a
  copy; the sequence number and the time of `lv_sa_update` are one `clock`; a read
  error of the newest copy at activation (which falls back to an older one,
  `lv_vgsa.c:193-206`); the deletion of the last PV, and of a PV across a crash; the
  write of the descriptor area that accompanies a command is one step.
* `LvMircons`: reads and writes without a record; the hash (one chain); LTGs of
  one extent; memory that cannot be had, volumes that cannot be held open during
  recovery; errors of the recovery itself; the records written at installation.
  An error of the status area's write is in `LvMircons` a choice (`frozen`), a PV that
  goes missing an action; `LvVgsa` models when that happens.
* `LvOpen`: lvol 0, the control device; flags that refuse an open.
* `LvDefect`: soft errors (`ESOFT`), fixups and `LVM_NORELOC`; a directory of several
  blocks; the search for a free entry (`lv_defect.c:350-355`), for which no lock is
  held, is one step with its use; `lv_initdefects` on a volume that is attached
  already, which activation does again (`lv_ioctls.c:685-689`) without emptying
  the hash table.
* `LvVgda`: PVs without a descriptor area, which the code refuses; creation of a
  group; the deletion of its last PV; activations that fail after quorum was found.
* Interrupt locks are atomic sections.  `LOCK_INTERRUPT` stores the saved
  priority before it owns the lock (`lvmd.h:113-117`): to say what that breaks takes the
  interrupt priorities of each processor, which no other module needs.
* Extend, reduce and reallocate (`lv_lvsubr.c`), as far as the maps in memory and the
  descriptors go: their steps below one lock are sequential code, and what the
  disks see of them is `LvVgda`'s `Change` and `LvVgsa`'s commands.
* `lv_kdb.c`, `lv_config.c`, the test programs and the commands, and the rest of the
  operating system: the reasons are in `PROJECT.json`.

## 6. Where the code disagrees with itself

The listed run:

| Run | Property | What |
|---|---|---|
| `vgda_unmade` | `NeverUnmade` | "the newest is written to all members of the set" (`lv_ioctls.c:628`) at activation, but the count of those behind is never stepped (`*need_update++`, 775): a decision the group has worked with is undone when other PVs are there |

The following configurations are kept beside it; `tlc -config X.cfg M` shows
each violation (`LvStrategy_*` with `MCLvStrategy`, and so on; `LvSplit`, `LvSchedule`
and `LvVgda` have no MC module).

| Configuration | Property | What |
|---|---|---|
| `LvStrategy_change` | `NoResyncPanic` | `lv_changelv` copies `lx_synctrk` before it pauses the volume, and puts the old one back (`lv_lvsubr.c:250`, `299`); the resynchronisation panics (`lv_strategy.c:529`) |
| `LvStrategy_rdonly` | `NoResyncPanic` | the write half of a resynchronisation is refused on a read-only volume (453-464), `lx_synctrk` stays, the next one panics |
| `LvStrategy_nocopy` | `NoResyncPanic` | recovery of an LTG without a usable copy does not reset `lx_synctrk` (532-545) |
| `LvSplit_lost` | `NotLost` | `lv_collect`: two halves completed at once; neither returns the original ("If it's the last, it biodones the original buffer", `lv_strategy.c:841`) |
| `LvSplit_unaligned` | `HalvesFit` | the first half has `+ bwp` where `- bwp` is meant (324), so an unaligned request of legal length is rejected |
| `LvSplit_partial` | `WholeBlocksOnly` | part of a request that is not whole blocks is carried out (309, against 295-296) |
| `LvSchedule_hole` | `WrittenIsDurable` | mirrors that do not exist count as written, so a write that failed everywhere is answered as done (493) |
| `LvVgsa_merge` | `StaleIsDurable` | requests of different extents join on the wheel (`lv_vgsa.c:543`) |
| `LvVgsa_attach` | `StaleIsDurable` | an attached PV counts for quorum before its copies are written (`lv_ioctls.c:183`) |
| `LvVgsa_half` | `MoreThanHalf` | half of the PVs is taken for a quorum (`lv_vgsa.c:977`, against 973-975) |
| `LvVgsa_delete` | `QuorumRechecked` | the recheck of quorum after a deletion is not reached (`lv_vgsa.c:680`, against 673-675) |
| `LvVgsa_nofail` | `StaleIsDurable` | "this can not fail" (`lv_lvsubr.c:656`), but it does at the loss of quorum |
| `LvVgsa_wait` | `ConfigAnswered` | a command that comes while quorum is lost is never woken |
| `LvMircons_refused` | `RefusedForCause` | a write is refused because the lowest mirror's PV is missing, though others are not (`lv_mircons.c:726`, against 450-455) |
| `LvMircons_frozen` | `CopiesAgree` | a frozen entry is reused (`lv_mircons.c:873`, "cannot delete this cache entry", `lvmd.h:527`) |
| `LvMircons_nogood` | `SomeGood` | the last good copy is made stale when its PV's record cannot be read (`lv_mircons.c:1306`) |
| `LvMircons_holes` | `NoPanic` | mirrors that are not allocated count as good copies: "too good" (`lv_mircons.c:1330`) |
| `LvOpen_parallel` | `PoolCovers` | two volumes of different groups are opened and closed at once: each adds or takes away for what it saw ("The appropriate number of pbufs are now in the pool", `lv_pbuf.c:105`) |
| `LvOpen_counts` | `CountsExact` | `vg_opencount` is tested and stepped under a read lock (`lv_syscalls.c:418`): two last closes both count the group, or neither |
| `LvDefect_resync` | `ReadsLast` | the first copy of the directory, torn or older, is not repaired when the second is read (`lv_defect.c:762`); the next crash reads it |

Others need a change of one constant of a configuration.

| Configuration and change | Property | What |
|---|---|---|
| `LvVgsa_crash`, `MaxFailures = 2`, property `RefusedIsError` | `RefusedIsError` | a write refused for want of quorum is returned without an error (`lv_schedule.c:300`, against 1076-1078) |
| `LvVgsa_crash`, `MaySync = TRUE`, `MaxClock = 6`, `MaxCrashes = 0` | `StaleIsDurable` | "clear all of the changing bits on the extents marked stale on the disk by this operation" (`lv_schedule.c:1198`), but for the last request of a resynchronisation `pb_mirbad` holds mirrors that this operation did not mark; a later write that marked one still waits, and the next that fails on it is answered before the bit is on a disk (1232-1238) |
| `LvMircons_crash`, `MayMiss = {0, 1, 2}` | `CopiesAgree` | the record of a PV marked missing is not read (`lv_mircons.c:1064`) |
| `LvMircons_live`, `MP = TRUE` | `NobodyStranded` | on two processors a hit on a changing entry waits for a write that is over (`lv_mircons.c:424`) |
| `LvSchedule_io` without `"early"` | `WrittenIsDurable` | a transfer fails while `lv_parallel` still starts others, and its `pb_mirbad` is cleared (`lv_schedule.c:548`) |
| `LvSchedule_io` without `"gone"`, property `WrittenIsDurable` | `WrittenIsDurable` | a PV goes missing during a resynchronisation; `PX_CHANGING` of another request is cleared (`lv_schedule.c:1236`) |
| `LvSchedule_io`, `MaxFail = 2`, property `SomeFresh` | `SomeFresh` | two writes that fail on different mirrors ("we should never mark all of the extents as stale", `lv_schedule.c:1106`) |
| `LvVgsa_nofail`, property `CompletedOnce` | `CompletedOnce` | at the loss of quorum each active request is completed by `lv_sa_done` (`lv_vgsa.c:684`) and again from `done_req` (689) |
| `LvMircons_refused`, `Entry = {1}`, property `NoPanic` | `NoPanic` | a refusal leaves an entry unhashed; its reuse panics (`lv_mircons.c:882`) |
| `LvOpen_counts`, `LvOpen_parallel`, `Parallel = 1`, `MaxNoMem = 1` | `CountsExact`, `PoolCovers` | a hold that fails for want of memory leaves `lv_ref` stepped (`lv_syscalls.c:454`); an open succeeds with fewer pbufs than one request needs |
| `LvSchedule_io` without `"seqread"` | `NoPanic` | `lv_seqread_done` calls `lv_nextmir` with one argument (`lv_schedule.c:959`) |
| `LvSchedule_io` without `"seqsync"`, property `NeverReadStale` | `NeverReadStale` | a resynchronisation under the sequential policy reads a stale mirror (854-871) |
| `LvSchedule_io` without `"leftover"`, property `SomeFresh` | `SomeFresh` | `pb_miravoid` is what the last user of the pbuf left |
| `LvDefect_io` without `"track"` | `ReadsLast` | a request that crosses a track looks on one chain only (`lv_defect.h:133`) |
| `LvDefect_io`, `MayGoBad = {3}` | `NoPanic` | an entry is hashed before its block is known (`lv_defect.c:382`), and not found where it is looked for |
| `LvDefect_io`, `MayGoBad = {0, 1}` and `Known = {}` | `ReadsLast` | so hashed, it is out of order on its chain, and hides the entry behind it |
| `LvDefect_io` without `"device"` | `RefusedForCause` | a deleted entry comes back from the disk (710) |
| `LvDefect_io` without `"torn"` | `NoPanic` | the entry of another's relocation in progress comes back |
| `LvDefect_io` without `"unwritten"` | `ReadsLast` | the result of the directory's write is not looked at (`lv_bbdirend`) |
| `LvDefect_io` without `"window"` | `NoPanic` | on two processors a request is queued while `b_forw` of the buffer is null (903-919) |
| `LvVgda_change` without `"minority"` | `AnsweredSurvives` | `lv_updatevgda` does not look at errors (`lv_vgda.c:387`) |
| `LvVgda_change` without `"reinstall"` | `AnsweredSurvives` | a PV that was deleted and is installed again still has its old descriptor (`lv_ioctls.c:337`) |
| `LvVgda_change`, property `NoPanic` | `NoPanic` | a PV that the group dropped is attached to it; the next `lv_deletepv` panics |
| `LvVgda_change` without `"unsettled"`, `First = {1, 2, 3, 4}`, `NPV = 5`, `MaxCrash = 2` (TLC led along the 24 states; five PVs are too many for a search) | `AnsweredSurvives` | `lv_activatevg` does not write what it chose (the count that `NeverUnmade` is about): PV 5 is being installed, a crash leaves the new descriptor on PV 1 alone; the group works on with 2, 3 and 4, drops 4, which is away, and answers; 1, 4 and 5 are then a quorum of what was on PV 1, which is newer than what 4 knows |
| `LvVgda_change` without `"single"`, property `NewestAlwaysKept` | `NewestAlwaysKept` | a group of one PV whose newer copy is overwritten first |

## 7. The plan

Done: the strategy layer with its proofs and its refinement (`LvStrategy`,
`LvPageLocks`, `LvSplit`), the status area with its proofs (`LvVgsa`), the consistency
records with their proofs (`LvMircons`), the scheduler with its proofs and its refinement (`LvSchedule`,
`LvBlock`), the pool and open counts with proofs (`LvOpen`), the physical layer
(`LvDefect`), the descriptor area with its proofs (`LvVgda`).

Left, in order:

1. Proofs: `ReadsLast` of `LvDefect`; `CopiesAgree` of `LvMircons` when quorum is lost
   and no frozen entry is reused.
2. `LvVgsa` under `LvSchedule` in place of its `SaDone`, on the smallest instance.
3. `LvChange`: extend, reduce and reallocate with memory that cannot be had half-way.
4. `LvCrit`: `LOCK_INTERRUPT` on two processors with interrupt priorities.
