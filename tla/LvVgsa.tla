------------------------------ MODULE LvVgsa ------------------------------
(***************************************************************************)
(* The status area (VGSA) of a volume group: which physical extents are    *)
(* stale.  Two copies of it lie on every physical volume (PV), and a wheel *)
(* of writes turns over all copies as long as there are changes.  A write  *)
(* of a mirrored logical volume that failed on some mirrors is held until  *)
(* the copies say that these mirrors are stale (lv_stalepp); so is the end *)
(* of a resynchronisation, that they no longer are.  Commands that change  *)
(* the configuration wait for a turn of the wheel too (lv_sa_config).  PVs *)
(* fail, PVs are attached and deleted, and the system crashes and is       *)
(* activated again from any majority of the PVs.                           *)
(*                                                                         *)
(* One logical volume with the parallel scheduling policy.  lv_sa_update   *)
(* steps a sequence number and reads the time; both are clock here, since  *)
(* only their order matters (sequence numbers start from 0 after a crash,  *)
(* but those on the wheel then are 0 too).  The PV-missing bits of the     *)
(* area, which activation overwrites (lv_sa_missing), are left out.        *)
(***************************************************************************)
EXTENDS Integers, Sequences, FiniteSets

CONSTANTS
    NPV,        \* number of PVs in the volume group
    LX,         \* logical extents
    Mirror,     \* mirror numbers, 0 ..
    PvOf,       \* PvOf[lx, m]: the PV of a physical extent
    BlkExt,     \* BlkExt[lx, m]: BLK2EXT of the physical blocks of it
    Req,        \* pbufs
    Spare,      \* physical extents that lv_extendlv may add
    Detached,   \* sets of PVs that may not be attached at first
    Commands,   \* commands that change the configuration, of the three below
    MaySync,    \* logical extents may be resynchronised
    MaxClock,   \* bound on lv_sa_update before new requests
    MaxFailures,\* bound on failing writes of the status area
    MaxCrashes

PV == 0 .. NPV - 1
Loc == 0 .. 2 * NPV - 1            \* wheel index: PV and copy
Ext == LX \X Mirror

ASSUME VgsaAssumption ==
    /\ NPV \in Nat \ {0} /\ LX # {} /\ MaxClock \in Nat /\ MaxFailures \in Nat
    /\ MaxCrashes \in Nat /\ IsFiniteSet(Mirror) /\ Mirror \subseteq Nat
    /\ PvOf \in [Ext -> PV] /\ Spare \subseteq Ext
    /\ \A D \in Detached : D \subseteq PV /\ 2 * Cardinality(D) < NPV
    /\ MaySync \in BOOLEAN /\ Commands \subseteq {"attach", "delete", "extend"}

VARIABLES
    up,        \* "down", "starting" (being activated) or "up"
    used,      \* physical extents of the logical volume
    e_state,   \* e_state of each: PX_STALE, PX_CHANGING
    sync,      \* lx_syncmsk, lx_syncerr, and whether lx_synctrk # -1
    pb,        \* the pbufs
    hold,      \* vg_sa_hold
    stale,     \* the PX-stale bits of the area in memory
    clock,     \* vg_sa_seqnum, and the time of the last lv_sa_update
    saseq,     \* SA_SEQNUM of each copy
    disk,      \* the copies: timestamp (0 if torn) and PX-stale bits
    wheel,     \* vg_sa_wheel
    pc,        \* the wheel: stopped, continue, writing, or spinning
    pvols,     \* PVs in vg->pvols
    missing,   \* PVs with LVM_PVMISSING
    away,      \* PVs with LVM_NOTATTACHED
    lost,      \* VG_LOST_QUORUM
    conf,      \* vg_sa_conf_op, _arg and _seq
    call,      \* the command that called lv_sa_config
    again,     \* pbufs that lv_sa_continue will complete a second time
    failures, crashes

io   == <<used, e_state, sync, pb>>
area == <<stale, clock, saseq, disk>>
grp  == <<up, pvols, away, lost, failures, crashes>>
vars == <<io, hold, area, wheel, pc, missing, conf, call, again, grp>>

STALE == "PX_STALE"
CHANGING == "PX_CHANGING"

NoPb == [state |-> "idle", type |-> "", lx |-> CHOOSE l \in LX : TRUE, act |-> {},
         avoid |-> {}, bad |-> {}, fresh |-> {}, error |-> FALSE, blk |-> 0, seq |-> 0]
NoSync == [on |-> FALSE, msk |-> {}, err |-> {}]
NoConf == [op |-> "CNFG_NOP", arg |-> {}, seq |-> 0]
NoCall == [what |-> "none", arg |-> {}]

MirrorsOf(lx) == {m \in Mirror : <<lx, m>> \in used}
Missing(lx)   == {m \in MirrorsOf(lx) : PvOf[lx, m] \in missing}
First(mask)   == CHOOSE m \in mask : \A k \in mask : m <= k     \* FIRST_MASK

\* vg_sa_active is sorted by sequence number: a set of pbufs stands for it.
Active == {r \in Req : pb[r].state = "active"}
Oldest(R) == CHOOSE a \in R : \A b \in R : pb[a].seq <= pb[b].seq

-----------------------------------------------------------------------------
(* The scheduler: what it asks of the status area.                         *)

\* A slip: SA_ACTIVE is set, but lv_sa_continue is not called.
NotStarted == pc

\* The wheel is started, unless it is rolling (SA_ACTIVE).
Started == IF pc = "stopped" THEN "continue" ELSE pc

\* lv_sa_start: r goes on the hold list.
SaStart(r) ==
    /\ hold' = Append(hold, r)
    /\ pc' = Started

Finished(p) == NoPb      \* lv_finished frees the pbuf

\* lv_parallel: a write goes to all mirrors of its extent that are not missing.
WriteStart(r) ==
    /\ up = "up" /\ pb[r].state = "idle" /\ clock < MaxClock
    /\ \E lx \in LX :
          /\ MirrorsOf(lx) # Missing(lx)
          /\ pb' = [pb EXCEPT ![r] = [NoPb EXCEPT !.state = "io", !.lx = lx,
                        !.type = "SA_STALEPX",
                        !.act = MirrorsOf(lx) \ Missing(lx),
                        !.avoid = Missing(lx)]]
    /\ UNCHANGED <<used, e_state, sync, hold, area, wheel, pc, missing,
                   conf, call, again, grp>>

\* A slip: the mirrors that are not stale, as for LVM_RECOVERY.
SyncMaskFresh(lx) == {m \in MirrorsOf(lx) \ Missing(lx) : STALE \notin e_state[lx, m]}

\* lx_syncmsk at the first track of the extent.
SyncMask(lx) == {m \in MirrorsOf(lx) \ Missing(lx) : STALE \in e_state[lx, m]}

\* lv_initiate (which sets up the masks for the first track) and lv_parallel: the
\* write of a resynchronisation goes to the stale mirrors.
SyncStart(r) ==
    /\ MaySync /\ up = "up" /\ pb[r].state = "idle" /\ clock < MaxClock
    /\ \E lx \in LX :
          /\ \A q \in Req : pb[q].type = "SA_FRESHPX" => pb[q].lx # lx
          /\ sync' = [sync EXCEPT ![lx] = IF @.on THEN @ ELSE
                         [on |-> TRUE, err |-> {}, msk |-> SyncMask(lx)]]
          /\ sync'[lx].msk \ Missing(lx) # {}
          /\ pb' = [pb EXCEPT ![r] = [NoPb EXCEPT !.state = "io", !.lx = lx,
                        !.type = "SA_FRESHPX",
                        !.act = sync'[lx].msk \ Missing(lx),
                        !.avoid = Missing(lx)]]
    /\ UNCHANGED <<used, e_state, hold, area, wheel, pc, missing, conf,
                   call, again, grp>>

\* lv_stalepp spares one mirror if the write failed on all of them.
Spared(p, bad) == IF bad = Mirror THEN bad \ {First(p.act)} ELSE bad

\* The second half of lv_stalepp: the bad mirrors are marked stale; those not
\* known to be stale on disk already are left in pb_mirbad, and the pbuf waits
\* for the status area if there are any.
MarkStale(r, p, bad) ==
    LET wait == {m \in bad : e_state[p.lx, m] # {STALE}} IN
    /\ e_state' = [e \in Ext |->
           IF e[1] = p.lx /\ e[2] \in wait THEN {STALE, CHANGING} ELSE e_state[e]]
    /\ IF wait # {}
       THEN /\ pb' = [pb EXCEPT ![r] = [p EXCEPT !.state = "hold", !.bad = wait,
                                                 !.type = "SA_STALEPX"]]
            /\ SaStart(r)
       ELSE pb' = [pb EXCEPT ![r] = Finished(p)] /\ UNCHANGED <<hold, pc>>

\* lv_parwrite_done of the last mirror, and lv_stalepp, for a write that failed on
\* the mirrors in fail.
WriteDone(r) ==
    /\ pb[r].state = "io" /\ pb[r].type = "SA_STALEPX"
    /\ \E fail \in SUBSET pb[r].act, last \in pb[r].act :
          LET bad == fail \cup pb[r].avoid
              p   == [pb[r] EXCEPT !.error = bad = Mirror,
                                   !.blk = BlkExt[pb[r].lx, last]]
          IN  /\ MarkStale(r, p, Spared(p, bad) \cap MirrorsOf(p.lx))
              /\ sync' = [sync EXCEPT ![p.lx].err = @ \cup Spared(p, bad)]
    /\ UNCHANGED <<used, area, wheel, missing, conf, call, again, grp>>

\* Requests of the same track wait for each other (lv_strategy), so the last track
\* comes after the end of all writes that failed before the first; a mirror that a
\* write failed on since is in lx_syncerr.
Passed(lx, msk) ==
    \A q \in Req : /\ pb[q].type = "SA_STALEPX" /\ pb[q].lx = lx
                   /\ pb[q].state # "io"
                   => pb[q].bad \cap msk = {}

\* The same for the write of a resynchronisation.  After the last track of the
\* extent the mirrors that had no error since the first one are fresh.
SyncDone(r) ==
    /\ pb[r].state = "io" /\ pb[r].type = "SA_FRESHPX"
    /\ \E fail \in SUBSET pb[r].act, last \in pb[r].act, lasttrack \in BOOLEAN :
          LET bad == fail \cup pb[r].avoid
              lx  == pb[r].lx
              err == sync[lx].err \cup Spared(pb[r], bad) \cup pb[r].avoid
              msk == sync[lx].msk \ err
              p   == [pb[r] EXCEPT !.blk = BlkExt[lx, last],
                                   !.error = bad = Mirror \/ msk = {}]
          IN  IF msk # {} /\ lasttrack
              THEN /\ Passed(lx, msk)
                   /\ e_state' = [e \in Ext |-> IF e[1] = lx /\ e[2] \in msk
                                    THEN e_state[e] \ {STALE} ELSE e_state[e]]
                   /\ sync' = [sync EXCEPT ![lx] = NoSync]
                   /\ pb' = [pb EXCEPT ![r] = [p EXCEPT !.state = "hold",
                                                        !.bad = Spared(p, bad),
                                                        !.fresh = msk]]
                   /\ SaStart(r)
              ELSE /\ MarkStale(r, p, Spared(p, bad))
                   /\ sync' = [sync EXCEPT ![lx] =
                          IF msk = {} THEN NoSync ELSE [@ EXCEPT !.msk = msk, !.err = err]]
    /\ UNCHANGED <<used, area, wheel, missing, conf, call, again, grp>>

-----------------------------------------------------------------------------
(* The wheel.                                                              *)

\* lv_sa_whladv: the next copy after c on a PV that is not missing.
Usable == {l \in Loc : l \div 2 \in pvols \ missing}
Distance(c, l) == IF l > c THEN l - c - 1 ELSE l + 2 * NPV - c - 1

\* A slip: the step off the present copy is forgotten.
AdvanceStuck(c, usable) ==
    CHOOSE l \in usable : \A k \in usable : Distance(c - 1, l) <= Distance(c - 1, k)

Advance(c, usable) ==
    CHOOSE l \in usable : \A k \in usable : Distance(c, l) <= Distance(c, k)

\* A slip: two requests of the same extent are taken to be the same.
SameExtent(a, p) == a.type = p.type /\ a.type = "SA_STALEPX" /\ a.blk = p.blk

\* lv_sa_continue: does the active request a do what p asks for?
Same(a, p) ==
    /\ a.type = p.type /\ a.type = "SA_STALEPX"
    /\ a.blk = p.blk /\ p.bad \subseteq a.bad

Marks(p) == {<<p.lx, m>> : m \in IF p.type = "SA_STALEPX" THEN p.bad ELSE p.fresh}

\* lv_sa_continue, one request of the hold list: it joins an active one that does
\* the same (lv_sa_hback), the first on the list, or is put into effect.
Enter ==
    /\ pc = "continue" /\ hold # <<>>
    /\ LET r == Head(hold)
           same == {a \in Active : Same(pb[a], pb[r])}
       IN  IF same # {}
           THEN /\ pb' = [pb EXCEPT ![r] = [@ EXCEPT !.state = "merged",
                                                     !.seq = pb[Oldest(same)].seq]]
                /\ UNCHANGED stale
           ELSE /\ pb' = [pb EXCEPT ![r] = [@ EXCEPT !.state = "active",
                                                     !.seq = clock + 1]]
                /\ stale' = IF pb[r].type = "SA_STALEPX" THEN stale \cup Marks(pb[r])
                                                        ELSE stale \ Marks(pb[r])
    /\ hold' = Tail(hold)
    /\ UNCHANGED <<used, e_state, sync, clock, saseq, disk, wheel, pc, missing,
                   conf, call, again, grp>>

\* lv_sa_qrmcheck: fewer than half of the PVs are left.
LosesQuorum == Cardinality(pvols \ missing) < (Cardinality(pvols) + 1) \div 2

ConfPending == conf.op \notin {"CNFG_NOP", "CNFG_INPROGRESS"}

NewClock == IF ConfPending \/ \E r \in Active : pb[r].seq > clock
            THEN clock + 1 ELSE clock

\* Loss of quorum: everybody on the active list is completed with an error, and
\* the list kept for a second time.
Refuse(confseq) ==
    LET back == {r \in Req : pb[r].state \in {"active", "merged"}} IN
    /\ lost' = TRUE
    /\ pb' = [r \in Req |-> IF r \in back THEN Finished(pb[r]) ELSE pb[r]]
    /\ again' = again \cup Active
    /\ conf' = confseq
    /\ pc' = "stopped"
    /\ UNCHANGED wheel

\* Slips: the requests that joined the one that is let go are not, or the copy just
\* written is looked at, not the next.
LetGoHead(p, n) == p.state = "active" /\ p.seq <= saseq[n]
LetGoHere(p, n) == p.state \in {"active", "merged"} /\ p.seq <= saseq[wheel]

LetGo(p, n) == p.state \in {"active", "merged"} /\ p.seq <= saseq[n]

\* Otherwise those go on whose change the next copy holds, and the wheel rolls
\* on, or stops if the next copy is up to date.
Roll(confseq, usable) ==
    LET n == Advance(wheel, usable) IN
    /\ lost' = lost
    /\ pb' = [r \in Req |->
           IF LetGo(pb[r], n) THEN [pb[r] EXCEPT !.state = "done"] ELSE pb[r]]
    /\ conf' = IF confseq.op = "CNFG_INPROGRESS" /\ confseq.seq <= saseq[n]
               THEN NoConf ELSE confseq
    /\ wheel' = n
    /\ pc' = IF clock' > saseq[n] THEN "writing" ELSE "stopped"
    /\ UNCHANGED again

\* lv_sa_continue, after the hold list.  The configuration operation is put into
\* effect after the check of the quorum; with no PV left lv_sa_whladv never
\* returns.
Turn ==
    /\ pc = "continue" /\ hold = <<>>
    /\ clock' = NewClock
    /\ stale' = IF conf.op = "CNFG_STALEPX" THEN stale \cup conf.arg ELSE stale
    /\ missing' = IF conf.op = "CNFG_PVMISSING" THEN missing \cup conf.arg ELSE missing
    /\ LET confseq == IF ConfPending
                      THEN [conf EXCEPT !.op = "CNFG_INPROGRESS", !.seq = NewClock]
                      ELSE conf
           usable == {l \in Usable : l \div 2 \notin missing'}
       IN  IF lost \/ LosesQuorum THEN Refuse(confseq)
           ELSE IF usable # {} THEN Roll(confseq, usable)
           ELSE /\ pc' = "spinning" /\ conf' = confseq
                /\ UNCHANGED <<pb, wheel, again, lost>>
    /\ UNCHANGED <<used, e_state, sync, hold, saseq, disk, call, up, pvols, away,
                   failures, crashes>>

Torn == [ts |-> 0, stale |-> {}]
Current == [ts |-> clock, stale |-> stale]

AreaWritten ==
    /\ saseq' = [saseq EXCEPT ![wheel] = clock]
    /\ UNCHANGED <<missing, clock>>

\* lv_sa_iodone with B_ERROR: the PV is missing.
AreaFails ==
    /\ missing' = missing \cup {wheel \div 2}
    /\ clock' = clock + 1
    /\ UNCHANGED saseq

\* lv_sa_write and lv_sa_iodone.  A copy whose write fails may be torn.
WriteArea ==
    /\ pc = "writing"
    /\ \/ /\ disk' = [disk EXCEPT ![wheel] = Current] /\ UNCHANGED failures
          /\ AreaWritten
       \/ /\ failures < MaxFailures /\ failures' = failures + 1
          /\ disk' \in {disk, [disk EXCEPT ![wheel] = Torn]}
          /\ AreaFails
    /\ pc' = "continue"
    /\ UNCHANGED <<io, hold, stale, wheel, conf, call, again, up, pvols,
                   away, lost, crashes>>

\* lv_sa_done with ESUCCESS and lv_stalepp_done: the mirrors in pb_mirbad are no
\* longer changing (those of a fresh request too, which did not mark them).
Answer(r) ==
    /\ pb[r].state = "done"
    /\ e_state' = [e \in Ext |->
           IF e[1] = pb[r].lx /\ e[2] \in pb[r].bad
           THEN e_state[e] \ {CHANGING} ELSE e_state[e]]
    /\ pb' = [pb EXCEPT ![r] = Finished(pb[r])]
    /\ UNCHANGED <<used, sync, hold, area, wheel, pc, missing, conf, call,
                   again, grp>>

-----------------------------------------------------------------------------
(* Commands.                                                               *)

\* lv_sa_config: one operation at a time (vg_lock); refused without quorum.
SaConfig(what, arg, op, oparg) ==
    /\ what \in Commands
    /\ call = NoCall /\ call' = [what |-> what, arg |-> arg]
    /\ IF lost
       THEN UNCHANGED <<conf, pc>>
       ELSE /\ conf' = [op |-> op, arg |-> oparg, seq |-> 0]
            /\ pc' = Started

\* A physical extent is added stale, if its logical extent had one before.
Stale(e) == IF <<e[1], 0>> \in used THEN {e} ELSE {}

Command ==
    /\ up = "up" /\ clock < MaxClock
    /\ \/ \E p \in away :                                     \* lv_attachpv
             away' = away \ {p} /\ SaConfig("attach", {p}, "CNFG_INSTALLPV", {p})
       \/ /\ Cardinality(pvols) > 1 /\ UNCHANGED away
          /\ \E p \in pvols :                               \* lv_deletepv
                /\ \A e \in used : PvOf[e] # p
                /\ SaConfig("delete", {p}, "CNFG_PVMISSING", {p})
       \/ /\ UNCHANGED away
          /\ \E e \in Spare \ used :                         \* lv_extendlv
                /\ \A m \in Mirror : m < e[2] => <<e[1], m>> \in used
                /\ SaConfig("extend", {e}, "CNFG_STALEPX", Stale(e))
    /\ UNCHANGED <<io, hold, area, wheel, missing, again, up, pvols, lost,
                   failures, crashes>>

\* lv_sa_config returns, and what its caller does then.
ConfigReturn ==
    /\ call # NoCall /\ conf = NoConf /\ call' = NoCall
    /\ missing' = IF call.what = "attach" THEN missing \ call.arg ELSE missing
    /\ pvols' = IF call.what = "delete" THEN pvols \ call.arg ELSE pvols
    /\ used' = IF call.what = "extend" THEN used \cup call.arg ELSE used
    /\ e_state' = [e \in Ext |->
           IF call.what = "extend" /\ e \in call.arg /\ Stale(e) # {}
           THEN {STALE} ELSE e_state[e]]
    /\ up' = "up"
    /\ away' = away \ (pvols \ pvols')
    /\ UNCHANGED <<sync, pb, hold, area, wheel, pc, conf, again, lost,
                   failures, crashes>>

-----------------------------------------------------------------------------
(* Crash and activation.                                                   *)

Crash ==
    /\ up # "down" /\ crashes < MaxCrashes
    /\ up' = "down" /\ crashes' = crashes + 1
    /\ IF pc = "writing"
       THEN \E copy \in {disk[wheel], Torn, Current} : disk' = [disk EXCEPT ![wheel] = copy]
       ELSE UNCHANGED disk
    /\ e_state' = [e \in Ext |-> {}] /\ sync' = [lx \in LX |-> NoSync]
    /\ pb' = [r \in Req |-> NoPb] /\ hold' = <<>> /\ again' = {}
    /\ stale' = {} /\ saseq' = [l \in Loc |-> 0] /\ wheel' = 0 /\ pc' = "stopped"
    /\ missing' = {} /\ away' = {} /\ lost' = FALSE /\ conf' = NoConf /\ call' = NoCall
    /\ UNCHANGED <<used, clock, pvols, failures>>

\* lv_init_pvols: what must be attached to activate the volume group.
Quorum == {Q \in SUBSET pvols : 2 * Cardinality(Q) > Cardinality(pvols)}

\* lv_readvgdats and lv_sa_getnewest: the newest copies among the PVs of Q.
Newest(Q) ==
    LET copies == {l \in Loc : l \div 2 \in Q /\ disk[l].ts > 0}
    IN  {l \in copies : \A k \in copies : disk[k].ts <= disk[l].ts}

\* lv_activatevg: lv_sa_readvgsa, lv_init_lvols and lv_sa_missing, which writes
\* all copies before the volume group is open for requests.
Activate ==
    /\ up = "down" /\ up' = "starting"
    /\ \E Q \in Quorum : \E l \in Newest(Q) :
          /\ stale' = disk[l].stale
          /\ e_state' = [e \in Ext |-> IF e \in used \cap disk[l].stale
                                       THEN {STALE} ELSE {}]
          /\ wheel' = l
          /\ missing' = pvols \ Q /\ away' = pvols \ Q
    /\ call' = [what |-> "activate", arg |-> {}]
    /\ conf' = [op |-> "CNFG_SYNCWRITE", arg |-> {}, seq |-> 0]
    /\ pc' = "continue"
    /\ UNCHANGED <<used, sync, pb, hold, clock, saseq, disk, again, pvols,
                   lost, failures, crashes>>

Init ==
    /\ up = "up" /\ used = Ext \ Spare
    /\ e_state = [e \in Ext |-> {}] /\ sync = [lx \in LX |-> NoSync]
    /\ pb = [r \in Req |-> NoPb] /\ hold = <<>> /\ again = {}
    /\ stale = {} /\ clock = 2 /\ saseq = [l \in Loc |-> 0]
    /\ wheel = 0 /\ pc = "stopped"
    /\ pvols = PV /\ missing \in Detached /\ away = missing /\ lost = FALSE
    /\ disk = [l \in Loc |-> [ts |-> IF l \div 2 \in missing THEN 1 ELSE 2, stale |-> {}]]
    /\ conf = NoConf /\ call = NoCall
    /\ failures = 0 /\ crashes = 0

Next ==
    \/ \E r \in Req : \/ WriteStart(r) \/ WriteDone(r)
                      \/ SyncStart(r) \/ SyncDone(r) \/ Answer(r)
    \/ Enter \/ Turn \/ WriteArea
    \/ Command \/ ConfigReturn
    \/ Crash \/ Activate

Spec == Init /\ [][Next]_vars

\* Devices answer, the callout threads run, and threads that were woken go on.
Fairness ==
    /\ WF_vars(Enter) /\ WF_vars(Turn) /\ WF_vars(WriteArea) /\ WF_vars(ConfigReturn)
    /\ \A r \in Req : WF_vars(WriteDone(r)) /\ WF_vars(SyncDone(r)) /\ WF_vars(Answer(r))

FairSpec == Spec /\ Fairness

-----------------------------------------------------------------------------
(* Properties.                                                             *)

PbStates == {"idle", "io", "hold", "active", "merged", "done"}

Pbuf == [state : PbStates, type : {"", "SA_STALEPX", "SA_FRESHPX"}, lx : LX,
         act : SUBSET Mirror, avoid : SUBSET Mirror, bad : SUBSET Mirror,
         fresh : SUBSET Mirror, error : BOOLEAN, seq : Nat,
         blk : {0} \cup {BlkExt[e] : e \in Ext}]

ConfOps == {"CNFG_NOP", "CNFG_INPROGRESS", "CNFG_SYNCWRITE", "CNFG_INSTALLPV",
            "CNFG_PVMISSING", "CNFG_STALEPX"}

TypeOK ==
    /\ up \in {"down", "starting", "up"} /\ used \subseteq Ext
    /\ pc \in {"stopped", "continue", "writing", "spinning"}
    /\ e_state \in [Ext -> SUBSET {STALE, CHANGING}]
    /\ sync \in [LX -> [on : BOOLEAN, msk : SUBSET Mirror, err : SUBSET Mirror]]
    /\ pb \in [Req -> Pbuf]
    /\ hold \in Seq(Req) /\ \A i \in 1 .. Len(hold) : pb[hold[i]].state = "hold"
    /\ \A i, j \in 1 .. Len(hold) : hold[i] = hold[j] => i = j
    /\ stale \subseteq Ext /\ clock \in Nat \ {0}
    /\ wheel \in Loc /\ saseq \in [Loc -> 0 .. clock]
    /\ disk \in [Loc -> [ts : 0 .. clock, stale : SUBSET Ext]]
    /\ pvols \subseteq PV /\ missing \subseteq PV /\ away \subseteq PV
    /\ lost \in BOOLEAN /\ failures \in Nat /\ crashes \in Nat
    /\ again \subseteq Req
    /\ conf \in [op : ConfOps, arg : {conf.arg}, seq : 0 .. clock]
    /\ conf.op = "CNFG_PVMISSING" => conf.arg \subseteq PV
    /\ conf.op = "CNFG_STALEPX" => conf.arg \subseteq Ext
    /\ call \in [what : Commands \cup {"none", "activate"}, arg : {call.arg}]
    /\ call.what = "extend" => call.arg \subseteq Ext

\* Whoever activates the volume group, with any majority of its PVs, finds e
\* stale.
Durable(e) == \A Q \in Quorum : \A l \in Newest(Q) : e \in disk[l].stale

\* An extent that is stale and no longer changing is stale on disk, whatever PVs
\* fail or are missing and wherever the system crashes: lv_stalepp does not wait
\* for such an extent ("currently marked stale on disk", lv_schedule.c:1167-1169).
StaleIsDurable ==
    up = "up" => \A e \in used : e_state[e] = {STALE} => Durable(e)

\* lv_sa_done with ESUCCESS: a write is let go only when the mirrors it did not
\* reach are stale on disk.
AckIsDurable ==
    [][\A r \in Req :
         /\ pb[r].state \in {"active", "merged"} /\ pb[r].type = "SA_STALEPX"
         /\ pb'[r].state = "done"
         => \A e \in Marks(pb[r]) : Durable(e)']_vars

\* "If a loss of quorum happens while this operation is in progress ... then the
\* request will be returned with an error" (lv_stalepp, lv_schedule.c:1076-1078).
RefusedIsError ==
    [][\A r \in Req :
         /\ pb[r].state \in {"active", "merged"} /\ pb[r].type = "SA_STALEPX"
         /\ pb'[r].state = "idle" /\ up' # "down"
         => pb[r].error]_vars

\* The next copy is the oldest of all: lv_sa_continue looks only at this one to see
\* which requests are on every copy, and whether the wheel may stop.
NextIsOldest ==
    pc = "writing" \/ (pc = "stopped" /\ ~lost) =>
        \A l \in Usable : saseq[wheel] <= saseq[l]

\* When the wheel stands still nobody waits for it (SA_ACTIVE), unless quorum was
\* lost.
NobodyForgotten ==
    pc = "stopped" => /\ hold = <<>> /\ Active = {}
                      /\ conf = NoConf \/ lost

\* "We should never mark all of the extents as stale" (lv_stalepp).
SomeFresh ==
    up = "up" => \A lx \in LX : \E m \in MirrorsOf(lx) : STALE \notin e_state[lx, m]

\* "More than half the number of eligible pvols must be accessible for quorum"
\* (lv_sa_qrmcheck): without them the wheel does not roll on.
MoreThanHalf ==
    [][pc = "continue" /\ pc' = "writing" =>
          2 * Cardinality(pvols \ missing) > Cardinality(pvols)]_vars

\* "We have to recheck quorum as we may have lost it above" (lv_sa_continue): the
\* wheel is not advanced when no PV is left.
QuorumRechecked == pc # "spinning"

\* A request is completed once.
CompletedOnce == again = {}

\* lv_stalepp: only stale mirrors are made fresh (panic "sync not stale").
SyncNotStale ==
    [][\A r \in Req : pb[r].type = "SA_FRESHPX" /\ pb[r].state = "io"
          /\ pb'[r].type = "SA_FRESHPX" /\ pb'[r].state = "hold"
          => \A e \in Marks(pb'[r]) : STALE \in e_state[e]]_vars

\* Every request that waits for the status area is let go.
Released ==
    \A r \in Req : pb[r].state \in {"hold", "active", "merged", "done"}
                      ~> pb[r].state = "idle"

\* lv_sa_config returns: "ESUCCESS" or "ENODEV - The volume group is closing due
\* to lack of quorum".
ConfigAnswered == call # NoCall ~> call = NoCall

\* A command returns from lv_sa_config unless quorum is lost, whatever requests ride
\* on the wheel before, with and behind it.
ConfigReturns == call # NoCall ~> (call = NoCall \/ lost)
=============================================================================
