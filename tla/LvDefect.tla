------------------------------ MODULE LvDefect ------------------------------
(***************************************************************************)
(* The physical layer and its defects: how a transfer of one physical      *)
(* volume avoids the blocks known to be bad (lv_validblk), what it does    *)
(* with a block that fails (lv_end, lv_hwreloc, lv_swreloc, lv_relocdone), *)
(* how the defect directory reaches its two copies on the disk             *)
(* (lv_updatebbdir, lv_bbdirend), and how it is read back when the volume  *)
(* is attached after a crash (lv_initdefects).                             *)
(*                                                                         *)
(* The device is external: it may refuse a bad block or yield its content  *)
(* when it reads it, always refuses to write it, and relocates it, or not, *)
(* when a write carries B_HWRELOC.  An answer of the device and the        *)
(* interrupt that handles it are one step.  Requests do not overlap (the   *)
(* strategy layer).  Soft errors (ESOFT), fixups and LVM_NORELOC are left  *)
(* out; the directory has one block.                                       *)
(***************************************************************************)
EXTENDS Integers, Sequences, FiniteSets, FiniteSetsExt, SequencesExt

CONSTANTS
    Request,
    NBlk,       \* blocks 0 .. NBlk - 1 hold data
    BlkPerTrk,
    HashSize,
    NAlt,       \* length of the pool of alternate blocks
    NSlot,      \* entries of the directory
    Known,      \* blocks relocated before
    MayGoBad,   \* blocks that may become bad
    Spared,     \* what does not happen, of the five below
    MaxReq,     \* bound on the requests
    MaxFail,    \* bound on failures that are not of the medium
    MaxDirFail, \* bound on directory writes that fail
    MaxCrash    \* bound on crashes

Block  == 0 .. NBlk - 1
AltPsn == NBlk                      \* altpool_psn
AltEnd == NBlk + NAlt               \* altpool_end
Disk   == 0 .. AltEnd - 1
Slot   == 1 .. NSlot
MaxSwRetry == 3                     \* MAX_SWRETRY

(* What a run may be spared.  "track": a request crosses a track of the    *)
(* physical volume.  "torn": a crash while an entry on the disk is one of  *)
(* a relocation that had not ended.  "device": a crash while the disk has  *)
(* an entry that was deleted from memory.  "unwritten": a crash after a    *)
(* write of the directory failed.  "window": another processor handles the *)
(* end of a transfer while lv_bbdirend has dropped its lock.               *)
Spares == {"track", "torn", "device", "unwritten", "window"}

ASSUME DefectAssumption ==
    /\ NBlk \in Nat \ {0} /\ NAlt \in Nat \ {0} /\ NSlot \in Nat \ {0}
    /\ BlkPerTrk \in Nat \ {0} /\ HashSize \in Nat \ {0}
    /\ Known \subseteq Block /\ Cardinality(Known) <= NSlot /\ Cardinality(Known) < NAlt
    /\ MayGoBad \subseteq Disk /\ Spared \subseteq Spares
    /\ {MaxReq, MaxFail, MaxDirFail, MaxCrash} \subseteq Nat

VARIABLES
    medium,     \* the blocks of the disk
    disk,       \* the two copies of the directory
    pv,         \* the physical volume in memory: directory, hash table, pool
    pb,         \* the pbuf of each request
    dirq,       \* requests that wait for the directory, in order (pv_buf)
    copy,       \* the copy that is being written, 1 or 2; 0 while lv_bbdirend is
                \* between two that wait (906-919)
    last,       \* history: what a read of each block may return
    issued, fails, dirfails, crashes

vars == <<medium, disk, pv, pb, dirq, copy, last, issued, fails, dirfails, crashes>>
counts == <<issued, fails, dirfails, crashes>>

Track(b)  == b \div BlkPerTrk                  \* BLK2TRK
Hash(b)   == Track(b) % HashSize               \* BBHASHINX
NoSlot    == 0
NoAlt     == 0
Junk      == -1                                \* content that nobody wrote

Free == [used |-> FALSE, blk |-> 0, status |-> "done", alt |-> NoAlt]
Status == {"done", "pending", "device", "desired"}
Error  == {"none", "EIO", "EMEDIA", "ERELOCATED"}

NoPb == [phase |-> "idle", op |-> "read", val |-> 0, start |-> 0, end |-> 0,
         at |-> 0, blk |-> 0, n |-> 0, bad |-> NoSlot, pending |-> FALSE,
         hw |-> FALSE, retry |-> 0, error |-> "none", wrong |-> FALSE]

Blocks(p) == p.start .. p.end - 1

-----------------------------------------------------------------------------
(* The hash table.                                                         *)

\* lv_defecthash: the chain of the entry's block, in ascending order.
DefectHash(v, e) ==
    LET d == v.dir[e].blk
        c == v.chain[Hash(d)]
        at == SelectInSeq(c, LAMBDA x : d <= v.dir[x].blk) IN
    [v EXCEPT !.chain[Hash(d)] = InsertAt(c, IF at = 0 THEN Len(c) + 1 ELSE at, e)]

\* lv_deletedefect.  It follows a null pointer when the chain of the entry's
\* block does not have the entry.
DeleteDefect(v, e) ==
    LET d == v.dir[e].blk
        c == v.chain[Hash(d)]
        at == SelectInSeq(c, LAMBDA x : v.dir[x].blk = d) IN
    IF at = 0 THEN [v EXCEPT !.panic = "lv_deletedefect"]
    ELSE [v EXCEPT !.chain[Hash(d)] = RemoveAt(c, at), !.dir[c[at]] = Free]

\* lv_initdefects on a copy of the directory; the first alternate is never used.
InitDefects(d) ==
    LET alts == {d[e].alt : e \in {x \in Slot : d[x].used}}
        next == Max(alts \cup {AltPsn}) + 1
        bare == [dir |-> d, chain |-> [h \in 0 .. HashSize - 1 |-> <<>>],
                 altnext |-> next, rorel |-> next > AltEnd, panic |-> "none"]
        Add(v, e) == IF d[e].used THEN DefectHash(v, e) ELSE v IN
    FoldLeft(Add, bare, [i \in Slot |-> i])

-----------------------------------------------------------------------------
(* What becomes of a request.  The operators return the pbuf p and the     *)
(* physical volume v as the function of the same name leaves them.         *)

Result(p, v) == [p |-> p, v |-> v]
Done(p)      == [p EXCEPT !.phase = "done"]                      \* LV_SCHED_DONE
SetStatus(v, e, s) == [v EXCEPT !.dir[e].status = s]
Drop(v, e)   == [v EXCEPT !.dir[e].status = "desired", !.dir[e].alt = NoAlt]

\* lv_validblk, and what lv_begin and lv_resume do with its answer: the transfer
\* stops short of the first block known to be bad, or is that block alone.
Send(p, v) ==
    LET c == v.chain[Hash(p.blk)]
        at == SelectInSeq(c, LAMBDA x : p.blk <= v.dir[x].blk)
        e == c[at]
        d == v.dir[e]
        q == [p EXCEPT !.bad = NoSlot, !.phase = "device"]
        one == [q EXCEPT !.bad = e, !.n = 1] IN
    IF at = 0 \/ p.blk + p.n <= d.blk THEN Result(q, v)
    ELSE IF p.blk < d.blk THEN Result([q EXCEPT !.n = d.blk - p.blk], v)
    ELSE IF d.status = "done" THEN Result([one EXCEPT !.blk = d.alt], v)
    ELSE IF d.status # "desired" THEN Result(one, [v EXCEPT !.panic = "lv_validblk"])
    ELSE IF p.op = "read" \/ v.rorel THEN Result(Done([one EXCEPT !.error = "EMEDIA"]), v)
    ELSE Result([one EXCEPT !.hw = TRUE], SetStatus(v, e, "device"))

Resume(p, v) == Send([p EXCEPT !.n = p.end - p.at, !.blk = p.at], v)

\* The alternate could not be written for another reason than its medium.
KeepEntry(p, v) == Result(p, v)                \* a slip: the entry is left as it is
ResetEntry(p, v) == Result(p, Drop(v, p.bad))

\* lv_swreloc.
SwReloc(p, v) ==
    LET e == p.bad
        again == v.dir[e].status # "pending" \/ p.error = "EMEDIA"
        retry == p.retry + 1 IN
    IF v.rorel
    THEN Result(IF p.error = "none" THEN p ELSE [p EXCEPT !.error = "EIO"], SetStatus(v, e, "desired"))
    ELSE IF ~again THEN ResetEntry(p, v)
    ELSE IF retry < MaxSwRetry /\ v.altnext < AltEnd
    THEN Result([p EXCEPT !.retry = retry, !.error = "none", !.hw = FALSE, !.blk = v.altnext],
                [v EXCEPT !.dir[e].alt = v.altnext, !.dir[e].status = "pending",
                          !.altnext = @ + 1])
    ELSE Result([p EXCEPT !.retry = retry, !.error = "EIO"], [Drop(v, e) EXCEPT !.rorel = TRUE])

\* A slip: the entry names the first block of the transfer.
FirstEntry(p, v, e) ==
    [DefectHash(v, e) EXCEPT
        !.dir[e] = [used |-> TRUE, blk |-> p.blk, status |-> "desired", alt |-> NoAlt]]

\* A new entry for the block that failed: it is in the hash table before it
\* names its block.
NewEntry(p, v, e) ==
    [DefectHash(v, e) EXCEPT
        !.dir[e] = [used |-> TRUE, blk |-> p.at, status |-> "desired", alt |-> NoAlt]]

\* lv_updatebbdir: the request waits for the directory.
Unsaved(p)     == p                            \* a slip: it does not
UpdateBbdir(p) == [p EXCEPT !.pending = TRUE]

\* lv_hwreloc, after a medium error.
HwReloc(p, v) ==
    LET free == {e \in Slot : ~v.dir[e].used}
        e == IF p.bad # NoSlot THEN p.bad ELSE Min(free)
        w == IF p.bad # NoSlot THEN SetStatus(v, e, "desired")
             ELSE NewEntry(p, v, e)
        q == [p EXCEPT !.bad = e, !.error = "none", !.blk = w.dir[e].blk, !.n = 1] IN
    IF p.bad = NoSlot /\ free = {} THEN Result([p EXCEPT !.error = "EIO"], v)
    ELSE IF p.op = "read" THEN Result(UpdateBbdir([p EXCEPT !.bad = e]), Drop(w, e))
    ELSE IF w.dir[e].alt # NoAlt THEN SwReloc(q, SetStatus(w, e, "device"))
    ELSE Result([q EXCEPT !.hw = TRUE], SetStatus(w, e, "device"))

\* lv_relocdone.
RelocDone(p, v) ==
    CASE v.dir[p.bad].status = "pending" ->
            Result(UpdateBbdir([p EXCEPT !.retry = 0]), SetStatus(v, p.bad, "done"))
      [] v.dir[p.bad].status = "device" ->
            Result([p EXCEPT !.error = "none", !.bad = NoSlot, !.retry = 0], DeleteDefect(v, p.bad))
      [] OTHER -> Result(p, [v EXCEPT !.panic = "lv_relocdone"])

\* lv_end, once the transferred blocks are counted.
End(p, v) ==
    LET relocating == p.bad # NoSlot /\ p.op = "write" /\ v.dir[p.bad].status # "done"
        r == IF ~relocating THEN Result(p, v)
             ELSE IF p.error \in {"none", "ERELOCATED"} THEN RelocDone(p, v)
             ELSE SwReloc(p, v)
        h == IF r.p.error = "EMEDIA" THEN HwReloc(r.p, r.v) ELSE r IN
    IF h.v.panic # "none" THEN h
    ELSE IF h.p.pending THEN Result([h.p EXCEPT !.phase = "directory"], h.v)
    ELSE IF h.p.error # "none" \/ h.p.at = h.p.end THEN Result(Done(h.p), h.v)
    ELSE IF h.p.bad # NoSlot /\ h.v.dir[h.p.bad].status # "done" THEN h
    ELSE Resume(h.p, h.v)

-----------------------------------------------------------------------------
(* What a read may return: once a write has been answered without error,   *)
(* what it wrote; until then, and after an error, either that or what was  *)
(* there before.                                                           *)

Settle(l, p) ==
    IF p.phase = "done" /\ p.op = "write" /\ p.error = "none"
    THEN [b \in Block |-> IF b \in Blocks(p) THEN {p.val} ELSE l[b]] ELSE l

Update(r, res, l) ==
    /\ pb' = [pb EXCEPT ![r] = res.p]
    /\ pv' = res.v
    /\ last' = Settle(l, res.p)

Running == pv.panic = "none"

-----------------------------------------------------------------------------

\* lv_begin.
Begin(r) ==
    /\ Running /\ pb[r].phase = "idle" /\ issued < MaxReq
    /\ \E op \in {"read", "write"}, b \in Block, n \in 1 .. 2 :
        LET p == [NoPb EXCEPT !.op = op, !.val = issued + 1, !.start = b, !.end = b + n,
                              !.at = b, !.blk = b, !.n = n] IN
        /\ b + n <= NBlk
        /\ "track" \in Spared => Track(b) = Track(b + n - 1)
        /\ \A o \in Request : pb[o].phase # "idle" => Blocks(p) \cap Blocks(pb[o]) = {}
        /\ Update(r, Send(p, pv), [x \in Block |->
              IF x \in Blocks(p) /\ op = "write" THEN last[x] \cup {p.val} ELSE last[x]])
    /\ issued' = issued + 1
    /\ UNCHANGED <<medium, disk, dirq, copy, fails, dirfails, crashes>>

\* The device ends a transfer after k blocks, and lv_end handles it.  Between two that
\* wait the buffer of the directory is busy though nobody may be on its queue, whose
\* end lv_updatebbdir then looks for.
Finish(r, k, error) ==
    LET p == [pb[r] EXCEPT !.at = @ + k, !.error = error,
                           !.wrong = @ \/ \E i \in 0 .. k - 1 : /\ pb[r].op = "read"
                                  /\ medium[pb[r].blk + i].val \notin last[pb[r].at + i]]
        res == End(p, pv)
        waits == res.p.phase = "directory" IN
    /\ "window" \in Spared => copy # 0
    /\ Update(r, IF waits /\ copy = 0 /\ dirq = <<>>
                 THEN Result(res.p, [res.v EXCEPT !.panic = "lv_updatebbdir"]) ELSE res, last)
    /\ dirq' = IF waits THEN Append(dirq, r) ELSE dirq
    /\ UNCHANGED copy

Transferring(r) == Running /\ pb[r].phase = "device"

\* The blocks of the transfer that are bad.
Defects(r) == {i \in 0 .. pb[r].n - 1 : medium[pb[r].blk + i].bad}

Read(r) ==
    /\ Transferring(r) /\ pb[r].op = "read"
    /\ \E k \in Defects(r) \cup {pb[r].n} :
          Finish(r, k, IF k < pb[r].n THEN "EMEDIA" ELSE "none")
    /\ UNCHANGED <<medium, disk, counts>>

\* The first k blocks are written, those of good blocks with them.
Written(r, k) ==
    [x \in Disk |-> IF x \in pb[r].blk .. pb[r].blk + k - 1
                    THEN [bad |-> FALSE, val |-> pb[r].val] ELSE medium[x]]

Write(r) ==
    /\ Transferring(r) /\ pb[r].op = "write"
    /\ LET k == Min(Defects(r) \cup {pb[r].n}) IN
       /\ medium' = Written(r, k)
       /\ Finish(r, k, IF k < pb[r].n THEN "EMEDIA" ELSE "none")
    /\ UNCHANGED <<disk, counts>>

\* The device relocates the bad blocks itself.
Relocate(r) ==
    /\ Transferring(r) /\ pb[r].op = "write" /\ pb[r].hw /\ Defects(r) # {}
    /\ medium' = Written(r, pb[r].n)
    /\ Finish(r, pb[r].n, "ERELOCATED")
    /\ UNCHANGED <<disk, counts>>

Fail(r) ==
    /\ Transferring(r) /\ fails < MaxFail
    /\ Finish(r, 0, "EIO")
    /\ fails' = fails + 1
    /\ UNCHANGED <<medium, disk, issued, dirfails, crashes>>

\* A slip: the next one that waits is forgotten.
NextCopyLast(r) ==
    IF copy = 1 THEN copy' = 2 /\ UNCHANGED <<pb, pv, dirq, last>>
    ELSE LET p == [pb[r] EXCEPT !.pending = FALSE, !.bad = NoSlot] IN
         /\ Update(r, IF p.error # "none" \/ p.at = p.end THEN Result(Done(p), pv)
                      ELSE Resume(p, pv), last)
         /\ dirq' = <<>>
         /\ copy' = 0

\* A write of one copy of the directory ends, and lv_bbdirend goes on: the second
\* copy, or the request.
NextCopy(r) ==
    IF copy = 1 THEN copy' = 2 /\ UNCHANGED <<pb, pv, dirq, last>>
    ELSE LET p == [pb[r] EXCEPT !.pending = FALSE, !.bad = NoSlot] IN
         /\ Update(r, IF p.error # "none" \/ p.at = p.end THEN Result(Done(p), pv)
                      ELSE Resume(p, pv), last)
         /\ dirq' = Tail(dirq)
         /\ copy' = 0

\* lv_bbdirend takes its lock again.
DirNext ==
    /\ Running /\ copy = 0 /\ copy' = 1
    /\ UNCHANGED <<medium, disk, pv, pb, dirq, last, counts>>

Saving == Running /\ dirq # <<>> /\ copy # 0

DirWrite ==
    /\ Saving
    /\ disk' = [disk EXCEPT ![copy] = pv.dir]
    /\ NextCopy(Head(dirq))
    /\ UNCHANGED <<medium, counts>>

\* The result of the write is not looked at.
DirFail ==
    /\ Saving /\ dirfails < MaxDirFail
    /\ NextCopy(Head(dirq))
    /\ dirfails' = dirfails + 1
    /\ UNCHANGED <<medium, disk, issued, fails, crashes>>

\* The scheduler takes the answer.
Return(r) ==
    /\ Running /\ pb[r].phase = "done"
    /\ pb' = [pb EXCEPT ![r] = NoPb]
    /\ UNCHANGED <<medium, disk, pv, dirq, copy, last, counts>>

GoBad(x) ==
    /\ Running /\ ~medium[x].bad
    /\ medium' = [medium EXCEPT ![x].bad = TRUE]
    /\ UNCHANGED <<disk, pv, pb, dirq, copy, last, counts>>

\* The system stops, and the volume is attached again with the first copy of the
\* directory, or with the second if the first cannot be read.
Crash ==
    /\ crashes < MaxCrash
    /\ "torn" \in Spared => \A c \in {1, 2}, e \in Slot :
          disk[c][e].status \in {"done", "desired"}
    /\ "device" \in Spared => \A c \in {1, 2}, e \in Slot :
          disk[c][e].used => pv.dir[e].used /\ pv.dir[e].blk = disk[c][e].blk
    /\ "unwritten" \in Spared => dirfails = 0
    /\ \E c \in {1, 2} : pv' = InitDefects(disk[c])
    /\ pb' = [r \in Request |-> NoPb]
    /\ dirq' = <<>> /\ copy' = 1
    /\ crashes' = crashes + 1
    /\ UNCHANGED <<medium, disk, last, issued, fails, dirfails>>

-----------------------------------------------------------------------------

\* The blocks known at the start have their alternates, and no content of their own.
FirstDir ==
    LET known == SetToSortSeq(Known, LAMBDA a, b : a < b) IN
    [e \in Slot |-> IF e <= Len(known)
        THEN [used |-> TRUE, blk |-> known[e], status |-> "done", alt |-> AltPsn + e]
        ELSE Free]

Init ==
    /\ medium = [x \in Disk |-> [bad |-> x \in Known, val |-> IF x \in Known THEN Junk ELSE 0]]
    /\ disk = [c \in {1, 2} |-> FirstDir]
    /\ pv = InitDefects(FirstDir)
    /\ pb = [r \in Request |-> NoPb]
    /\ dirq = <<>> /\ copy = 1
    /\ last = [b \in Block |-> {0}]
    /\ issued = 0 /\ fails = 0 /\ dirfails = 0 /\ crashes = 0

Device(r) == Read(r) \/ Write(r) \/ Relocate(r)

Next ==
    \/ \E r \in Request : Begin(r) \/ Device(r) \/ Fail(r) \/ Return(r)
    \/ DirWrite \/ DirFail \/ DirNext \/ Crash
    \/ \E x \in MayGoBad : GoBad(x)

Spec == Init /\ [][Next]_vars

\* Transfers and directory writes end: the device answers, and thread_call runs
\* lv_startpv.  WF_vars of the actions, with what enables them written out; an
\* interrupt that waits while lv_bbdirend has dropped its lock comes afterwards.
FairSpec ==
    /\ Spec
    /\ []<>~Saving \/ []<><<DirWrite>>_vars
    /\ []<>~(Running /\ copy = 0) \/ []<><<DirNext>>_vars
    /\ \A r \in Request :
        /\ []<>~Transferring(r) \/ []<><<Device(r)>>_vars
        /\ []<>~(Running /\ pb[r].phase = "done") \/ []<><<Return(r)>>_vars

-----------------------------------------------------------------------------

TypeOK ==
    /\ medium \in [Disk -> [bad : BOOLEAN, val : Junk .. MaxReq]]
    /\ \A c \in {1, 2} : disk[c] \in [Slot -> [used : BOOLEAN, blk : Block,
                                               status : Status, alt : {NoAlt} \cup Disk]]
    /\ pv.dir \in [Slot -> [used : BOOLEAN, blk : Block, status : Status,
                            alt : {NoAlt} \cup Disk]]
    /\ \A h \in DOMAIN pv.chain : Range(pv.chain[h]) \subseteq Slot
    /\ \A r \in Request : pb[r].error \in Error /\ pb[r].bad \in {NoSlot} \cup Slot
    /\ Range(dirq) = {r \in Request : pb[r].phase = "directory"}
    /\ copy \in 0 .. 2 /\ last \in [Block -> SUBSET (0 .. MaxReq)]

(* A read that is answered without error returns for each of its blocks    *)
(* what the last write answered without error wrote, wherever relocation   *)
(* has put the block and whatever was lost in a crash since: the directory *)
(* is on the disk before the write is answered (lv_end, lv_bbdirend).      *)
ReadsLast ==
    \A r \in Request : pb[r].phase = "done" /\ pb[r].op = "read" /\ pb[r].error = "none"
                          => ~pb[r].wrong

(* A block is refused with EMEDIA only while it is bad on the medium: an   *)
(* entry of the directory does not outlive the defect, nor name another    *)
(* block (lv_validblk, lv_deletedefect).                                   *)
RefusedForCause ==
    \A r \in Request : pb[r].phase = "done" /\ pb[r].error = "EMEDIA" => medium[pb[r].at].bad

(* No request meets a relocation of another request, no relocation ends in *)
(* a state it cannot be in, and neither the chain of an entry nor the      *)
(* queue of the directory is searched in vain (the panics of lv_validblk   *)
(* and lv_relocdone, the null pointers of lv_deletedefect and              *)
(* lv_updatebbdir).                                                        *)
NoPanic == pv.panic = "none"

(* Every transfer is answered: relocation is tried a bounded number of     *)
(* times, and whoever waits for the directory gets it.                     *)
Answered == \A r \in Request : pb[r].phase # "idle" ~> pb[r].phase = "idle"

=============================================================================
