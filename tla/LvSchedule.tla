----------------------------- MODULE LvSchedule -----------------------------
(***************************************************************************)
(* The mirror scheduler: how a read or a write of a logical extent becomes *)
(* transfers of its mirrors, under the parallel and the sequential policy. *)
(* A read tries the mirrors that are neither stale nor missing until one   *)
(* answers, and repairs those that had a media error (lv_fixup); a write   *)
(* goes to all that are not missing, and those it failed on are marked     *)
(* stale before it is answered (lv_stalepp).  A resynchronisation          *)
(* (lv_syncx) reads and rewrites track after track while other tracks are  *)
(* read and written.                                                       *)
(*                                                                         *)
(* One extent, one physical volume (PV) for each mirror, one request for a *)
(* track at a time (LvStrategy).  The wait for pbufs is in LvOpen, and the *)
(* status area, here one step (SaDone), in LvVgsa.  The mirrors that a     *)
(* caller asks to avoid (LVM_MIRAVOID) and residual counts are left out.   *)
(***************************************************************************)
EXTENDS Integers, Sequences, FiniteSets, FiniteSetsExt

CONSTANTS
    NMirror,    \* lv_maxmirrors + 1
    Hole,       \* mirrors of the volume that this extent has not (PX_NOPV)
    NTrack,     \* tracks of the extent
    Value,
    Policy,     \* scheduling policies the volume may have
    Known,      \* mirrors with a bad block in the defect directory that cannot
                \* be relocated: lv_begin ends requests to them at once
    Spared,     \* what does not happen, of the five below
    MaxFail,    \* bound on transfers that fail
    MaxMiss     \* bound on PVs that go missing

Mirror == 0 .. NMirror - 1
Track  == 0 .. NTrack - 1
Last   == NTrack - 1               \* TRKPEREXT - 1

(* What a run may be spared.  "early": a transfer fails while lv_parallel  *)
(* is still starting others.  "seqread": a read fails under the sequential *)
(* policy.  "seqsync": a resynchronisation under the sequential policy.    *)
(* "leftover": pb_miravoid of the pbuf lv_sequential is given is not zero. *)
(* "gone": a PV is missing during a resynchronisation.                     *)
Spares == {"early", "seqread", "seqsync", "leftover", "gone"}

ASSUME ScheduleAssumption ==
    /\ NMirror \in 1 .. 3 /\ NTrack \in Nat \ {0}
    /\ Hole \subseteq Mirror \ {0} /\ Known \subseteq Mirror \ Hole
    /\ \A h \in Hole, m \in Mirror : m > h => m \in Hole
    /\ Policy \subseteq {"parallel", "sequential"} /\ Spared \subseteq Spares
    /\ MaxFail \in Nat /\ MaxMiss \in Nat

VARIABLES
    policy,     \* lv_schedule
    copy,       \* copy[m][t]: what the mirrors hold
    stale,      \* mirrors with PX_STALE
    changing,   \* mirrors with PX_CHANGING
    wheel,      \* tracks whose requests wait for the status area, in order
    onDisk,     \* mirrors that are stale in the status area on the disks
    missing,    \* mirrors whose PV is LVM_PVMISSING
    quorum,     \* not VG_LOST_QUORUM
    req,        \* the request for each track, with its pbufs
    lx,         \* lx_synctrk, lx_syncmsk and lx_syncerr
    syncx,      \* the track lv_syncx is at, or NTrack
    answer,     \* the last answer for each track
    held,       \* history: what the fresh mirrors last held, for Implements
    panic, fails, misses

disks == <<copy, fails>>
marks == <<stale, changing, wheel>>
vars  == <<policy, disks, marks, onDisk, missing, quorum, req, lx, syncx, answer, held, panic, misses>>

Present == Mirror \ Hole
First(mask) == Min(mask)                                \* FIRST_MASK

\* pc is where the request is: waiting for lv_reschedule, in lv_parallel's loop,
\* the pb_sched of its transfers, or waiting for the status area.  was: what the
\* track held when the write came, for Implements.
NoReq == [op |-> "idle", sync |-> FALSE, val |-> CHOOSE v \in Value : TRUE, was |-> {},
          pc |-> "none", todo |-> {}, busy |-> {}, bad |-> [m \in Mirror |-> {}],
          done |-> {}, act |-> {}, avoid |-> {}, error |-> FALSE]

NoAnswer == [op |-> "none"]

Write(r) == r.op = "write"

\* What the fresh mirrors hold.
Fresh(t) == {copy[m][t] : m \in Present \ stale}

Remember ==
    held' = [t \in Track |->
        IF Fresh(t)' # {} THEN Fresh(t)'
        ELSE IF answer[t] # answer'[t] /\ Write(req[t])
        THEN {req[t].val} \cup (IF answer'[t].op = "error" THEN req[t].was ELSE {})
        ELSE held[t]]

Idle(t)  == req[t].op = "idle"
Pcs == {"none", "pending", "starting", "parwrite", "seqwrite", "parread",
        "seqread", "fixup", "vgsa"}

-----------------------------------------------------------------------------
(* Requests come and go.                                                   *)

Submit(t) ==
    /\ Idle(t)
    /\ \E r \in [op : {"read"}, val : {NoReq.val}] \cup [op : {"write"}, val : Value] :
          req' = [req EXCEPT ![t] =
                    [NoReq EXCEPT !.op = r.op, !.val = r.val, !.pc = "pending",
                                  !.was = IF Write(r) THEN held[t] ELSE {}]]
    /\ answer' = [answer EXCEPT ![t] = NoAnswer]
    /\ UNCHANGED <<policy, disks, onDisk, marks, missing, quorum, lx, syncx, panic, misses>>

\* lx_syncmsk at the first track: the stale mirrors that can be written.
SyncMaskAll == Present \ missing      \* a slip: all that can be written
SyncMask == {m \in Present \ missing : m \in stale}

\* The request for the track lv_syncx is at, as lv_initiate sees it.
SyncRead ==
    /\ "seqsync" \in Spared => policy # "sequential"
    /\ "gone" \in Spared => missing = {}
    /\ LET t == IF syncx = NTrack THEN 0 ELSE syncx
           l == IF lx.trk = -1 THEN [trk |-> t, msk |-> SyncMask, err |-> {}]
                ELSE [lx EXCEPT !.trk = t] IN
       /\ Idle(t)
       /\ IF l.msk = {}
          THEN /\ lx' = [l EXCEPT !.trk = IF t = Last THEN -1 ELSE t]
               /\ syncx' = t + 1
               /\ UNCHANGED <<req, panic>>
          ELSE /\ req' = [req EXCEPT ![t] = [NoReq EXCEPT !.op = "read", !.sync = TRUE,
                                                          !.pc = "pending"]]
               /\ lx' = l /\ syncx' = t
               /\ panic' = IF lx.trk \notin {-1, t - 1} THEN "lv_initiate resync read"
                           ELSE panic
    /\ UNCHANGED <<policy, disks, onDisk, marks, missing, quorum, answer, misses>>

\* lv_finished, lv_mwc_done and lv_terminate: the read half of a resynchronisation
\* becomes the write half, anything else is returned.
Terminate(t, r, l) ==
    IF ~r.sync
    THEN /\ req' = [req EXCEPT ![t] = NoReq] /\ lx' = l /\ syncx' = syncx
         /\ answer' = [answer EXCEPT ![t] =
                IF r.error THEN [op |-> "error"]
                ELSE IF Write(r) THEN [op |-> "written"] ELSE [op |-> "read", val |-> r.val]]
    ELSE /\ answer' = answer
         /\ IF Write(r) \/ r.error
            THEN LET end == r.error \/ l.trk = Last IN
                 /\ req' = [req EXCEPT ![t] = NoReq]
                 /\ lx' = [l EXCEPT !.trk = IF end THEN -1 ELSE @]
                 /\ syncx' = IF end THEN NTrack ELSE t + 1
            ELSE /\ req' = [req EXCEPT ![t] = [NoReq EXCEPT !.op = "write", !.sync = TRUE,
                                                  !.val = r.val, !.pc = "pending"]]
                 /\ lx' = l /\ syncx' = syncx

-----------------------------------------------------------------------------
(* Stale extents.                                                          *)

\* If nothing succeeded one active mirror is spared, and the request fails.
AllBad(r, bad) == r.done = bad
Blamed(r, bad) == IF AllBad(r, bad) THEN bad \ {First(r.act)} ELSE bad

\* The last track of a resynchronisation: its mirrors become fresh.
MakeFresh(t, r, l, bad) ==
    /\ stale' = stale \ l.msk /\ changing' = changing /\ wheel' = Append(wheel, t)
    /\ panic' = IF l.msk \subseteq stale THEN panic ELSE "sync not stale"
    /\ lx' = [l EXCEPT !.msk = {}]
    /\ req' = [req EXCEPT ![t] = [r EXCEPT !.pc = "vgsa", !.bad[0] = bad, !.done = l.msk]]
    /\ UNCHANGED <<syncx, answer>>

\* Not yet stale on disk; a slip that takes PX_STALE for it.
UnmarkedHere(bad) == {m \in bad : m \notin stale}
Unmarked(bad) == {m \in bad : m \notin stale \/ m \in changing}

\* Mirrors not yet stale on disk are marked, and their marks waited for.
Mark(t, r, l, bad) ==
    LET wait == Unmarked(bad) IN
    /\ stale' = stale \cup bad
    /\ changing' = changing \cup (bad \ stale)
    /\ panic' = panic
    /\ wheel' = IF wait = {} THEN wheel ELSE Append(wheel, t)
    /\ IF wait = {} THEN Terminate(t, r, l)
       ELSE /\ req' = [req EXCEPT ![t] = [r EXCEPT !.pc = "vgsa", !.bad[0] = wait,
                                               !.done = {}]]
            /\ lx' = l /\ UNCHANGED <<syncx, answer>>

\* lv_stalepp, for a write whose transfers all ended and failed on the mirrors mask.
StalePp(t, r, mask) ==
    LET bad == Blamed(r, mask)
        err == lx.err \cup bad \cup (IF r.sync THEN r.avoid ELSE {})
        l   == [lx EXCEPT !.err = err, !.msk = IF r.sync THEN @ \ err ELSE @]
        r1  == [r EXCEPT !.error = AllBad(r, mask) \/ (r.sync /\ l.msk = {})] IN
    IF r.sync /\ l.msk # {} /\ l.trk = Last THEN MakeFresh(t, r1, l, bad)
    ELSE Mark(t, r1, l, bad)

\* The end of a write's last transfer: lv_parwrite_done, lv_seqwrite.
WriteEnd(t, r, mask) ==
    IF mask \cup r.avoid # {} \/ r.sync THEN StalePp(t, r, mask \cup r.avoid)
    ELSE Terminate(t, r, lx) /\ UNCHANGED <<marks, panic>>

\* What lv_sa_start was asked for: SA_FRESHPX, or SA_STALEPX.
Update(r) == IF r.done # {} THEN onDisk \ r.done ELSE onDisk \cup r.bad[0]

\* lv_stalepp_done: the status area is on all disks, or quorum was lost.
SaDone(t) ==
    /\ wheel # << >> /\ Head(wheel) = t /\ wheel' = Tail(wheel)
    /\ onDisk' = IF quorum THEN Update(req[t]) ELSE onDisk
    /\ changing' = IF quorum THEN changing \ req[t].bad[0] ELSE changing
    /\ Terminate(t, req[t], lx)
    /\ UNCHANGED <<policy, disks, stale, missing, quorum, panic, misses>>

-----------------------------------------------------------------------------
(* The parallel policy.                                                    *)

\* lv_parallel: the mirrors a write goes to.
Targets(r) == {m \in Present \ missing : r.sync => m \in lx.msk}

ParWrite(t) ==
    LET r == req[t] IN
    /\ r.pc = "pending" /\ policy = "parallel" /\ Write(r)
    /\ IF Targets(r) = {}
       THEN Terminate(t, [r EXCEPT !.error = TRUE], lx)
       ELSE /\ req' = [req EXCEPT ![t] = [r EXCEPT !.pc = "starting",
                           !.todo = Targets(r), !.act = Targets(r), !.done = Mirror,
                           !.avoid = Present \cap missing]]
            /\ UNCHANGED <<lx, syncx, answer>>
    /\ UNCHANGED <<policy, disks, onDisk, marks, missing, quorum, panic, misses>>

\* The pbuf after that of mirror m on the ring of those not finished, if m is not last.
Forw(r, m) ==
    LET others == (r.todo \cup r.busy) \ {m}
        after  == {k \in others : k > m} IN
    IF after # {} THEN Min(after) ELSE Min(others)

\* lv_parwrite_done, of mirror m: pb_mirbad goes on to the next pbuf of the ring.
ParWriteDone(t, r, m, failed) ==
    LET bad == IF failed THEN r.bad[m] \cup {m} ELSE r.bad[m] IN
    IF r.todo \cup r.busy = {m}
    THEN WriteEnd(t, [r EXCEPT !.busy = {}], bad)
    ELSE /\ req' = [req EXCEPT ![t] = [r EXCEPT !.busy = @ \ {m},
                                          !.bad[Forw(r, m)] = @ \cup bad]]
         /\ UNCHANGED <<marks, lx, syncx, answer, panic>>

\* The loop of lv_parallel starts the next pbuf.  If that is finished inside
\* lv_begin it is off the ring before the loop's test for the end of the ring: the
\* last pbuf is then missed, and the first is begun a second time.
StartNext(t) ==
    /\ req[t].pc = "starting"
    /\ LET m  == First(req[t].todo)
           r0 == [req[t] EXCEPT !.todo = @ \ {m}, !.busy = @ \cup {m},
                                !.bad[m] = {}]
           r  == IF r0.todo = {} THEN [r0 EXCEPT !.pc = "parwrite"] ELSE r0 IN
       IF m \in Known
       THEN IF r.todo = {} /\ First(r.act) \in r.busy \ {m}
            THEN /\ panic' = "pbuf begun twice"
                 /\ UNCHANGED <<req, marks, lx, syncx, answer>>
            ELSE ParWriteDone(t, r, m, TRUE)
       ELSE /\ req' = [req EXCEPT ![t] = r]
            /\ UNCHANGED <<marks, lx, syncx, answer, panic>>
    /\ UNCHANGED <<policy, disks, onDisk, missing, quorum, misses>>

-----------------------------------------------------------------------------
(* Reads, and the sequential policy.                                       *)

Eio(t, r) ==
    Terminate(t, [r EXCEPT !.error = TRUE], lx) /\ UNCHANGED <<marks, panic>>

Transfer(t, r, m, pc) ==
    /\ req' = [req EXCEPT ![t] = [r EXCEPT !.busy = {m}, !.act = @ \cup {m}, !.pc = pc]]
    /\ UNCHANGED <<marks, lx, syncx, answer, panic>>

\* Mirrors a read may not use; a slip that forgets the stale ones.
UnfitMissing == missing
Unfit == missing \cup stale

\* lv_bestmir: any mirror not done, missing or stale (which has the fewest
\* transfers depends on other extents too); the latter are done.
BestMir(t, r0) ==
    LET r   == [r0 EXCEPT !.done = @ \cup (Present \cap Unfit)]
        fit == Present \ r.done IN
    IF fit = {} THEN Eio(t, r)
    ELSE \E m \in fit : Transfer(t, [r EXCEPT !.done = @ \cup {m}], m, "parread")

ParRead(t) ==
    /\ req[t].pc = "pending" /\ policy = "parallel" /\ ~Write(req[t])
    /\ BestMir(t, req[t])
    /\ UNCHANGED <<policy, disks, onDisk, missing, quorum, misses>>

\* lv_nextmir: mirrors are passed over in order, up to a hole.
Passed(r) ==
    missing \cup (IF r.sync THEN Mirror \ lx.msk ELSE IF Write(r) THEN {} ELSE stale)
NextMir(r) ==
    LET left == Mirror \ r.done
        stop == {m \in left : m \in Hole \/ m \notin Passed(r)} IN
    IF stop = {} THEN [m |-> NMirror, seen |-> left]
    ELSE [m |-> First(stop), seen |-> {k \in left : k <= First(stop)}]
Seen(r) ==
    LET seen == NextMir(r).seen IN
    [r EXCEPT !.done = @ \cup seen,
              !.avoid = IF Write(r) THEN @ \cup ((seen \cap missing) \ Hole) ELSE @]
Found(r) == NextMir(r).m \in Present

\* lv_sequential: pb_miravoid is what the pbuf's last user left in it.
Sequential(t) ==
    /\ req[t].pc = "pending" /\ policy = "sequential"
    /\ \E left \in IF "leftover" \in Spared THEN {{}} ELSE SUBSET Present :
          LET r == [req[t] EXCEPT !.avoid = left] IN
          IF Found(r)
          THEN Transfer(t, Seen(r), NextMir(r).m, IF Write(r) THEN "seqwrite" ELSE "seqread")
          ELSE Eio(t, Seen(r))
    /\ UNCHANGED <<policy, disks, onDisk, missing, quorum, misses>>

SeqWrite(t, r0, m, failed) ==
    LET r   == [r0 EXCEPT !.bad[0] = IF failed THEN @ \cup {m} ELSE @, !.busy = {}]
        end == Seen(r) IN
    IF Found(r) THEN Transfer(t, end, NextMir(r).m, "seqwrite")
    ELSE WriteEnd(t, end, end.bad[0])

\* lv_fixup: the next mirror with a media error that is still in use is to be
\* rewritten.  lv_xlate sets B_READ again, and it is read; lv_begin panics if the
\* bad block is known.
Fixup(t, r) ==
    LET fit  == r.bad[0] \ (stale \cup missing)
        m    == First(fit)
        left == {k \in r.bad[0] : k > m} IN
    IF fit = {} THEN Terminate(t, r, lx) /\ UNCHANGED <<marks, panic>>
    ELSE IF m \in Known
    THEN /\ panic' = "lv_validblk returned false on fixup"
         /\ UNCHANGED <<marks, req, lx, syncx, answer>>
    ELSE Transfer(t, [r EXCEPT !.bad[0] = left], m, "fixup")

\* lv_parread_done, lv_seqread_done: after an error another mirror is read, and
\* after a media error the mirror is to be repaired.  lv_seqread_done passes the
\* pbuf for the volume group and nothing for the pbuf.
ReadDone(t, r0, m, res) ==
    LET r == [r0 EXCEPT !.busy = {}, !.bad[0] = IF res = "EMEDIA" THEN @ \cup {m} ELSE @] IN
    IF res = "ok" THEN Fixup(t, [r EXCEPT !.val = copy[m][t]])
    ELSE IF r.pc = "parread" THEN BestMir(t, r)
    ELSE /\ panic' = "lv_nextmir without a pbuf"
         /\ UNCHANGED <<marks, req, lx, syncx, answer>>

-----------------------------------------------------------------------------
(* The disks and the volume group.                                         *)

\* A transfer of track t of mirror m ends: lv_end calls pb_sched.
Result(t, m) ==
    IF fails = MaxFail \/ (req[t].pc = "starting" /\ "early" \in Spared)
                       \/ (req[t].pc = "seqread" /\ "seqread" \in Spared)
    THEN {"ok"} ELSE {"ok", "EIO", "EMEDIA"}

End(t, m, res) ==
    LET r == req[t] IN
    CASE r.pc \in {"starting", "parwrite"} -> ParWriteDone(t, r, m, res # "ok")
      [] r.pc = "seqwrite" -> SeqWrite(t, r, m, res # "ok")
      [] r.pc \in {"parread", "seqread"} -> ReadDone(t, r, m, res)
      [] r.pc = "fixup" -> Fixup(t, [r EXCEPT !.val = IF res = "ok" THEN copy[m][t] ELSE @,
                                             !.busy = {}])

\* A write that fails may have been done all the same.
TransferDone(t, m) ==
    /\ m \in req[t].busy
    /\ \E res \in IF m \in Known THEN {"EMEDIA"} ELSE Result(t, m),
          v \in IF Write(req[t]) THEN {req[t].val, copy[m][t]} ELSE {copy[m][t]} :
          /\ res = "ok" /\ Write(req[t]) => v = req[t].val
          /\ copy' = [copy EXCEPT ![m][t] = v]
          /\ fails' = IF res = "ok" \/ m \in Known THEN fails ELSE fails + 1
          /\ End(t, m, res)
    /\ UNCHANGED <<policy, onDisk, missing, quorum, misses>>

\* lv_sa_iodone: a copy of the status area could not be written.
GoMissing(m) ==
    /\ m \in Present \ missing /\ misses < MaxMiss
    /\ "gone" \in Spared => syncx = NTrack
    /\ missing' = missing \cup {m} /\ misses' = misses + 1
    /\ UNCHANGED <<policy, disks, onDisk, marks, quorum, req, lx, syncx, answer, panic>>

Attach(m) ==
    /\ m \in missing
    /\ missing' = missing \ {m}
    /\ UNCHANGED <<policy, disks, onDisk, marks, quorum, req, lx, syncx, answer, panic, misses>>

LoseQuorum ==
    /\ quorum /\ misses < MaxMiss
    /\ quorum' = FALSE /\ misses' = misses + 1
    /\ UNCHANGED <<policy, disks, onDisk, marks, missing, req, lx, syncx, answer, panic>>

-----------------------------------------------------------------------------
Step(t) ==
    \/ ParWrite(t) \/ StartNext(t) \/ ParRead(t) \/ Sequential(t) \/ SaDone(t)
    \/ \E m \in Mirror : TransferDone(t, m)

Init ==
    /\ policy \in Policy
    /\ stale \in (SUBSET Present) \ {Present}
    /\ \E v, w \in Value :
          copy = [m \in Mirror |-> [t \in Track |-> IF m \in stale THEN w ELSE v]]
    /\ onDisk = stale /\ changing = {} /\ wheel = << >> /\ missing = {} /\ quorum = TRUE
    /\ req = [t \in Track |-> NoReq]
    /\ lx = [trk |-> -1, msk |-> {}, err |-> {}] /\ syncx = NTrack
    /\ answer = [t \in Track |-> NoAnswer] /\ held = [t \in Track |-> Fresh(t)]
    /\ panic = "no" /\ fails = 0 /\ misses = 0

Next ==
    /\ panic = "no"
    /\ \/ \E t \in Track : Submit(t) \/ Step(t)
       \/ SyncRead \/ LoseQuorum
       \/ \E m \in Mirror : GoMissing(m) \/ Attach(m)
    /\ Remember

Spec == Init /\ [][Next]_vars

\* Devices answer, the status area is written or refused (LvVgsa), and the callout
\* threads run.
FairSpec == Spec /\ \A t \in Track : WF_vars(panic = "no" /\ Step(t) /\ Remember)

-----------------------------------------------------------------------------
(* Properties.                                                             *)

TypeOK ==
    /\ stale \subseteq Present /\ changing \subseteq Present /\ missing \subseteq Present
    /\ copy \in [Mirror -> [Track -> Value]]
    /\ \A t \in Track :
          /\ req[t].op \in {"idle", "read", "write"} /\ req[t].pc \in Pcs
          /\ req[t].todo \cup req[t].busy \subseteq req[t].act \cap Present
          /\ req[t].done \subseteq Mirror /\ req[t].avoid \subseteq Present
    /\ lx.trk \in Track \cup {-1} /\ lx.msk \cup lx.err \subseteq Present
    /\ syncx \in 0 .. NTrack

\* The panics of lv_stalepp, lv_initiate and lv_begin are not reached, and no pbuf
\* is begun twice or taken from where there is none.
NoPanic == panic = "no"

\* "Must never read a stale mirror" (lv_nextmir, lv_schedule.c:1042); "We must not
\* access a stale mirror on reads" (lv_bestmir, 812).
NeverReadStale ==
    [][\A t \in Track :
         LET r == req'[t] IN
         r.op = "read" /\ r.busy # {} /\ r.busy # req[t].busy /\ r.pc # "fixup"
         => r.busy \cap stale = {}]_vars

\* "we should never mark all of the extents as stale" (lv_stalepp, 1106).
SomeFresh == stale # Present

\* A write that is answered without an error is safe from a crash: a mirror holds it,
\* and the status area on the disks, if it can be written at all, says that those
\* that do not are stale (lv_stalepp, 1080-1200; the wait for PX_CHANGING, 1176).
WrittenIsDurable ==
    [][\A t \in Track :
         answer[t] = NoAnswer /\ answer'[t].op = "written"
         => /\ \E m \in Present : copy'[m][t] = req[t].val
            /\ quorum => \A m \in Present \ onDisk' : copy'[m][t] = req[t].val]_vars

\* Each request is answered.
Answered == \A t \in Track : (req[t].op # "idle") ~> (req[t].op = "idle" \/ panic # "no")

\* A mirrored extent is one row of tracks: a read returns the last write that was
\* answered, whatever mirrors failed, were missing, repaired or resynchronised.
Ask(r) == IF r.op = "idle" \/ r.sync THEN [op |-> "idle"]
          ELSE IF Write(r) THEN [op |-> "write", val |-> r.val, was |-> r.was]
          ELSE [op |-> "read"]
Block == INSTANCE LvBlock WITH
    asked  <- [t \in Track |-> Ask(req[t])],
    stored <- held
Implements == Block!Spec
=============================================================================
