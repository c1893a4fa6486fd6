----------------------------- MODULE LvStrategy -----------------------------
(***************************************************************************)
(* The strategy layer of the logical volume pseudo-driver: lv_strategy.c   *)
(* and lv_block.c, for one logical volume.                                 *)
(*                                                                         *)
(* Every logical request (struct buf) is linked on a hash chain of work_Q  *)
(* for as long as it is outstanding; it is held back (b_error = ELBBLOCKED)*)
(* while an older request of the same logical track group (LTG) uses one   *)
(* of its pages, and while the volume is paused for an administrator.      *)
(* Released requests wait on lv_ready_Q until some context runs            *)
(* lv_initiate: the thread that called lv_strategy or lv_continue, or the  *)
(* callout thread that lv_terminate wakes from interrupt level.            *)
(*                                                                         *)
(* A resynchronisation request is a read of a whole LTG that lv_terminate  *)
(* turns into a write and puts back on lv_ready_Q; lx_synctrk of the       *)
(* logical extent records how far the resynchronisation has come.          *)
(*                                                                         *)
(* Granularity: one action per section held under lv_intlock, and one per  *)
(* unlocked read of shared state.  Requests enter here aligned to one LTG; *)
(* LvSplit models the code that splits or rejects the others.  The         *)
(* statistics lv_requestcount, lv_totalcount, vg_requestcount and          *)
(* vg_totalcount, which no code reads, are left out.                       *)
(***************************************************************************)
EXTENDS Integers, FiniteSets, SequencesExt

CONSTANTS
    Bufs,         \* the bufs of the volume's users
    RawBuf,       \* lv_rawbuf, which resynchronisation uses
    Callers,      \* threads that call lv_strategy
    Syncer,       \* the thread that runs lv_syncx or lv_recover_ltg
    CallThread,   \* the one callout thread of lv_threadq
    Admin,        \* the thread that holds lv_lock for writing
    NoProc,
    Pages,        \* pages of an LTG (PGPTRK of them)
    NumExts,      \* logical extents of the volume (lv_maxlxs)
    TrksPerExt,   \* LTGs of a logical extent
    WorkQSize,    \* hash chains of work_Q (WORKQ_SIZE)
    Shapes,       \* the (LTG, pages, direction) triples users ask for
    MaxIntr,      \* lv_terminate activations at one time (CPUs)
    MayResync,    \* the volume is resynchronised or recovered
    MayChange,    \* lv_changelv is used on the volume
    MayReadOnly,  \* ... and may set and clear LVM_RDONLY
    MayLackCopy   \* a resynchronisation may find no copy to work on

Reqs  == Bufs \cup {RawBuf}
Procs == Callers \cup {Syncer, CallThread, Admin}
LvSize == NumExts * TrksPerExt   \* first LTG beyond the volume (end of media)
Exts  == 0 .. NumExts - 1
Trks  == 0 .. TrksPerExt - 1
LTGs  == 0 .. LvSize
Chains == 0 .. WorkQSize - 1

Request == [ltg : LTGs, pages : SUBSET Pages, read : BOOLEAN]

ASSUME StrategyAssumption ==
    /\ IsFiniteSet(Bufs)
    /\ RawBuf \notin Bufs
    /\ Syncer # CallThread /\ Syncer # Admin /\ CallThread # Admin
    /\ Callers \cap {Syncer, CallThread, Admin} = {}
    /\ NoProc \notin Procs
    /\ NumExts \in Nat \ {0} /\ TrksPerExt \in Nat \ {0}
    /\ WorkQSize \in Nat \ {0}
    /\ MaxIntr \in Nat \ {0}
    /\ Shapes \subseteq Request
    /\ {MayResync, MayChange, MayReadOnly, MayLackCopy} \subseteq BOOLEAN

VARIABLES
    workQ,     \* work_Q: each hash chain, in order of arrival
    buf,       \* what each request asks for (b_blkno, b_work, B_READ)
    phase,     \* how far each request has come
    holder,    \* the process whose lv_initiate holds the request
    lvStatus,  \* LV_PAUSING and LV_PAUSED of lv_status
    complcnt,  \* lv_complcnt
    pc,        \* control state of the processes
    called,    \* lv_initiate is queued on lv_threadq
    kicks,     \* lv_terminate activations yet to look at lv_ready_Q
    cfg,       \* control state of the administrator's command
    rdonly,    \* LVM_RDONLY of lv_flags
    synctrk,   \* lx_synctrk of each logical extent
    syncmsk,   \* whether lx_syncmsk names any copy
    snap,      \* the lx_synctrk that lv_changelv copied
    rs         \* the resynchronisation in progress

vars == <<workQ, buf, phase, holder, lvStatus, complcnt, pc, called,
          kicks, cfg, rdonly, synctrk, syncmsk, snap, rs>>

Phases == {"free",      \* with its owner: before lv_strategy, after biodone
           "blocked",   \* on work_Q, b_error = ELBBLOCKED
           "ready",     \* on lv_ready_Q
           "pending",   \* on the pending_Q of a running lv_initiate
           "own",       \* refused or done by lv_initiate, to be completed
           "below",     \* given to the mirror consistency manager
           "complete"}  \* lv_terminate is about to call lv_complete

PCs == {"idle", "check", "start", "own"}
Cfgs == {"idle", "copied", "asleep", "awake", "paused", "changed"}

Resync == [state : {"idle", "submit", "wait"}, ext : Exts, trk : Trks,
           recovery : BOOLEAN, error : BOOLEAN]

NoSnap == [trk |-> <<>>, msk |-> <<>>]   \* no copy of the maps
NoRequest == [ltg |-> 0, pages |-> {}, read |-> TRUE]
NoTrk == -1      \* no resynchronisation of the extent in progress

-----------------------------------------------------------------------------
(* Conflicts and the hash chains (lv_block.c).                             *)

Hash(l)  == l % WorkQSize
ExtOf(l) == l \div TrksPerExt
TrkOf(l) == l % TrksPerExt

Overlap(a, b) == a.ltg = b.ltg /\ a.pages \cap b.pages # {}

\* A slip the runs must catch: only the last request in front is looked at.
ConflictsWithLast(q, j, a) == j > 1 /\ Overlap(buf[q[j - 1]], a)

\* Some request of chain q in front of position j uses a page of request a.
Conflicts(q, j, a) == \E k \in 1 .. j - 1 : Overlap(buf[q[k]], a)

InProgress == {r \in Reqs : phase[r] \notin {"free", "blocked"}}
Ready      == {r \in Reqs : phase[r] = "ready"}
Pending(p) == {r \in Reqs : phase[r] = "pending" /\ holder[r] = p}

\* A slip: requests are still let through while lv_pause waits.
BlockIfPaused(r, a) ==
    LET q == workQ[Hash(a.ltg)]
    IN  /\ workQ' = [workQ EXCEPT ![Hash(a.ltg)] = Append(q, r)]
        /\ buf' = [buf EXCEPT ![r] = a]
        /\ phase' = [phase EXCEPT ![r] =
               IF lvStatus = "paused" \/ Conflicts(q, Len(q) + 1, a)
               THEN "blocked" ELSE "ready"]

\* lv_block: r, now asking for a, goes to the end of its chain and is ready
\* unless the volume is pausing or paused or an older request conflicts.
Block(r, a) ==
    LET q == workQ[Hash(a.ltg)]
    IN  /\ workQ' = [workQ EXCEPT ![Hash(a.ltg)] = Append(q, r)]
        /\ buf' = [buf EXCEPT ![r] = a]
        /\ phase' = [phase EXCEPT ![r] =
               IF lvStatus # "open" \/ Conflicts(q, Len(q) + 1, a)
               THEN "blocked" ELSE "ready"]

\* Slips: the request that moved up is passed over; nothing in front is looked
\* at, as if only the finished request had been in the way.
UnblockedFromNext(q, i) ==
    {q[j] : j \in {k \in i + 1 .. Len(q) :
                     phase[q[k]] = "blocked" /\ ~Conflicts(q, k, buf[q[k]])}}
UnblockedUnchecked(q, i) ==
    {q[j] : j \in {k \in i .. Len(q) : phase[q[k]] = "blocked"}}

\* lv_unblock: the blocked requests behind position i of q (from which the
\* finished request is gone) that conflict with nothing in front of them.
Unblocked(q, i) ==
    {q[j] : j \in {k \in i .. Len(q) :
                     phase[q[k]] = "blocked" /\ ~Conflicts(q, k, buf[q[k]])}}

\* It releases them unless the volume is pausing.
Released(q, i) == IF lvStatus = "pausing" THEN {} ELSE Unblocked(q, i)

\* lv_complete: r leaves work_Q, what it held back is released, and the last
\* request lv_pause waits for wakes it.
Complete(r) ==
    LET c == Hash(buf[r].ltg)
        i == CHOOSE k \in DOMAIN workQ[c] : workQ[c][k] = r
        q == RemoveAt(workQ[c], i)
    IN  /\ workQ' = [workQ EXCEPT ![c] = q]
        /\ buf' = [buf EXCEPT ![r] = NoRequest]   \* biodone: its owner's again
        /\ phase' = [x \in Reqs |-> IF x = r THEN "free"
                                    ELSE IF x \in Released(q, i) THEN "ready"
                                    ELSE phase[x]]
        /\ IF lvStatus = "pausing"
           THEN /\ complcnt' = complcnt - 1
                /\ cfg' = IF complcnt = 1 /\ cfg = "asleep" THEN "awake"
                                                            ELSE cfg
           ELSE UNCHANGED <<complcnt, cfg>>

-----------------------------------------------------------------------------
(* lv_strategy and lv_initiate.                                            *)

\* lv_strategy links request r, asking for a, on work_Q.
Strategy(p, r, a) ==
    /\ phase[r] = "free"
    /\ Block(r, a)
    /\ pc' = [pc EXCEPT ![p] = "check"]
    /\ UNCHANGED <<holder, lvStatus, complcnt, called, kicks, cfg,
                   rdonly, synctrk, syncmsk, snap>>

\* A caller passes one request, or goes on with the next of its list (the two
\* halves of a split request, or a chain of bufs).
UserRequest(p) ==
    /\ pc[p] \in {"idle", "check"}
    /\ \E r \in Bufs, a \in Shapes : Strategy(p, r, a)
    /\ UNCHANGED rs

\* A slip: lv_initiate is left for lv_continue to call.
CheckIfOpen(p) ==
    /\ pc[p] = "check"
    /\ pc' = [pc EXCEPT ![p] = IF Ready = {} \/ lvStatus # "open" THEN "idle"
                                                               ELSE "start"]
    /\ UNCHANGED <<workQ, buf, phase, holder, lvStatus, complcnt,
                   called, kicks, cfg, rdonly, synctrk, syncmsk, snap, rs>>

\* The unlocked test of lv_ready_Q after which lv_initiate is called or not.
Check(p) ==
    /\ pc[p] = "check"
    /\ pc' = [pc EXCEPT ![p] = IF Ready = {} THEN "idle" ELSE "start"]
    /\ UNCHANGED <<workQ, buf, phase, holder, lvStatus, complcnt,
                   called, kicks, cfg, rdonly, synctrk, syncmsk, snap, rs>>

\* A write of a read-only volume (EROFS), or a request at end of media.
Refused(r) == (rdonly /\ ~buf[r].read) \/ buf[r].ltg >= LvSize

\* The panics "lv_initiate resync read" and "lv_initiate resync write".
OutOfOrder(r) ==
    LET x == ExtOf(buf[r].ltg)
        t == TrkOf(buf[r].ltg)
    IN  IF buf[r].read THEN synctrk[x] # NoTrk /\ synctrk[x] # t - 1
                       ELSE synctrk[x] # t

\* lv_initiate handles the resynchronisation request among the requests it
\* takes, if it is there and not refused.  Its first read settles whether any
\* copy takes part (m); without one there is nothing to do.
SyncInitiate(taken, m) ==
    LET x == ExtOf(buf[RawBuf].ltg)
        t == TrkOf(buf[RawBuf].ltg)
    IN  IF RawBuf \in taken /\ ~Refused(RawBuf)
        THEN /\ ~OutOfOrder(RawBuf)
             /\ IF buf[RawBuf].read
                THEN /\ IF synctrk[x] = NoTrk THEN m \/ MayLackCopy
                                              ELSE m = syncmsk[x]
                     /\ syncmsk' = [syncmsk EXCEPT ![x] = m]
                     /\ synctrk' = [synctrk EXCEPT ![x] =
                           IF ~m /\ t = TrksPerExt - 1 THEN NoTrk ELSE t]
                ELSE m /\ UNCHANGED <<synctrk, syncmsk>>
        ELSE m /\ UNCHANGED <<synctrk, syncmsk>>

\* One locked section of lv_initiate.  It takes requests off lv_ready_Q (they
\* do not conflict, and their order there is left open) and links them on
\* pending_Q until the queue is empty, and then passes pending_Q on to the
\* mirror consistency manager (lv_mwcm) ...
InitiateAll(p) ==
    /\ pc[p] = "start"
    /\ \A r \in Ready : ~Refused(r)
    /\ SyncInitiate(Ready, TRUE)
    /\ phase' = [r \in Reqs |-> IF r \in Ready \cup Pending(p) THEN "below"
                                                               ELSE phase[r]]
    /\ holder' = [r \in Reqs |-> IF r \in Pending(p) THEN NoProc ELSE holder[r]]
    /\ pc' = [pc EXCEPT ![p] = "idle"]
    /\ UNCHANGED <<workQ, buf, lvStatus, complcnt, called, kicks, cfg, rdonly,
                   snap, rs>>

\* ... or until it meets a request done: one it refuses, or a resynchronising
\* read with no copy to work on, for which it drops the lock.
InitiateSome(p) ==
    /\ pc[p] = "start"
    /\ \E taken \in SUBSET Ready : \E done \in Ready \ taken :
          /\ \A r \in taken : ~Refused(r)
          /\ Refused(done) \/ (done = RawBuf /\ buf[done].read)
          /\ SyncInitiate(taken \cup {done}, done # RawBuf \/ Refused(done))
          /\ phase' = [r \in Reqs |-> IF r = done THEN "own"
                                      ELSE IF r \in taken THEN "pending"
                                      ELSE phase[r]]
          /\ holder' = [r \in Reqs |-> IF r \in taken \cup {done} THEN p
                                                                 ELSE holder[r]]
          /\ rs' = IF done = RawBuf THEN [rs EXCEPT !.error = Refused(done)]
                                    ELSE rs
    /\ pc' = [pc EXCEPT ![p] = "own"]
    /\ UNCHANGED <<workQ, buf, lvStatus, complcnt, called, kicks, cfg, rdonly,
                   snap>>

\* lv_initiate completes the request itself and goes back to lv_ready_Q.
InitiateComplete(p) ==
    \E r \in Reqs :
        /\ pc[p] = "own" /\ phase[r] = "own" /\ holder[r] = p
        /\ Complete(r)
        /\ holder' = [holder EXCEPT ![r] = NoProc]
        /\ pc' = [pc EXCEPT ![p] = "start"]
        /\ UNCHANGED <<lvStatus, called, kicks, rdonly, synctrk, syncmsk,
                       snap, rs>>

Initiate(p) == InitiateAll(p) \/ InitiateSome(p) \/ InitiateComplete(p)

-----------------------------------------------------------------------------
(* lv_terminate, at interrupt level, and the callout thread.               *)

InIntr == Cardinality({r \in Reqs : phase[r] = "complete"}) + kicks

\* The lower layers have finished r.
TerminateRequest(r) ==
    /\ r # RawBuf /\ phase[r] = "below" /\ InIntr < MaxIntr
    /\ phase' = [phase EXCEPT ![r] = "complete"]
    /\ UNCHANGED <<workQ, buf, holder, lvStatus, complcnt, pc, called,
                   kicks, cfg, rdonly, synctrk, syncmsk, snap, rs>>

\* A slip: LVM_RECOVERY, which recovers one LTG only, is forgotten.
LastTrackOnly(x) == synctrk[x] = TrksPerExt - 1

\* The write in progress is the last of the resynchronisation of extent x.
LastTrack(x) == synctrk[x] = TrksPerExt - 1 \/ rs.recovery

\* They have finished one half of a resynchronisation, with error e or not.
TerminateResync(e) ==
    LET r == RawBuf
        x == ExtOf(buf[r].ltg)
    IN  /\ phase[r] = "below" /\ InIntr < MaxIntr
        /\ IF (LastTrack(x) /\ ~buf[r].read) \/ e
           THEN /\ synctrk' = [synctrk EXCEPT ![x] = NoTrk]
                /\ buf' = [buf EXCEPT ![r].read = TRUE]
                /\ phase' = [phase EXCEPT ![r] = "complete"]
                /\ UNCHANGED kicks
           ELSE /\ UNCHANGED synctrk
                /\ buf' = [buf EXCEPT ![r].read = FALSE]
                /\ IF buf[r].read
                   THEN /\ phase' = [phase EXCEPT ![r] = "ready"]
                        /\ kicks' = kicks + 1
                   ELSE /\ phase' = [phase EXCEPT ![r] = "complete"]
                        /\ UNCHANGED kicks
        /\ rs' = [rs EXCEPT !.error = e]
        /\ UNCHANGED <<workQ, holder, lvStatus, complcnt, pc, called,
                       cfg, rdonly, syncmsk, snap>>

\* lv_terminate calls lv_complete.
TerminateComplete(r) ==
    /\ phase[r] = "complete"
    /\ Complete(r)
    /\ kicks' = kicks + 1
    /\ UNCHANGED <<holder, lvStatus, pc, called, rdonly, synctrk,
                   syncmsk, snap, rs>>

\* The unlocked test of lv_ready_Q at the end of lv_terminate, and
\* thread_call_one, which leaves at most one call queued.
Kick ==
    /\ kicks > 0
    /\ kicks' = kicks - 1
    /\ called' = (called \/ Ready # {})
    /\ UNCHANGED <<workQ, buf, phase, holder, lvStatus, complcnt, pc,
                   cfg, rdonly, synctrk, syncmsk, snap, rs>>

\* The callout thread takes the call off the queue and enters lv_initiate.
ThreadCall ==
    /\ called /\ pc[CallThread] = "idle"
    /\ called' = FALSE
    /\ pc' = [pc EXCEPT ![CallThread] = "start"]
    /\ UNCHANGED <<workQ, buf, phase, holder, lvStatus, complcnt,
                   kicks, cfg, rdonly, synctrk, syncmsk, snap, rs>>

-----------------------------------------------------------------------------
(* lv_pause and lv_continue, and the commands that use them.               *)

\* lv_changelv copies the extent maps, lx_synctrk with them, and writes the
\* VGDA before it pauses the volume.
CopyMaps ==
    /\ MayChange /\ cfg = "idle" /\ pc[Admin] = "idle"
    /\ cfg' = "copied"
    /\ snap' = [trk |-> synctrk, msk |-> syncmsk]
    /\ UNCHANGED <<workQ, buf, phase, holder, lvStatus, complcnt, pc,
                   called, kicks, rdonly, synctrk, syncmsk, rs>>

\* lv_pause counts the requests in progress and sleeps if there are any.
Pause ==
    /\ cfg \in {"idle", "copied"} /\ pc[Admin] = "idle"
    /\ lvStatus' = IF InProgress = {} THEN "paused" ELSE "pausing"
    /\ complcnt' = complcnt + Cardinality(InProgress)
    /\ cfg' = IF InProgress = {} THEN "paused" ELSE "asleep"
    /\ UNCHANGED <<workQ, buf, phase, holder, pc, called, kicks,
                   rdonly, synctrk, syncmsk, snap, rs>>

\* The sleeper finds lv_complcnt zero and marks the volume paused.
PauseWake ==
    /\ cfg = "awake" /\ complcnt = 0
    /\ lvStatus' = "paused"
    /\ cfg' = "paused"
    /\ UNCHANGED <<workQ, buf, phase, holder, complcnt, pc, called,
                   kicks, rdonly, synctrk, syncmsk, snap, rs>>

\* The command changes the volume: lv_changelv puts its copy of the maps in
\* place and sets lv_flags.
Reconfigure ==
    /\ cfg = "paused"
    /\ cfg' = "changed"
    /\ rdonly' \in (IF MayReadOnly THEN BOOLEAN ELSE {rdonly})
    /\ IF snap = NoSnap THEN UNCHANGED <<synctrk, syncmsk>>
       ELSE synctrk' = snap.trk /\ syncmsk' = snap.msk
    /\ snap' = NoSnap
    /\ UNCHANGED <<workQ, buf, phase, holder, lvStatus, complcnt, pc,
                   called, kicks, rs>>

\* lv_continue takes every chain apart and blocks its requests afresh.
Continue ==
    /\ cfg = "changed"
    /\ lvStatus' = "open"
    /\ phase' = [r \in Reqs |->
           LET q == workQ[Hash(buf[r].ltg)] IN
           IF phase[r] = "free" THEN "free"
           ELSE IF \E j \in DOMAIN q : q[j] = r /\ Conflicts(q, j, buf[r])
                THEN "blocked" ELSE "ready"]
    /\ cfg' = "idle"
    /\ pc' = [pc EXCEPT ![Admin] = "check"]
    /\ UNCHANGED <<workQ, buf, holder, complcnt, called, kicks,
                   rdonly, synctrk, syncmsk, snap, rs>>

Administer == CopyMaps \/ Pause \/ PauseWake \/ Reconfigure \/ Continue

-----------------------------------------------------------------------------
(* lv_syncx resynchronises the tracks of an extent one after the other;    *)
(* lv_recover_ltg recovers one LTG.  lv_rawbuf is locked meanwhile.        *)

SyncBegin ==
    /\ MayResync /\ rs.state = "idle"
    /\ \E x \in Exts, rec \in BOOLEAN, t \in Trks :
          /\ ~rec => t = 0
          /\ rs' = [state |-> "submit", ext |-> x, trk |-> t, recovery |-> rec,
                    error |-> FALSE]
    /\ UNCHANGED <<workQ, buf, phase, holder, lvStatus, complcnt, pc,
                   called, kicks, cfg, rdonly, synctrk, syncmsk, snap>>

SyncSubmit ==
    /\ rs.state = "submit" /\ pc[Syncer] = "idle"
    /\ Strategy(Syncer, RawBuf, [ltg |-> rs.ext * TrksPerExt + rs.trk,
                                 pages |-> Pages, read |-> TRUE])
    /\ rs' = [rs EXCEPT !.state = "wait"]

\* biowait returns: an error or the last track ends the operation.
SyncNext ==
    /\ rs.state = "wait" /\ phase[RawBuf] = "free" /\ pc[Syncer] = "idle"
    /\ rs' = IF rs.error \/ rs.recovery \/ rs.trk = TrksPerExt - 1
             THEN [rs EXCEPT !.state = "idle"]
             ELSE [rs EXCEPT !.state = "submit", !.trk = @ + 1]
    /\ UNCHANGED <<workQ, buf, phase, holder, lvStatus, complcnt, pc,
                   called, kicks, cfg, rdonly, synctrk, syncmsk, snap>>

-----------------------------------------------------------------------------

Init ==
    /\ workQ = [c \in Chains |-> <<>>]
    /\ buf = [r \in Reqs |-> NoRequest]
    /\ phase = [r \in Reqs |-> "free"]
    /\ holder = [r \in Reqs |-> NoProc]
    /\ lvStatus = "open" /\ complcnt = 0
    /\ pc = [p \in Procs |-> "idle"]
    /\ called = FALSE /\ kicks = 0
    /\ cfg = "idle" /\ rdonly = FALSE
    /\ synctrk = [x \in Exts |-> NoTrk]
    /\ syncmsk = [x \in Exts |-> FALSE]
    /\ snap = NoSnap
    /\ rs = [state |-> "idle", ext |-> 0, trk |-> 0, recovery |-> FALSE,
             error |-> FALSE]

Next ==
    \/ \E p \in Callers : UserRequest(p)
    \/ \E p \in Procs : Check(p) \/ Initiate(p)
    \/ \E r \in Reqs : TerminateRequest(r) \/ TerminateComplete(r)
    \/ \E e \in BOOLEAN : TerminateResync(e)
    \/ Kick \/ ThreadCall
    \/ Administer
    \/ SyncBegin \/ SyncSubmit \/ SyncNext

Spec == Init /\ [][Next]_vars

\* Threads run, the devices answer and every interrupt gets its turn on a CPU,
\* commands finish, and lv_intlock, which each holder gives up after a bounded
\* loop, starves nobody; users need not submit, nor administrators interfere.
Fairness ==
    /\ \A p \in Procs : WF_vars(Check(p)) /\ WF_vars(Initiate(p))
    /\ \A r \in Reqs : /\ SF_vars(TerminateRequest(r))
                       /\ WF_vars(TerminateComplete(r))
    /\ SF_vars(\E e \in BOOLEAN : TerminateResync(e))
    /\ WF_vars(Kick) /\ WF_vars(ThreadCall)
    /\ WF_vars(PauseWake) /\ WF_vars(Reconfigure) /\ WF_vars(Continue)
    /\ WF_vars(SyncSubmit) /\ WF_vars(SyncNext)

FairSpec == Spec /\ Fairness

-----------------------------------------------------------------------------
(* Properties.                                                             *)

\* Every variable has its type, the chains hold requests and the counters do
\* not go below zero.
TypeOK ==
    /\ workQ \in [Chains -> Seq(Reqs)]
    /\ buf \in [Reqs -> Request]
    /\ phase \in [Reqs -> Phases]
    /\ holder \in [Reqs -> Procs \cup {NoProc}]
    /\ lvStatus \in {"open", "pausing", "paused"}
    /\ complcnt \in Nat
    /\ pc \in [Procs -> PCs]
    /\ called \in BOOLEAN /\ kicks \in Nat
    /\ cfg \in Cfgs /\ rdonly \in BOOLEAN
    /\ synctrk \in [Exts -> {NoTrk} \cup Trks]
    /\ syncmsk \in [Exts -> BOOLEAN]
    /\ snap \in {NoSnap} \cup [trk : [Exts -> {NoTrk} \cup Trks],
                               msk : [Exts -> BOOLEAN]]
    /\ rs \in Resync

\* An outstanding request is linked once, on the chain its LTG hashes to, and
\* a request that was returned is linked nowhere (lv_block and lv_unblock).
Chained ==
    /\ \A r \in Reqs : phase[r] # "free" =>
          \E j \in DOMAIN workQ[Hash(buf[r].ltg)] :
              workQ[Hash(buf[r].ltg)][j] = r
    /\ \A c \in Chains : \A j \in DOMAIN workQ[c] :
          /\ phase[workQ[c][j]] # "free"
          /\ Hash(buf[workQ[c][j]].ltg) = c
          /\ \A k \in DOMAIN workQ[c] : workQ[c][k] = workQ[c][j] => k = j

\* Two requests in progress never use the same page of an LTG: the lower
\* layers rely on it for relocation and mirror retries (lv_strategy.c:66-75).
Exclusion ==
    \A q, r \in InProgress : q # r => ~Overlap(buf[q], buf[r])

\* A request in progress has overtaken no older request, blocked or not, that
\* uses one of its pages: overlapping requests are served in FIFO order.
NoOvertaking ==
    \A c \in Chains : \A j \in DOMAIN workQ[c] :
        workQ[c][j] \in InProgress => ~Conflicts(workQ[c], j, buf[workQ[c][j]])

\* While the volume runs, a request is held back only by an older request it
\* conflicts with: lv_unblock never leaves one behind.
BlockedForCause ==
    lvStatus = "open" =>
        \A c \in Chains : \A j \in DOMAIN workQ[c] :
            phase[workQ[c][j]] = "blocked"
                => Conflicts(workQ[c], j, buf[workQ[c][j]])

\* When lv_pause returns nothing is in progress, so that the command may
\* change the maps and lv_complete does not panic.
PausedIsQuiet == lvStatus = "paused" => InProgress = {}

\* lv_complcnt is the number of completions lv_pause still waits for, and
\* whoever waits is woken by the last of them.
PauseCount ==
    /\ complcnt = IF lvStatus = "pausing" THEN Cardinality(InProgress) ELSE 0
    /\ cfg = "asleep" => complcnt > 0
    /\ cfg = "awake" => complcnt = 0

\* What lv_pause is for, and what it relies on (lv_strategy.c:745-790).
PauseExact == PausedIsQuiet /\ PauseCount

\* A request on lv_ready_Q has somebody who will look at the queue: a caller
\* of lv_initiate, a queued call, or an lv_terminate before its last test.
ReadyIsServed ==
    Ready # {} => \/ \E p \in Procs : pc[p] # "idle"
                  \/ called \/ kicks > 0

\* lv_initiate never reaches its panics over lx_synctrk, "Bad (non-sequential)
\* resync" (lv_strategy.c:529 and 551).
NoResyncPanic ==
    (RawBuf \in Ready /\ ~Refused(RawBuf)) => ~OutOfOrder(RawBuf)

\* Every request is eventually returned to its owner.
Completes == \A r \in Reqs : phase[r] # "free" ~> phase[r] = "free"

\* lv_pause returns, and the volume runs again.
PauseReturns == lvStatus = "pausing" ~> lvStatus = "open"

\* A resynchronisation ends.
ResyncEnds == rs.state # "idle" ~> rs.state = "idle"

-----------------------------------------------------------------------------
(* The strategy layer implements LvPageLocks.                              *)

\* The requests of r's LTG in front of it on its hash chain.
OlderOf(r) ==
    LET q == workQ[Hash(buf[r].ltg)]
    IN  IF phase[r] = "free" THEN {}
        ELSE {q[k] : k \in {j \in DOMAIN q :
                 /\ buf[q[j]].ltg = buf[r].ltg
                 /\ \E i \in DOMAIN q : q[i] = r /\ j < i}}

NoAsk == [ltg |-> -1, pages |-> {}]

PageState == [r \in Reqs |-> IF phase[r] = "free" THEN "out"
                             ELSE IF phase[r] = "blocked" THEN "waiting"
                             ELSE "busy"]
PageAsk   == [r \in Reqs |-> IF phase[r] = "free" THEN NoAsk
                 ELSE [ltg |-> buf[r].ltg, pages |-> buf[r].pages]]
PageOlder == [r \in Reqs |-> OlderOf(r)]
PageGate  == IF lvStatus = "open" THEN "open"
             ELSE IF lvStatus = "pausing" THEN "closing" ELSE "closed"

PageLocks == INSTANCE LvPageLocks WITH
    state <- PageState, ask <- PageAsk, older <- PageOlder, gate <- PageGate

\* Page locks are granted in order of arrival and none while the volume is
\* paused, whatever the hash chains, queues and contexts do
\* (lv_strategy.c:66-75: overlapping requests complete in FIFO order).
Implements == PageLocks!Spec
=============================================================================
