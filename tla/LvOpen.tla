------------------------------- MODULE LvOpen -------------------------------
(***************************************************************************)
(* Open and close of logical volumes, and the pool of pbufs they adjust.   *)
(* Every transfer of a mirror needs a pbuf: requests wait for theirs in    *)
(* lv_pbuf_pending_Q, first come first served.  The pool is meant to grow  *)
(* and shrink with the volumes that are open: lv_adjpool computes how many *)
(* pbufs to add or to take away, and then does it one by one, without a    *)
(* lock in between.                                                        *)
(***************************************************************************)
EXTENDS Integers, Sequences, FiniteSets, SequencesExt

CONSTANTS
    Lv,         \* logical volumes
    VgOf,       \* VgOf[lv]: the volume group of each
    Fmt,        \* ways to open one: "RAW", "BLOCK"
    Req, LvOf,  \* requests, and the volume each is for
    Need,       \* Need[r]: pbufs: 1, or lv_maxmirrors + 1 for a parallel write
    Grab,       \* PBSUBPOOLSIZE: lv_pbuf_grab, lv_pbuf_min
    MaxGrab,    \* MAXGRABLV
    MaxSys,     \* MAXSYSVG
    Parallel,   \* how many contexts may be in lv_adjpool together
    MaxNoMem,   \* bound on pbufs that cannot be allocated
    MaxRun      \* bound on contexts in lv_reschedule

ASSUME OpenAssumption ==
    /\ IsFiniteSet(Lv) /\ IsFiniteSet(Req) /\ Fmt \subseteq {"RAW", "BLOCK"}
    /\ LvOf \in [Req -> Lv] /\ Need \in [Req -> 1 .. 3]
    /\ {Grab, MaxGrab, MaxSys, Parallel, MaxRun} \subseteq Nat \ {0} /\ MaxNoMem \in Nat

Vg == {VgOf[lv] : lv \in Lv}

VARIABLES
    status,     \* lv_status: how the volume is open
    ref,        \* lv_ref
    holders,    \* commands for which lv_lvhold has succeeded
    adj,        \* of each volume, the open or close in progress
    opencount,  \* vg_opencount
    vgs_opn, lvs_opn,
    pbuf_cnt, pbuf_inuse,
    freebuf,    \* length of lv_freebuf
    pending,    \* lv_pbuf_pending_Q
    held,       \* pbufs of each request
    kick,       \* a call of lv_reschedule is queued
    runners,    \* contexts in lv_reschedule
    nomem

lvs  == <<status, ref, holders, adj, opencount>>
opns == <<vgs_opn, lvs_opn>>
pool == <<pbuf_cnt, freebuf>>
reqs == <<pending, held, kick, runners, pbuf_inuse>>
vars == <<lvs, opns, pool, reqs, nomem>>

\* pc: before lv_adjpool, or in it; grow: which of its two branches; dvg: deltavg.
NoAdj == [op |-> "none", pc |-> "none", fmt |-> {}, dvg |-> 0, left |-> 0, grow |-> FALSE]
Modes == {"FAKE", "RAW", "BLOCK"}       \* LV_FAKEOPEN, LV_RAWOPEN, LV_BLOCKOPEN
IsOpen(lv)  == "OPEN" \in status[lv]
Quiet       == \A lv \in Lv : adj[lv] = NoAdj
Waiting(r)  == Contains(pending, r)
Needed(lv)  == \E r \in Req : LvOf[r] = lv /\ (held[r] > 0 \/ Waiting(r))

-----------------------------------------------------------------------------
(* The size of the pool.                                                   *)

Least(a, b) == IF a < b THEN a ELSE b

\* lv_numpbufs, whose parameters are lvs_open and vgs_open.
Numpbufs(lvs_open, vgs_open) ==
    LET calmax == Least(Least(lvs_open * Grab, vgs_open * Grab * MaxGrab),
                        Grab * MaxGrab * MaxSys)
        calmin == vgs_open * Grab IN
    IF lvs_open = 0 /\ vgs_open = 0 THEN 0
    ELSE IF calmin > pbuf_cnt THEN calmin ELSE calmax

\* What is to be added; lv_adjpool passes the volume groups first.  A slip: the
\* shrunk pool is for the volume groups only, of which one may be the last.
DeltaShort(vgs, n) == (IF n = 1 THEN 1 ELSE Numpbufs(vgs, n)) - pbuf_cnt
Delta(vgs, n) == Numpbufs(vgs, n) - pbuf_cnt

Sign(lv) == IF adj[lv].op = "open" THEN 1 ELSE -1

\* lv_adjpool as it is entered: the counts, and the size wanted.
Adjust(lv) ==
    /\ adj[lv].pc = "count"
    /\ LET dvg  == IF opencount[VgOf[lv]] = 0 THEN Sign(lv) ELSE 0
           left == Delta(vgs_opn + dvg, lvs_opn + Sign(lv)) IN
       /\ vgs_opn' = vgs_opn + dvg
       /\ lvs_opn' = lvs_opn + Sign(lv)
       /\ adj' = [adj EXCEPT ![lv].pc = "pool", ![lv].dvg = dvg,
                             ![lv].left = left, ![lv].grow = left > 0]
    /\ UNCHANGED <<status, ref, holders, opencount, pool, reqs, nomem>>

\* One pbuf is added, or there is no memory for it.
Grow(lv) ==
    /\ adj[lv].left > 0
    /\ \/ /\ adj' = [adj EXCEPT ![lv].left = @ - 1]
          /\ pbuf_cnt' = pbuf_cnt + 1 /\ freebuf' = freebuf + 1
          /\ UNCHANGED nomem
       \/ /\ nomem < MaxNoMem /\ nomem' = nomem + 1
          /\ adj' = [adj EXCEPT ![lv].left = 0]
          /\ UNCHANGED pool
    /\ UNCHANGED <<status, ref, holders, opencount, opns, reqs>>

\* The list of free pbufs is at its end.
NoneFree == freebuf = 0

\* The count is lowered for a pbuf that is taken away; a slip lowers it for all wanted.
CountAll(lv) == pbuf_cnt + adj[lv].left
CountOne(lv) == pbuf_cnt - 1

\* One pbuf is taken away, if there is one.
Shrink(lv) ==
    /\ adj[lv].left < 0
    /\ IF NoneFree
       THEN /\ adj' = [adj EXCEPT ![lv].left = 0]
            /\ UNCHANGED pool
       ELSE /\ adj' = [adj EXCEPT ![lv].left = @ + 1]
            /\ pbuf_cnt' = CountOne(lv) /\ freebuf' = freebuf - 1
    /\ UNCHANGED <<status, ref, holders, opencount, opns, reqs, nomem>>

-----------------------------------------------------------------------------
(* Open and close.                                                         *)

Enter(lv, op, fmt) ==
    adj' = [adj EXCEPT ![lv] = [NoAdj EXCEPT !.op = op, !.pc = "count", !.fmt = fmt]]

\* Who may come in: vg_lock is held for writing by lv_lvrelease and by lv_open as it
\* starts, for reading by the others; lv_lock for writing by all.
MayRead(lv) ==
    /\ adj[lv] = NoAdj
    /\ Cardinality({k \in Lv : adj[k] # NoAdj}) < Parallel
    /\ \A k \in Lv : VgOf[k] = VgOf[lv] => adj[k].op # "release"
MayWrite(lv) == MayRead(lv) /\ \A k \in Lv : VgOf[k] = VgOf[lv] => adj[k] = NoAdj

\* lv_open; the first open does lv_openlv.
Open(lv, fmt) ==
    /\ MayWrite(lv)
    /\ IF IsOpen(lv)
       THEN status' = [status EXCEPT ![lv] = @ \cup {fmt}] /\ adj' = adj
       ELSE Enter(lv, "open", {fmt}) /\ status' = status
    /\ UNCHANGED <<ref, holders, opencount, opns, pool, reqs, nomem>>

\* lv_lvhold: LV_FAKEOPEN for the first of the commands that use the volume.
Hold(lv) ==
    /\ MayRead(lv)
    /\ ref' = [ref EXCEPT ![lv] = @ + 1]
    /\ status' = [status EXCEPT ![lv] = IF ref[lv] = 0 THEN @ \cup {"FAKE"} ELSE @]
    /\ IF IsOpen(lv) THEN holders' = [holders EXCEPT ![lv] = @ + 1] /\ adj' = adj
       ELSE Enter(lv, "open", {"FAKE"}) /\ holders' = holders
    /\ UNCHANGED <<opencount, opns, pool, reqs, nomem>>

\* lv_closelv: the last close gives the pbufs back.
CloseLv(lv, st, op) ==
    IF st \cap Modes # {}
    THEN status' = [status EXCEPT ![lv] = st] /\ UNCHANGED <<adj, opencount>>
    ELSE /\ status' = [status EXCEPT ![lv] = {}]
         /\ opencount' = [opencount EXCEPT ![VgOf[lv]] = @ - 1]
         /\ Enter(lv, op, {})

\* lv_close, once the requests of the volume are done.
Close(lv, fmt) ==
    /\ MayRead(lv) /\ fmt \in status[lv] /\ ~Needed(lv)
    /\ CloseLv(lv, status[lv] \ {fmt}, "close")
    /\ UNCHANGED <<ref, holders, opns, pool, reqs, nomem>>

\* A slip: every command that ends takes LV_FAKEOPEN away.
UnheldAlways(lv) == status[lv] \ {"FAKE"}
Unheld(lv) == IF ref[lv] = 1 THEN status[lv] \ {"FAKE"} ELSE status[lv]

\* lv_lvrelease, of a command whose lv_lvhold succeeded.
Release(lv) ==
    /\ MayWrite(lv) /\ holders[lv] > 0 /\ ~Needed(lv)
    /\ ref' = [ref EXCEPT ![lv] = @ - 1]
    /\ holders' = [holders EXCEPT ![lv] = @ - 1]
    /\ CloseLv(lv, Unheld(lv), "release")
    /\ UNCHANGED <<opns, pool, reqs, nomem>>

\* lv_adjpool returns: the volume is open, or nothing at all could be allocated, and
\* the counts are put back; LV_FAKEOPEN and lv_ref are not.
OpenEnd(lv) ==
    /\ adj[lv].op = "open" /\ adj[lv].pc = "pool" /\ adj[lv].left = 0
    /\ adj' = [adj EXCEPT ![lv] = NoAdj]
    /\ IF adj[lv].grow /\ pbuf_cnt = 0
       THEN /\ vgs_opn' = vgs_opn - adj[lv].dvg /\ lvs_opn' = lvs_opn - 1
            /\ UNCHANGED <<status, holders, opencount>>
       ELSE /\ status' = [status EXCEPT ![lv] = @ \cup {"OPEN"} \cup adj[lv].fmt]
            /\ opencount' = [opencount EXCEPT ![VgOf[lv]] = @ + 1]
            /\ holders' = [holders EXCEPT ![lv] = IF "FAKE" \in adj[lv].fmt THEN @ + 1 ELSE @]
            /\ UNCHANGED opns
    /\ UNCHANGED <<ref, pool, reqs, nomem>>

CloseEnd(lv) ==
    /\ adj[lv].op \in {"close", "release"} /\ adj[lv].pc = "pool" /\ adj[lv].left = 0
    /\ adj' = [adj EXCEPT ![lv] = NoAdj]
    /\ UNCHANGED <<status, ref, holders, opencount, opns, pool, reqs, nomem>>

-----------------------------------------------------------------------------
(* Requests for pbufs.                                                     *)

\* lv_schedule: lv_reschedule is called, or left to a callout thread.
Submit(r) ==
    /\ IsOpen(LvOf[r]) /\ adj[LvOf[r]] = NoAdj /\ held[r] = 0 /\ ~Waiting(r)
    /\ pending' = Append(pending, r)
    /\ \/ kick' = TRUE /\ runners' = runners
       \/ runners < MaxRun /\ runners' = runners + 1 /\ kick' = kick
    /\ UNCHANGED <<lvs, opns, pool, held, pbuf_inuse, nomem>>

\* A callout thread takes the call off its list, and runs it.
CallThread ==
    /\ kick /\ runners < MaxRun
    /\ kick' = FALSE /\ runners' = runners + 1
    /\ UNCHANGED <<lvs, opns, pool, pending, held, pbuf_inuse, nomem>>

\* lv_allocmulti finds enough pbufs.
Fits(r) == Need[r] <= freebuf

\* A request that has to wait goes back to the front of the queue.
PutBack(r) == <<r>> \o Tail(pending)

\* The pbufs lv_allocmulti had before it found too few are put back; a slip keeps them.
KeptAll == freebuf
Kept == 0

\* One turn of lv_reschedule's loop, with lv_allocmulti.
Reschedule ==
    /\ runners > 0
    /\ IF pending # << >> /\ Fits(Head(pending))
       THEN LET r == Head(pending) IN
            /\ pending' = Tail(pending)
            /\ held' = [held EXCEPT ![r] = Need[r]]
            /\ freebuf' = freebuf - Need[r] /\ pbuf_inuse' = pbuf_inuse + Need[r]
            /\ runners' = runners
       ELSE /\ pending' = IF pending = << >> THEN pending ELSE PutBack(Head(pending))
            /\ runners' = runners - 1
            /\ freebuf' = freebuf - Kept /\ pbuf_inuse' = pbuf_inuse + Kept
            /\ UNCHANGED held
    /\ UNCHANGED <<lvs, opns, pbuf_cnt, kick, nomem>>

\* When a pbuf is free: is anybody to be told?  A slip tells only when it was the last.
KickLate(r) == pending # << >> /\ freebuf = 0
Kick(r) == pending # << >>

\* lv_parwrite_done, lv_finished: a transfer, or the last one, is done.
Free(r) ==
    /\ held[r] > 0
    /\ held' = [held EXCEPT ![r] = @ - 1]
    /\ freebuf' = freebuf + 1 /\ pbuf_inuse' = pbuf_inuse - 1
    /\ kick' = (kick \/ Kick(r))
    /\ UNCHANGED <<lvs, opns, pbuf_cnt, pending, runners, nomem>>

\* lv_parallel releases the pbufs of mirrors it does not write, and tells nobody.
FreeUnused(r) ==
    /\ held[r] = Need[r] /\ Need[r] > 1
    /\ held' = [held EXCEPT ![r] = @ - 1]
    /\ freebuf' = freebuf + 1 /\ pbuf_inuse' = pbuf_inuse - 1
    /\ UNCHANGED <<lvs, opns, pbuf_cnt, pending, kick, runners, nomem>>

-----------------------------------------------------------------------------
Init ==
    /\ status = [lv \in Lv |-> {}] /\ ref = [lv \in Lv |-> 0]
    /\ holders = [lv \in Lv |-> 0] /\ adj = [lv \in Lv |-> NoAdj]
    /\ opencount = [vg \in Vg |-> 0]
    /\ vgs_opn = 0 /\ lvs_opn = 0 /\ pbuf_cnt = 0 /\ pbuf_inuse = 0 /\ freebuf = 0
    /\ pending = << >> /\ held = [r \in Req |-> 0] /\ kick = FALSE /\ runners = 0
    /\ nomem = 0

AdjStep(lv) ==
    \/ Adjust(lv) \/ Grow(lv) \/ Shrink(lv) \/ OpenEnd(lv) \/ CloseEnd(lv)

Next ==
    \/ \E lv \in Lv :
          \/ AdjStep(lv)
          \/ \E fmt \in Fmt : Open(lv, fmt) \/ Close(lv, fmt)
          \/ ref[lv] < 2 /\ Hold(lv)
          \/ Release(lv)
    \/ \E r \in Req : Submit(r) \/ Free(r) \/ FreeUnused(r)
    \/ CallThread \/ Reschedule

Spec == Init /\ [][Next]_vars

\* Callout threads and interrupted contexts run, and transfers end.
FairSpec ==
    /\ Spec
    /\ WF_vars(CallThread) /\ WF_vars(Reschedule)
    /\ \A r \in Req : WF_vars(Free(r))
    /\ \A lv \in Lv : WF_vars(AdjStep(lv))

-----------------------------------------------------------------------------
(* Properties.                                                             *)

\* An open or close in progress, as Enter and lv_adjpool leave it.
Adjustment == [op : {"none", "open", "close", "release"}, pc : {"none", "count", "pool"},
               fmt : SUBSET Modes, dvg : Int, left : Int, grow : BOOLEAN]

\* lv_ref, the holders and the list of free pbufs never go below zero, whoever gives
\* back what.
TypeOK ==
    /\ status \in [Lv -> SUBSET (Modes \cup {"OPEN"})]
    /\ ref \in [Lv -> Nat] /\ holders \in [Lv -> Nat] /\ opencount \in [Vg -> Int]
    /\ vgs_opn \in Int /\ lvs_opn \in Int
    /\ pbuf_cnt \in Int /\ pbuf_inuse \in Int /\ freebuf \in Nat
    /\ pending \in Seq(Req) /\ held \in [Req -> 0 .. 3] /\ kick \in BOOLEAN
    /\ runners \in Nat
    /\ adj \in [Lv -> Adjustment]

\* lv_pbuf_cnt and lv_pbuf_inuse are exact whoever adds, takes away, allocates and
\* frees meanwhile.
PoolExact == pbuf_cnt = freebuf + pbuf_inuse

\* No pbuf is lost: those in use are those of the requests, each request's numbered.
InUse    == {x \in Req \X (1 .. 3) : x[2] <= held[x[1]]}
NoneLost == pbuf_inuse = Cardinality(InUse)

\* A request waits for its pbufs once, and not while it has some.
WaitsOnce ==
    \A i, j \in DOMAIN pending :
        /\ pending[i] = pending[j] => i = j
        /\ held[pending[i]] = 0

\* While a volume is open the pool is large enough for any one request
\* ("The appropriate number of pbufs are now in the pool", lv_pbuf.c:105).
PoolCovers ==
    \A r \in Req : IsOpen(LvOf[r]) => pbuf_cnt >= Need[r]

\* "If no open VGs and LVs then we should not have any pbufs" (lv_pbuf.c:271).
Emptied == Quiet /\ (\A lv \in Lv : status[lv] = {}) => pbuf_cnt = 0

\* The pool follows the volumes that are open.
PoolFits == PoolCovers /\ Emptied

\* Whenever nobody is opening or closing, the counts say what is open, and a volume
\* is open as long as somebody has it open and no longer.
CountsExact ==
    Quiet =>
        /\ \A lv \in Lv : /\ IsOpen(lv) <=> status[lv] \cap Modes # {}
                          /\ "FAKE" \in status[lv] <=> holders[lv] > 0
        /\ \A vg \in Vg : opencount[vg] = Cardinality({lv \in Lv : VgOf[lv] = vg /\ IsOpen(lv)})
        /\ lvs_opn = Cardinality({lv \in Lv : IsOpen(lv)})
        /\ vgs_opn = Cardinality({VgOf[lv] : lv \in {k \in Lv : IsOpen(k)}})

\* Each request gets its pbufs, however many the others need ("This ensures that no
\* I/O is starved", lv_schedule.c:200).
Served == \A r \in Req : Waiting(r) ~> held[r] > 0
=============================================================================
