-------------------------- MODULE LvScheduleProofs --------------------------
(***************************************************************************)
(* Proofs about LvSchedule, for any number of tracks, any values, holes,   *)
(* known bad blocks, failures and missing PVs, and under both policies:    *)
(* type correctness; that a resynchronisation goes on where it stopped and *)
(* makes stale mirrors fresh only; and that the panics of lv_stalepp and   *)
(* lv_initiate are never reached, the others only with a bad block that    *)
(* cannot be relocated, or a read that fails under the sequential policy.  *)
(* Then that it implements LvBlock, and that a write that is answered is   *)
(* safe from a crash.                                                      *)
(***************************************************************************)
EXTENDS LvSchedule, TLAPS

-----------------------------------------------------------------------------
(* The inductive invariant.                                                *)

Request ==
    [op : {"idle", "read", "write"}, sync : BOOLEAN, val : Value, was : SUBSET Value,
     pc : Pcs, todo : SUBSET Present, busy : SUBSET Present,
     bad : [Mirror -> SUBSET Present], done : SUBSET Mirror, act : SUBSET Present,
     avoid : SUBSET Present, error : BOOLEAN]
Lx == [trk : Track \cup {-1}, msk : SUBSET Present, err : SUBSET Present]

\* Where a request may be with transfers under way, or about to be started.
BusyPcs == {"starting", "parwrite", "seqwrite", "parread", "seqread", "fixup"}
ReqOk(r) ==
    /\ r.todo \cup r.busy \subseteq r.act
    /\ r.pc = "starting" => r.todo # {}
    /\ r.busy # {} => r.pc \in BusyPcs
    /\ r.op = "idle" => r.pc = "none" /\ ~r.sync /\ r.busy = {}

\* A resynchronisation has one request, for the track lv_syncx is at; between two
\* requests lx_synctrk is one behind, and after the last there is none.
SyncOk ==
    /\ lx.msk \subseteq stale
    /\ \A t \in Track : req[t].sync => t = syncx /\ lx.trk = t
    /\ \/ lx.trk = -1 /\ syncx = NTrack
       \/ syncx \in Track /\ lx.trk \in {syncx, syncx - 1}
          /\ (lx.trk = syncx => req[syncx].sync)

ReqInv ==
    /\ req \in [Track -> Request] /\ lx \in Lx /\ syncx \in 0 .. NTrack
    /\ \A t \in Track : ReqOk(req[t])
    /\ SyncOk
    /\ stale \subseteq Present /\ changing \subseteq Present

DataInv ==
    /\ Value # {} /\ missing \subseteq Present
    /\ copy \in [Mirror -> [Track -> Value]] /\ held \in [Track -> SUBSET Value]

IInv == ReqInv /\ DataInv

\* The panics that may be reached: with a bad block known, or a read that fails under
\* the sequential policy.
Near ==
    (IF Known = {} THEN {}
     ELSE {"pbuf begun twice", "lv_validblk returned false on fixup"}) \cup
    (IF Known = {} /\ "seqread" \in Spared THEN {} ELSE {"lv_nextmir without a pbuf"})

-----------------------------------------------------------------------------
(* Masks of mirrors, and requests.                                         *)

\* FIRST_MASK of a mask that is not empty is in it.
LEMMA MinIn ==
  ASSUME NEW S \in SUBSET Mirror, S # {}
  PROVE  Min(S) \in S
<1>1. \A x \in S : x \in 0 .. 2
  BY ScheduleAssumption DEF Mirror
<1>2. \E x \in S : \A y \in S : x <= y
  <2>1. CASE 0 \in S
    BY <1>1, <2>1
  <2>2. CASE 0 \notin S /\ 1 \in S
    <3>1. \A y \in S : 1 <= y
      BY <1>1, <2>2
    <3> QED
      BY <2>2, <3>1
  <2>3. CASE 0 \notin S /\ 1 \notin S
    <3>1. \A y \in S : y = 2
      BY <1>1, <2>3
    <3> QED
      BY <3>1
  <2> QED
    BY <2>1, <2>2, <2>3
<1> QED
  BY <1>2 DEF Min

\* The mirrors and the tracks that there are.
LEMMA Masks ==
  /\ Present \subseteq Mirror /\ 0 \in Present /\ 0 \in Mirror
  /\ NTrack \in Nat \ {0} /\ Last \in Track /\ 0 \in Track /\ NTrack \notin Track
  /\ \A t \in Track : t \in Nat /\ t # -1 /\ t + 1 \in 0 .. NTrack
                      /\ (t # Last => t + 1 \in Track)
  BY ScheduleAssumption DEF Present, Mirror, Last, Track

\* A request that is not there.
LEMMA NoReqType ==
  ASSUME Value # {}
  PROVE  /\ NoReq \in Request /\ ReqOk(NoReq) /\ NoReq.sync = FALSE /\ NoReq.op = "idle"
         /\ NoReq.busy = {} /\ NoReq.todo = {} /\ NoReq.act = {} /\ NoReq.pc = "none"
<1>1. NoReq.val \in Value
  BY DEF NoReq
<1> QED
  BY <1>1 DEF NoReq, Request, ReqOk, Pcs

-----------------------------------------------------------------------------
(* A request goes on, or ends.                                             *)

\* What all handlers of request t may assume of the pbuf r that they work on.
Handled(t, r) ==
    /\ t \in Track /\ r \in Request /\ r.sync = req[t].sync
    /\ r.todo \cup r.busy \subseteq r.act /\ r.op # "idle"

\* The request waits for something else.
LEMMA GoesOn ==
  ASSUME IInv, NEW t \in Track, NEW r \in Request, ReqOk(r), r.sync = req[t].sync,
         req' = [req EXCEPT ![t] = r], syncx' = syncx, lx' \in Lx, lx'.trk = lx.trk,
         lx'.msk \subseteq stale', stale' \subseteq Present, changing' \subseteq Present
  PROVE  ReqInv'
<1> USE DEF IInv, ReqInv
<1>1. req' \in [Track -> Request] /\ \A k \in Track : ReqOk(req'[k])
  BY DEF ReqOk
<1>2. \A k \in Track : req'[k].sync = req[k].sync
  OBVIOUS
<1>3. SyncOk'
  BY <1>2 DEF SyncOk
<1>4. \A k \in Track : ReqOk(req[k])'
  BY <1>1 DEF ReqOk
<1> QED
  BY <1>1, <1>3, <1>4

\* lv_finished and lv_terminate: it is returned, or becomes the write half of a
\* resynchronisation.
LEMMA TerminateStep ==
  ASSUME IInv, NEW t \in Track, NEW r \in Request, r.sync = req[t].sync,
         NEW l \in Lx, l.trk = lx.trk, l.msk \subseteq stale',
         Terminate(t, r, l), stale' \subseteq Present, changing' \subseteq Present
  PROVE  ReqInv'
<1>1. /\ NoReq \in Request /\ ReqOk(NoReq) /\ NoReq.sync = FALSE
  BY NoReqType DEF IInv, DataInv
<1>2. /\ req \in [Track -> Request] /\ \A k \in Track : ReqOk(req[k])
      /\ lx \in Lx /\ syncx \in 0 .. NTrack /\ SyncOk
  BY DEF IInv, ReqInv
<1>3. CASE ~r.sync
  <2>1. req' = [req EXCEPT ![t] = NoReq] /\ lx' = l /\ syncx' = syncx
    BY <1>3 DEF Terminate
  <2>2. NoReq.sync = req[t].sync
    BY <1>1, <1>3 DEF Request
  <2> QED
    BY <1>1, <2>1, <2>2, GoesOn
<1>4. CASE r.sync /\ (Write(r) \/ r.error)
  <2> DEFINE end == r.error \/ l.trk = Last
  <2>1. /\ req' = [req EXCEPT ![t] = NoReq]
        /\ lx' = [l EXCEPT !.trk = IF end THEN -1 ELSE @]
        /\ syncx' = IF end THEN NTrack ELSE t + 1
    BY <1>4 DEF Terminate
  <2> HIDE DEF end
  <2>2. req[t].sync /\ t = syncx /\ lx.trk = t /\ l.trk = t
    BY <1>2, <1>4 DEF SyncOk
  <2>3. lx' \in Lx /\ lx'.msk = l.msk /\ lx'.trk = IF end THEN -1 ELSE t
    BY <2>1, <2>2 DEF Lx
  <2>4. req' \in [Track -> Request] /\ \A k \in Track : ~req'[k].sync
    BY <1>1, <1>2, <2>1, <2>2 DEF SyncOk
  <2>5. \A k \in Track : ReqOk(req[k])'
    BY <1>1, <1>2, <2>1 DEF ReqOk
  <2>6. ~end => t + 1 \in Track
    BY <2>2, Masks DEF end
  <2>7. SyncOk' /\ syncx' \in 0 .. NTrack
    BY <2>1, <2>3, <2>4, <2>6, Masks DEF SyncOk
  <2> QED
    BY <2>3, <2>4, <2>5, <2>7 DEF ReqInv
<1>5. CASE r.sync /\ ~(Write(r) \/ r.error)
  <2> DEFINE w == [NoReq EXCEPT !.op = "write", !.sync = TRUE, !.val = r.val,
                                !.pc = "pending"]
  <2>1. req' = [req EXCEPT ![t] = w] /\ lx' = l /\ syncx' = syncx
    BY <1>5 DEF Terminate
  <2>2. w \in Request /\ ReqOk(w) /\ w.sync = TRUE
    BY <1>1, NoReqType DEF Request, ReqOk, Pcs, IInv, DataInv
  <2> HIDE DEF w
  <2> QED
    BY <1>5, <2>1, <2>2, GoesOn
<1> QED
  BY <1>3, <1>4, <1>5

\* A transfer of mirror m is started.
LEMMA TransferStep ==
  ASSUME IInv, NEW t, NEW r, Handled(t, r), NEW m \in Present,
         NEW pc \in BusyPcs \ {"starting"}, Transfer(t, r, m, pc)
  PROVE  ReqInv' /\ panic' = panic
<1> DEFINE s == [r EXCEPT !.busy = {m}, !.act = @ \cup {m}, !.pc = pc]
<1>1. /\ req' = [req EXCEPT ![t] = s] /\ UNCHANGED <<stale, changing, lx, syncx>>
      /\ panic' = panic
  BY DEF Transfer, marks
<1>2. s \in Request /\ ReqOk(s) /\ s.sync = r.sync
  BY DEF Handled, Request, ReqOk, BusyPcs, Pcs
<1> HIDE DEF s
<1> QED
  BY <1>1, <1>2, GoesOn DEF Handled, IInv, ReqInv, SyncOk

\* The request is done with.
LEMMA TerminateEnds ==
  ASSUME IInv, NEW t, NEW r, Handled(t, r), Terminate(t, r, lx), UNCHANGED marks
  PROVE  ReqInv'
  BY TerminateStep DEF Handled, IInv, ReqInv, SyncOk, marks

\* What a step leaves alone.
LEMMA Unmoved ==
  ASSUME IInv, UNCHANGED <<req, marks, lx, syncx>>
  PROVE  ReqInv'
<1> USE DEF IInv, ReqInv, marks
<1>1. SyncOk'
  BY DEF SyncOk
<1>2. \A k \in Track : ReqOk(req[k])'
  BY DEF ReqOk
<1> QED
  BY <1>1, <1>2

\* It fails.
LEMMA EioStep ==
  ASSUME IInv, NEW t, NEW r, Handled(t, r), Eio(t, r)
  PROVE  ReqInv' /\ panic' = panic
<1>1. Handled(t, [r EXCEPT !.error = TRUE])
  BY DEF Handled, Request
<1> QED
  BY <1>1, TerminateEnds DEF Eio

-----------------------------------------------------------------------------
(* Stale extents.                                                          *)

\* What a handler promises: the invariant, and no panic but those that are near.
Safe == ReqInv' /\ panic' \in {panic} \cup Near

\* lv_stalepp at the last track of a resynchronisation.
LEMMA MakeFreshStep ==
  ASSUME IInv, NEW t, NEW r, Handled(t, r), r.busy = {}, NEW l \in Lx, l.trk = lx.trk,
         l.msk \subseteq stale, NEW bad \in SUBSET Present, MakeFresh(t, r, l, bad)
  PROVE  Safe
<1> DEFINE s == [r EXCEPT !.pc = "vgsa", !.bad[0] = bad, !.done = l.msk]
<1>1. /\ req' = [req EXCEPT ![t] = s] /\ lx' = [l EXCEPT !.msk = {}] /\ syncx' = syncx
      /\ stale' = stale \ l.msk /\ changing' = changing /\ panic' = panic
  BY DEF MakeFresh
<1>2. s \in Request /\ ReqOk(s) /\ s.sync = r.sync
  <2>1. [r.bad EXCEPT ![0] = bad] \in [Mirror -> SUBSET Present]
    BY DEF Handled, Request
  <2>2. l.msk \in SUBSET Mirror
    BY Masks DEF Lx
  <2> QED
    BY <2>1, <2>2 DEF Handled, Request, ReqOk, Pcs
<1>3. lx' \in Lx /\ lx'.trk = lx.trk /\ lx'.msk = {}
  BY <1>1 DEF Lx
<1> HIDE DEF s
<1>4. stale' \subseteq Present /\ changing' \subseteq Present
  BY <1>1 DEF IInv, ReqInv
<1> QED
  BY <1>1, <1>2, <1>3, <1>4, GoesOn DEF Handled, Safe

\* lv_stalepp, for mirrors that are to be stale.
LEMMA MarkStep ==
  ASSUME IInv, NEW t, NEW r, Handled(t, r), r.busy = {}, NEW l \in Lx, l.trk = lx.trk,
         l.msk \subseteq stale, NEW bad \in SUBSET Present, Mark(t, r, l, bad)
  PROVE  Safe
<1> DEFINE wait == Unmarked(bad)
           s == [r EXCEPT !.pc = "vgsa", !.bad[0] = wait, !.done = {}]
<1>1. /\ stale' = stale \cup bad /\ changing' = changing \cup (bad \ stale)
      /\ panic' = panic
      /\ IF wait = {} THEN Terminate(t, r, l)
         ELSE req' = [req EXCEPT ![t] = s] /\ lx' = l /\ UNCHANGED <<syncx, answer>>
  BY DEF Mark
<1>2. stale' \subseteq Present /\ changing' \subseteq Present /\ l.msk \subseteq stale'
  BY <1>1 DEF IInv, ReqInv
<1>3. wait \in SUBSET Present
  BY DEF Unmarked
<1> HIDE DEF wait
<1>4. s \in Request /\ ReqOk(s) /\ s.sync = r.sync
  <2>1. [r.bad EXCEPT ![0] = wait] \in [Mirror -> SUBSET Present]
    BY <1>3 DEF Handled, Request
  <2> QED
    BY <2>1 DEF Handled, Request, ReqOk, Pcs
<1> HIDE DEF s
<1>5. CASE wait = {}
  BY <1>1, <1>2, <1>5, TerminateStep DEF Handled, Safe
<1>6. CASE wait # {}
  BY <1>1, <1>2, <1>4, <1>6, GoesOn DEF Handled, Safe
<1> QED
  BY <1>5, <1>6

\* lv_stalepp: one or the other.
LEMMA StalePpStep ==
  ASSUME IInv, NEW t, NEW r, Handled(t, r), r.busy = {},
         NEW mask \in SUBSET Present, StalePp(t, r, mask)
  PROVE  Safe
<1> DEFINE bad == Blamed(r, mask)
           err == lx.err \cup bad \cup (IF r.sync THEN r.avoid ELSE {})
           l   == [lx EXCEPT !.err = err, !.msk = IF r.sync THEN @ \ err ELSE @]
           e   == AllBad(r, mask) \/ (r.sync /\ l.msk = {})
           s   == [r EXCEPT !.error = e]
<1>1. MakeFresh(t, s, l, bad) \/ Mark(t, s, l, bad)
  BY DEF StalePp
<1>2. bad \in SUBSET Present
  BY DEF Blamed
<1> HIDE DEF bad
<1>3. err \in SUBSET Present
  BY <1>2 DEF Handled, Request, IInv, ReqInv, Lx
<1> HIDE DEF err
<1>4. l \in Lx /\ l.trk = lx.trk /\ l.msk \subseteq stale
  BY <1>3 DEF IInv, ReqInv, Lx, SyncOk
<1> HIDE DEF l
<1>5. e \in BOOLEAN
  BY DEF AllBad
<1> HIDE DEF e
<1>6. Handled(t, s) /\ s.busy = {}
  BY <1>5 DEF Handled, Request
<1> HIDE DEF s
<1> QED
  BY <1>1, <1>2, <1>4, <1>6, MakeFreshStep, MarkStep

\* The end of a write's last transfer (lv_parwrite_done, lv_seqwrite).
LEMMA WriteEndStep ==
  ASSUME IInv, NEW t, NEW r, Handled(t, r), r.busy = {},
         NEW mask \in SUBSET Present, WriteEnd(t, r, mask)
  PROVE  Safe
<1>1. CASE StalePp(t, r, mask \cup r.avoid)
  <2>1. mask \cup r.avoid \in SUBSET Present
    BY DEF Handled, Request
  <2> QED
    BY <1>1, <2>1, StalePpStep
<1>2. CASE Terminate(t, r, lx) /\ UNCHANGED <<marks, panic>>
  BY <1>2, TerminateEnds DEF Safe
<1> QED
  BY <1>1, <1>2 DEF WriteEnd

-----------------------------------------------------------------------------
(* The parallel policy.                                                    *)

\* lv_parallel, for a write.
LEMMA ParWriteStep ==
  ASSUME IInv, NEW t \in Track, ParWrite(t)
  PROVE  Safe
<1> DEFINE r == req[t]
<1>1. Handled(t, r) /\ r.pc = "pending" /\ r.busy = {}
  BY DEF ParWrite, IInv, ReqInv, ReqOk, Handled, BusyPcs
<1>2. UNCHANGED marks /\ panic' = panic
  BY DEF ParWrite
<1>3. CASE Targets(r) = {}
  <2>1. Terminate(t, [r EXCEPT !.error = TRUE], lx)
    BY <1>3 DEF ParWrite
  <2>2. Handled(t, [r EXCEPT !.error = TRUE])
    BY <1>1 DEF Handled, Request
  <2> QED
    BY <1>2, <2>1, <2>2, TerminateEnds DEF Safe
<1>4. CASE Targets(r) # {}
  <2> DEFINE s == [r EXCEPT !.pc = "starting", !.todo = Targets(r), !.act = Targets(r),
                            !.done = Mirror, !.avoid = Present \cap missing]
  <2>1. req' = [req EXCEPT ![t] = s] /\ UNCHANGED <<lx, syncx>>
    BY <1>4 DEF ParWrite
  <2>2. Targets(r) \in SUBSET Present
    BY DEF Targets
  <2>3. s \in Request /\ ReqOk(s) /\ s.sync = r.sync
    BY <1>1, <1>4, <2>2 DEF Handled, Request, ReqOk, Pcs
  <2> HIDE DEF s
  <2> QED
    BY <1>1, <1>2, <2>1, <2>3, GoesOn DEF Handled, IInv, ReqInv, SyncOk, marks, Safe
<1> QED
  BY <1>3, <1>4

\* lv_parwrite_done: one of the transfers has ended, or the last of them.
LEMMA ParWriteDoneStep ==
  ASSUME IInv, NEW t, NEW r, Handled(t, r), r.pc = "starting" => r.todo # {},
         r.pc \in {"starting", "parwrite"}, NEW m \in r.busy, NEW failed \in BOOLEAN,
         ParWriteDone(t, r, m, failed)
  PROVE  Safe
<1> DEFINE bad == IF failed THEN r.bad[m] \cup {m} ELSE r.bad[m]
<1>1. m \in Present /\ m \in Mirror /\ bad \in SUBSET Present
  BY Masks DEF Handled, Request
<1>2. CASE r.todo \cup r.busy = {m}
  <2>1. WriteEnd(t, [r EXCEPT !.busy = {}], bad)
    BY <1>2 DEF ParWriteDone
  <2> HIDE DEF bad
  <2>2. Handled(t, [r EXCEPT !.busy = {}]) /\ [r EXCEPT !.busy = {}].busy = {}
    BY DEF Handled, Request
  <2> QED
    BY <1>1, <2>1, <2>2, WriteEndStep
<1>3. CASE r.todo \cup r.busy # {m}
  <2> DEFINE f == Forw(r, m)
             s == [r EXCEPT !.busy = @ \ {m}, !.bad[f] = @ \cup bad]
  <2>1. /\ req' = [req EXCEPT ![t] = s] /\ UNCHANGED <<stale, changing, lx, syncx>>
        /\ panic' = panic
    BY <1>3 DEF ParWriteDone, marks
  <2>2. f \in Mirror
    <3> DEFINE others == (r.todo \cup r.busy) \ {m}
               after  == {k \in others : k > m}
    <3>1. others \in SUBSET Mirror /\ others # {} /\ after \in SUBSET Mirror
      BY <1>3, Masks DEF Handled, Request
    <3> HIDE DEF others, after
    <3>2. f = IF after # {} THEN Min(after) ELSE Min(others)
      BY DEF f, Forw, others, after
    <3> QED
      BY <3>1, <3>2, MinIn
  <2> HIDE DEF f, bad
  <2>3. s \in Request /\ ReqOk(s) /\ s.sync = r.sync
    <3>1. [r.bad EXCEPT ![f] = @ \cup bad] \in [Mirror -> SUBSET Present]
      BY <1>1, <2>2 DEF Handled, Request
    <3> QED
      BY <3>1 DEF Handled, Request, ReqOk, BusyPcs
  <2> HIDE DEF s
  <2> QED
    BY <2>1, <2>3, GoesOn DEF Handled, IInv, ReqInv, SyncOk, Safe
<1> QED
  BY <1>2, <1>3

\* The loop of lv_parallel begins the next pbuf.
LEMMA StartNextStep ==
  ASSUME IInv, NEW t \in Track, StartNext(t)
  PROVE  Safe
<1> DEFINE m  == First(req[t].todo)
           r0 == [req[t] EXCEPT !.todo = @ \ {m}, !.busy = @ \cup {m}, !.bad[m] = {}]
           r  == IF r0.todo = {} THEN [r0 EXCEPT !.pc = "parwrite"] ELSE r0
<1>1. req[t] \in Request /\ ReqOk(req[t]) /\ req[t].pc = "starting"
  BY DEF StartNext, IInv, ReqInv
<1>2. m \in req[t].todo /\ m \in Present /\ m \in Mirror
  <2>1. req[t].todo \in SUBSET Mirror /\ req[t].todo # {} /\ req[t].todo \in SUBSET Present
    BY <1>1, Masks DEF Request, ReqOk
  <2> QED
    BY <2>1, MinIn DEF First
<1> HIDE DEF m
<1>3. /\ r0 \in Request /\ r0.sync = req[t].sync /\ r0.op = req[t].op
      /\ r0.pc = "starting" /\ r0.todo \cup r0.busy \subseteq r0.act /\ m \in r0.busy
  <2>1. [req[t].bad EXCEPT ![m] = {}] \in [Mirror -> SUBSET Present]
    BY <1>1, <1>2 DEF Request
  <2> QED
    BY <1>1, <1>2, <2>1 DEF Request, ReqOk
<1>4. r0.op # "idle"
  BY <1>1, <1>3 DEF ReqOk
<1> HIDE DEF r0
<1>5. /\ Handled(t, r) /\ ReqOk(r) /\ r.pc \in {"starting", "parwrite"} /\ m \in r.busy
  BY <1>3, <1>4 DEF Handled, ReqOk, Request, Pcs, BusyPcs
<1> HIDE DEF r
<1>6. CASE req' = [req EXCEPT ![t] = r] /\ UNCHANGED <<marks, lx, syncx, answer, panic>>
  BY <1>5, <1>6, GoesOn DEF Handled, IInv, ReqInv, SyncOk, Safe, marks
<1>7. CASE /\ UNCHANGED <<req, marks, lx, syncx>> /\ m \in Known
           /\ panic' = "pbuf begun twice"
  BY <1>7, Unmoved DEF Near, Safe
<1>8. CASE ParWriteDone(t, r, m, TRUE)
  BY <1>5, <1>8, ParWriteDoneStep DEF ReqOk
<1> QED
  <2>1. IF m \in Known
        THEN IF r.todo = {} /\ First(r.act) \in r.busy \ {m}
             THEN /\ panic' = "pbuf begun twice"
                  /\ UNCHANGED <<req, marks, lx, syncx, answer>>
             ELSE ParWriteDone(t, r, m, TRUE)
        ELSE /\ req' = [req EXCEPT ![t] = r]
             /\ UNCHANGED <<marks, lx, syncx, answer, panic>>
    BY DEF StartNext, r, r0, m
  <2> QED
    BY <1>6, <1>7, <1>8, <2>1

-----------------------------------------------------------------------------
(* Reads, and the sequential policy.                                       *)

\* lv_bestmir takes a mirror that can be read, or the request fails.
LEMMA BestMirStep ==
  ASSUME IInv, NEW t, NEW r, Handled(t, r), BestMir(t, r)
  PROVE  Safe
<1> DEFINE d == r.done \cup (Present \cap Unfit)
           s == [r EXCEPT !.done = d]
<1>1. d \in SUBSET Mirror
  BY Masks DEF Handled, Request
<1>2. \/ Eio(t, s)
      \/ \E m \in Present : Transfer(t, [s EXCEPT !.done = @ \cup {m}], m, "parread")
  BY DEF BestMir
<1> HIDE DEF d
<1>3. Handled(t, s)
  BY <1>1 DEF Handled, Request
<1>4. \A m \in Present : Handled(t, [s EXCEPT !.done = @ \cup {m}])
  BY <1>1, Masks DEF Handled, Request
<1> HIDE DEF s
<1>5. CASE Eio(t, s)
  BY <1>3, <1>5, EioStep DEF Safe
<1>6. ASSUME NEW m \in Present, Transfer(t, [s EXCEPT !.done = @ \cup {m}], m, "parread")
      PROVE  Safe
  BY <1>4, <1>6, TransferStep DEF Safe, BusyPcs
<1> QED
  BY <1>2, <1>5, <1>6

\* lv_parallel, for a read.
LEMMA ParReadStep ==
  ASSUME IInv, NEW t \in Track, ParRead(t)
  PROVE  Safe
<1>1. Handled(t, req[t])
  BY DEF ParRead, IInv, ReqInv, ReqOk, Handled
<1> QED
  BY <1>1, BestMirStep DEF ParRead

\* lv_nextmir passes over mirrors.
LEMMA SeenStep ==
  ASSUME IInv, NEW t, NEW r, Handled(t, r)
  PROVE  Handled(t, Seen(r)) /\ Seen(r).busy = r.busy /\ Seen(r).bad = r.bad
<1> DEFINE seen == NextMir(r).seen
           a == IF Write(r) THEN r.avoid \cup ((seen \cap missing) \ Hole) ELSE r.avoid
<1>1. seen \in SUBSET Mirror
  BY DEF NextMir
<1>2. Seen(r) = [r EXCEPT !.done = @ \cup seen, !.avoid = a]
  BY DEF Seen, Handled, Request
<1> HIDE DEF seen
<1>3. a \in SUBSET Present
  BY DEF Handled, Request, IInv, DataInv
<1> HIDE DEF a
<1> QED
  BY <1>1, <1>2, <1>3 DEF Handled, Request

\* lv_sequential.
LEMMA SequentialStep ==
  ASSUME IInv, NEW t \in Track, Sequential(t)
  PROVE  Safe
<1>1. PICK left \in SUBSET Present :
        LET r == [req[t] EXCEPT !.avoid = left] IN
        IF Found(r)
        THEN Transfer(t, Seen(r), NextMir(r).m, IF Write(r) THEN "seqwrite" ELSE "seqread")
        ELSE Eio(t, Seen(r))
  BY DEF Sequential
<1> DEFINE r == [req[t] EXCEPT !.avoid = left]
<1>2. Handled(t, r)
  <2>1. req[t] \in Request /\ ReqOk(req[t]) /\ req[t].op # "idle"
    BY DEF Sequential, IInv, ReqInv, ReqOk
  <2> QED
    BY <2>1 DEF Handled, Request, ReqOk
<1>3. IF Found(r)
      THEN Transfer(t, Seen(r), NextMir(r).m, IF Write(r) THEN "seqwrite" ELSE "seqread")
      ELSE Eio(t, Seen(r))
  BY <1>1
<1> HIDE DEF r
<1>4. Handled(t, Seen(r))
  BY <1>2, SeenStep
<1>5. CASE Found(r)
  BY <1>3, <1>4, <1>5, TransferStep DEF Found, BusyPcs, Safe
<1>6. CASE ~Found(r)
  BY <1>3, <1>4, <1>6, EioStep DEF Safe
<1> QED
  BY <1>5, <1>6

\* lv_sequential, after the write of a mirror.
LEMMA SeqWriteStep ==
  ASSUME IInv, NEW t, NEW r0, Handled(t, r0), NEW m \in Present, NEW failed \in BOOLEAN,
         SeqWrite(t, r0, m, failed)
  PROVE  Safe
<1> DEFINE b == IF failed THEN r0.bad[0] \cup {m} ELSE r0.bad[0]
           r == [r0 EXCEPT !.bad[0] = b, !.busy = {}]
<1>1. [r0.bad EXCEPT ![0] = b] \in [Mirror -> SUBSET Present]
  BY Masks DEF Handled, Request
<1>2. r = [r0 EXCEPT !.bad[0] = IF failed THEN @ \cup {m} ELSE @, !.busy = {}]
  BY Masks DEF Handled, Request
<1>3. IF Found(r) THEN Transfer(t, Seen(r), NextMir(r).m, "seqwrite")
      ELSE WriteEnd(t, Seen(r), Seen(r).bad[0])
  BY <1>2 DEF SeqWrite
<1> HIDE DEF b
<1>4. Handled(t, r) /\ r.busy = {}
  BY <1>1 DEF Handled, Request
<1> HIDE DEF r
<1>5. Handled(t, Seen(r)) /\ Seen(r).busy = {}
  BY <1>4, SeenStep
<1>6. CASE Found(r)
  BY <1>3, <1>5, <1>6, TransferStep DEF Found, BusyPcs, Safe
<1>7. CASE ~Found(r)
  <2>1. Seen(r).bad[0] \in SUBSET Present
    BY <1>5, Masks DEF Handled, Request
  <2> QED
    BY <1>3, <1>5, <1>7, <2>1, WriteEndStep
<1> QED
  BY <1>6, <1>7

\* lv_fixup: the next mirror is repaired, or the read is answered.
LEMMA FixupStep ==
  ASSUME IInv, NEW t, NEW r, Handled(t, r), Fixup(t, r)
  PROVE  Safe
<1> DEFINE fit  == r.bad[0] \ (stale \cup missing)
           m    == First(fit)
           left == {k \in r.bad[0] : k > m}
           s    == [r EXCEPT !.bad[0] = left]
<1>1. r.bad[0] \in SUBSET Present
  BY Masks DEF Handled, Request
<1>2. CASE Terminate(t, r, lx) /\ UNCHANGED <<marks, panic>>
  BY <1>2, TerminateEnds DEF Safe
<1>3. CASE /\ m \in Known /\ panic' = "lv_validblk returned false on fixup"
           /\ UNCHANGED <<marks, req, lx, syncx>>
  BY <1>3, Unmoved DEF Near, Safe
<1>4. CASE fit # {} /\ Transfer(t, s, m, "fixup")
  <2>1. m \in Present
    <3>1. fit \in SUBSET Mirror /\ fit \in SUBSET Present
      BY <1>1, Masks
    <3> QED
      BY <1>4, <3>1, MinIn DEF First
  <2>2. Handled(t, s)
    <3>1. [r.bad EXCEPT ![0] = left] \in [Mirror -> SUBSET Present]
      BY <1>1 DEF Handled, Request
    <3> QED
      BY <3>1 DEF Handled, Request
  <2> QED
    BY <1>4, <2>1, <2>2, TransferStep DEF BusyPcs, Safe
<1> QED
  BY <1>2, <1>3, <1>4 DEF Fixup

\* lv_parread_done and lv_seqread_done.
LEMMA ReadDoneStep ==
  ASSUME IInv, NEW t, NEW r0, Handled(t, r0), NEW m \in Present, NEW res,
         r0.pc \in {"parread", "seqread"}, ReadDone(t, r0, m, res),
         r0.pc = "seqread" /\ Known = {} /\ "seqread" \in Spared => res = "ok"
  PROVE  Safe
<1> DEFINE b == IF res = "EMEDIA" THEN r0.bad[0] \cup {m} ELSE r0.bad[0]
           r == [r0 EXCEPT !.busy = {}, !.bad[0] = b]
           s == [r EXCEPT !.val = copy[m][t]]
<1>1. [r0.bad EXCEPT ![0] = b] \in [Mirror -> SUBSET Present]
  BY Masks DEF Handled, Request
<1>2. r = [r0 EXCEPT !.busy = {}, !.bad[0] = IF res = "EMEDIA" THEN @ \cup {m} ELSE @]
  BY Masks DEF Handled, Request
<1>3. IF res = "ok" THEN Fixup(t, s)
      ELSE IF r.pc = "parread" THEN BestMir(t, r)
      ELSE /\ panic' = "lv_nextmir without a pbuf"
           /\ UNCHANGED <<marks, req, lx, syncx, answer>>
  BY <1>2 DEF ReadDone
<1> HIDE DEF b
<1>4. Handled(t, r) /\ r.pc = r0.pc
  BY <1>1 DEF Handled, Request
<1> HIDE DEF r
<1>5. CASE res = "ok"
  <2>1. copy[m][t] \in Value
    BY Masks DEF IInv, DataInv, Handled
  <2>2. Handled(t, s)
    BY <1>4, <2>1 DEF Handled, Request
  <2> QED
    BY <1>3, <1>5, <2>2, FixupStep
<1>6. CASE res # "ok" /\ r.pc = "parread"
  BY <1>3, <1>4, <1>6, BestMirStep
<1>7. CASE res # "ok" /\ r.pc # "parread"
  <2>1. "lv_nextmir without a pbuf" \in Near
    BY <1>4, <1>7 DEF Near
  <2> QED
    BY <1>3, <1>7, <2>1, Unmoved DEF Safe
<1> QED
  BY <1>5, <1>6, <1>7

-----------------------------------------------------------------------------
(* The disks, and what comes and goes.                                     *)

\* lv_end calls pb_sched.
LEMMA TransferDoneStep ==
  ASSUME IInv, NEW t \in Track, NEW m \in Mirror, TransferDone(t, m)
  PROVE  Safe /\ copy' \in [Mirror -> [Track -> Value]]
<1> DEFINE r == req[t]
<1>1. r \in Request /\ ReqOk(r) /\ m \in r.busy
  BY DEF TransferDone, IInv, ReqInv
<1>2. Handled(t, r) /\ m \in Present /\ r.pc \in BusyPcs
  BY <1>1 DEF Handled, Request, ReqOk
<1>3. PICK res \in IF m \in Known THEN {"EMEDIA"} ELSE Result(t, m),
           v \in IF Write(r) THEN {r.val, copy[m][t]} ELSE {copy[m][t]} :
           copy' = [copy EXCEPT ![m][t] = v] /\ End(t, m, res)
  BY DEF TransferDone
<1>4. copy' \in [Mirror -> [Track -> Value]]
  <2>1. v \in Value
    BY <1>1 DEF Request, IInv, DataInv
  <2> QED
    BY <1>3, <2>1 DEF IInv, DataInv
<1>5. CASE r.pc \in {"starting", "parwrite"}
  <2>1. ParWriteDone(t, r, m, res # "ok")
    BY <1>3, <1>5 DEF End
  <2>2. (res # "ok") \in BOOLEAN
    OBVIOUS
  <2> QED
    BY <1>1, <1>2, <1>4, <1>5, <2>1, <2>2, ParWriteDoneStep DEF ReqOk
<1>6. CASE r.pc = "seqwrite"
  <2>1. SeqWrite(t, r, m, res # "ok")
    BY <1>3, <1>6 DEF End
  <2>2. (res # "ok") \in BOOLEAN
    OBVIOUS
  <2> QED
    BY <1>2, <1>4, <2>1, <2>2, SeqWriteStep
<1>7. CASE r.pc \in {"parread", "seqread"}
  <2>1. ReadDone(t, r, m, res)
    BY <1>3, <1>7 DEF End
  <2>2. r.pc = "seqread" /\ Known = {} /\ "seqread" \in Spared => res = "ok"
    BY <1>3 DEF Result
  <2> HIDE DEF r
  <2> QED
    BY <1>2, <1>4, <1>7, <2>1, <2>2, ReadDoneStep
<1>8. CASE r.pc = "fixup"
  <2> DEFINE x == IF res = "ok" THEN copy[m][t] ELSE r.val
             s == [r EXCEPT !.val = x, !.busy = {}]
  <2>1. x \in Value
    BY <1>1 DEF Request, IInv, DataInv
  <2>2. s = [r EXCEPT !.val = IF res = "ok" THEN copy[m][t] ELSE @, !.busy = {}]
    BY <1>1 DEF Request
  <2>3. Fixup(t, s)
    BY <1>3, <1>8, <2>2 DEF End
  <2> HIDE DEF x
  <2>4. Handled(t, s)
    BY <1>2, <2>1 DEF Handled, Request
  <2> HIDE DEF s
  <2> QED
    BY <1>4, <2>3, <2>4, FixupStep
<1> QED
  BY <1>2, <1>5, <1>6, <1>7, <1>8 DEF BusyPcs

\* lv_stalepp_done.
LEMMA SaDoneStep ==
  ASSUME IInv, NEW t \in Track, SaDone(t)
  PROVE  Safe
<1>1. req[t] \in Request /\ Terminate(t, req[t], lx) /\ stale' = stale /\ panic' = panic
  BY DEF SaDone, IInv, ReqInv
<1>2. lx \in Lx /\ lx.msk \subseteq stale' /\ stale' \subseteq Present
  BY <1>1 DEF IInv, ReqInv, SyncOk
<1>3. changing' \subseteq Present
  BY DEF SaDone, IInv, ReqInv
<1> QED
  BY <1>1, <1>2, <1>3, TerminateStep DEF Safe

\* A request comes.
LEMMA SubmitStep ==
  ASSUME IInv, NEW t \in Track, Submit(t)
  PROVE  Safe
<1>1. PICK r \in [op : {"read"}, val : {NoReq.val}] \cup [op : {"write"}, val : Value] :
        req' = [req EXCEPT ![t] = [NoReq EXCEPT !.op = r.op, !.val = r.val, !.pc = "pending",
                                      !.was = IF Write(r) THEN held[t] ELSE {}]]
  BY DEF Submit
<1> DEFINE was == IF Write(r) THEN held[t] ELSE {}
           s == [NoReq EXCEPT !.op = r.op, !.val = r.val, !.pc = "pending", !.was = was]
<1>2. was \in SUBSET Value
  BY DEF IInv, DataInv
<1>3. r.op \in {"read", "write"} /\ r.val \in Value
  BY NoReqType DEF IInv, DataInv, Request
<1>4. req' = [req EXCEPT ![t] = s]
  BY <1>1
<1> HIDE DEF was
<1>5. s \in Request /\ ReqOk(s) /\ s.sync = FALSE
  BY <1>2, <1>3, NoReqType DEF Request, ReqOk, Pcs, IInv, DataInv
<1> HIDE DEF s
<1>6. req[t].sync = FALSE
  BY DEF Submit, Idle, IInv, ReqInv, ReqOk, Request
<1>7. UNCHANGED <<stale, changing, lx, syncx, panic>>
  BY DEF Submit, marks
<1> QED
  BY <1>4, <1>5, <1>6, <1>7, GoesOn DEF IInv, ReqInv, SyncOk, Safe

\* lv_syncx asks for the next track, and lv_initiate finds it where it should be.
LEMMA SyncReadStep ==
  ASSUME IInv, SyncRead
  PROVE  Safe
<1> DEFINE t == IF syncx = NTrack THEN 0 ELSE syncx
           l == IF lx.trk = -1 THEN [trk |-> t, msk |-> SyncMask, err |-> {}]
                ELSE [lx EXCEPT !.trk = t]
           s == [NoReq EXCEPT !.op = "read", !.sync = TRUE, !.pc = "pending"]
<1>1. /\ Idle(t) /\ UNCHANGED <<stale, changing>>
      /\ \/ /\ l.msk = {} /\ lx' = [l EXCEPT !.trk = IF t = Last THEN -1 ELSE t]
            /\ syncx' = t + 1 /\ UNCHANGED <<req, panic>>
         \/ /\ req' = [req EXCEPT ![t] = s] /\ lx' = l /\ syncx' = t
            /\ panic' = IF lx.trk \notin {-1, t - 1} THEN "lv_initiate resync read"
                        ELSE panic
  BY DEF SyncRead, marks
<1>2. t \in Track
  BY Masks DEF IInv, ReqInv, Track
<1>3. l \in Lx /\ l.trk = t /\ l.msk \subseteq stale
  <2>1. SyncMask \subseteq stale /\ SyncMask \subseteq Present
    BY DEF SyncMask
  <2> QED
    BY <1>2, <2>1 DEF Lx, IInv, ReqInv, SyncOk
<1>4. \A k \in Track : ~req[k].sync
  BY <1>1, <1>2, Masks DEF Idle, IInv, ReqInv, SyncOk, ReqOk
<1>5. lx.trk \in {-1, t - 1}
  BY <1>2, <1>4, Masks DEF IInv, ReqInv, SyncOk
<1>6. s \in Request /\ ReqOk(s) /\ s.sync = TRUE
  BY NoReqType DEF Request, ReqOk, Pcs, IInv, DataInv
<1> HIDE DEF t, l, s
<1>7. panic' = panic
  BY <1>1, <1>5
<1>8. lx' \in Lx /\ lx'.msk = l.msk /\ syncx' \in 0 .. NTrack
  <2>1. CASE lx' = l /\ syncx' = t
    BY <1>2, <1>3, <2>1, Masks DEF Track
  <2>2. CASE lx' = [l EXCEPT !.trk = IF t = Last THEN -1 ELSE t] /\ syncx' = t + 1
    BY <1>2, <1>3, <2>2, Masks DEF Lx
  <2> QED
    BY <1>1, <2>1, <2>2
<1>9. req' \in [Track -> Request] /\ \A k \in Track : ReqOk(req'[k])
  BY <1>1, <1>6 DEF IInv, ReqInv
<1>10. SyncOk'
  <2>1. CASE req' = req /\ lx'.trk = (IF t = Last THEN -1 ELSE t) /\ syncx' = t + 1
    <3>1. t = Last => t + 1 = NTrack
      BY Masks DEF Last
    <3>2. t # Last => t + 1 \in Track /\ (t + 1) - 1 = t /\ t # t + 1
      BY <1>2, Masks
    <3>3. lx'.msk \subseteq stale' /\ \A k \in Track : ~req'[k].sync
      BY <1>1, <1>3, <1>4, <1>8, <2>1
    <3>4. CASE t = Last
      BY <2>1, <3>1, <3>3, <3>4 DEF SyncOk
    <3>5. CASE t # Last
      BY <2>1, <3>2, <3>3, <3>5 DEF SyncOk
    <3> QED
      BY <3>4, <3>5
  <2>2. CASE req' = [req EXCEPT ![t] = s] /\ lx' = l /\ syncx' = t
    <3>1. req'[t].sync /\ \A k \in Track : k # t => ~req'[k].sync
      BY <1>2, <1>4, <1>6, <2>2 DEF IInv, ReqInv
    <3> QED
      BY <1>1, <1>2, <1>3, <2>2, <3>1 DEF SyncOk
  <2> QED
    BY <1>1, <1>3, <2>1, <2>2 DEF Lx
<1>11. \A k \in Track : ReqOk(req[k])'
  BY <1>9 DEF ReqOk
<1> QED
  BY <1>1, <1>7, <1>8, <1>9, <1>10, <1>11 DEF Safe, ReqInv, IInv

\* What the fresh mirrors held.
LEMMA Remembered ==
  ASSUME IInv, copy' \in [Mirror -> [Track -> Value]], Remember
  PROVE  held' \in [Track -> SUBSET Value]
<1>1. ASSUME NEW t \in Track
      PROVE  Fresh(t)' \subseteq Value
  BY Masks DEF Fresh
<1>2. ASSUME NEW t \in Track
      PROVE  held[t] \subseteq Value /\ req[t].val \in Value /\ req[t].was \subseteq Value
  BY DEF IInv, DataInv, ReqInv, Request
<1> QED
  BY <1>1, <1>2 DEF Remember

-----------------------------------------------------------------------------
(* The invariant.                                                          *)

\* At the start nothing is asked for and no resynchronisation is under way.
LEMMA Initially ==
  ASSUME Init
  PROVE  IInv /\ panic = "no"
<1>1. Value # {} /\ copy \in [Mirror -> [Track -> Value]] /\ stale \subseteq Present
  <2>1. PICK v \in Value, w \in Value :
          copy = [m \in Mirror |-> [t \in Track |-> IF m \in stale THEN w ELSE v]]
    BY DEF Init
  <2> QED
    BY <2>1 DEF Init
<1>2. held \in [Track -> SUBSET Value]
  <2>1. \A t \in Track : Fresh(t) \subseteq Value
    BY <1>1, Masks DEF Fresh
  <2> QED
    BY <2>1 DEF Init
<1>3. req \in [Track -> Request] /\ \A t \in Track : ReqOk(req[t]) /\ ~req[t].sync
  BY <1>1, NoReqType DEF Init
<1>4. lx \in Lx /\ syncx \in 0 .. NTrack /\ lx.msk = {} /\ lx.trk = -1 /\ syncx = NTrack
  BY Masks DEF Init, Lx
<1> QED
  BY <1>1, <1>2, <1>3, <1>4 DEF Init, IInv, ReqInv, DataInv, SyncOk

\* Every step keeps the invariant, and reaches no panic but those that are near.
LEMMA Invariance ==
  ASSUME IInv, [Next]_vars
  PROVE  IInv' /\ panic' \in {panic} \cup Near
<1>1. CASE UNCHANGED vars
  BY <1>1, Unmoved DEF vars, disks, IInv, DataInv
<1>2. ASSUME Safe, copy' \in [Mirror -> [Track -> Value]], missing' \subseteq Present, Remember
      PROVE  IInv' /\ panic' \in {panic} \cup Near
  BY <1>2, Remembered DEF Safe, IInv, DataInv
<1>3. missing \subseteq Present /\ copy \in [Mirror -> [Track -> Value]]
  BY DEF IInv, DataInv
<1>4. ASSUME NEW t \in Track, Submit(t), Remember
      PROVE  IInv' /\ panic' \in {panic} \cup Near
  BY <1>2, <1>3, <1>4, SubmitStep DEF Submit, disks
<1>5. ASSUME NEW t \in Track, Step(t), Remember
      PROVE  IInv' /\ panic' \in {panic} \cup Near
  <2>1. CASE ParWrite(t)
    BY <1>2, <1>3, <1>5, <2>1, ParWriteStep DEF ParWrite, disks
  <2>2. CASE StartNext(t)
    BY <1>2, <1>3, <1>5, <2>2, StartNextStep DEF StartNext, disks
  <2>3. CASE ParRead(t)
    BY <1>2, <1>3, <1>5, <2>3, ParReadStep DEF ParRead, disks
  <2>4. CASE Sequential(t)
    BY <1>2, <1>3, <1>5, <2>4, SequentialStep DEF Sequential, disks
  <2>5. CASE SaDone(t)
    BY <1>2, <1>3, <1>5, <2>5, SaDoneStep DEF SaDone, disks
  <2>6. ASSUME NEW m \in Mirror, TransferDone(t, m)
        PROVE  IInv' /\ panic' \in {panic} \cup Near
    BY <1>2, <1>3, <1>5, <2>6, TransferDoneStep DEF TransferDone
  <2> QED
    BY <1>5, <2>1, <2>2, <2>3, <2>4, <2>5, <2>6 DEF Step
<1>6. CASE SyncRead /\ Remember
  BY <1>2, <1>3, <1>6, SyncReadStep DEF SyncRead, disks
<1>7. CASE LoseQuorum /\ Remember
  BY <1>2, <1>3, <1>7, Unmoved DEF LoseQuorum, disks, Safe
<1>8. ASSUME NEW m \in Mirror, GoMissing(m) \/ Attach(m), Remember
      PROVE  IInv' /\ panic' \in {panic} \cup Near
  BY <1>2, <1>3, <1>8, Unmoved DEF GoMissing, Attach, disks, Safe
<1> QED
  BY <1>1, <1>4, <1>5, <1>6, <1>7, <1>8 DEF Next

\* Type correctness: of the masks, of the requests on their way through the policies,
\* and of the state of the resynchronisation (lx_synctrk, lx_syncmsk, lx_syncerr).
THEOREM TypeCorrect == Spec => []TypeOK
<1>1. Init => IInv
  BY Initially
<1>2. IInv /\ [Next]_vars => IInv'
  BY Invariance
<1>3. IInv => TypeOK
  BY DEF IInv, ReqInv, DataInv, ReqOk, Request, Lx, TypeOK
<1> QED
  BY <1>1, <1>2, <1>3, PTL DEF Spec

\* Whatever fails, goes missing or is marked stale: a resynchronisation goes on at the
\* track after the last one (lv_initiate), and writes to stale mirrors only, so that
\* lv_stalepp finds those it makes fresh stale.  Only the panics of Near are left, which
\* need a bad block that cannot be relocated, or a read that fails under lv_sequential.
THEOREM FewPanics == Spec => [](panic \in {"no"} \cup Near)
<1> DEFINE Inv == IInv /\ panic \in {"no"} \cup Near
<1>1. Init => Inv
  BY Initially
<1>2. Inv /\ [Next]_vars => Inv'
  <2>1. Near' = Near
    BY DEF Near
  <2> QED
    BY <2>1, Invariance
<1> QED
  BY <1>1, <1>2, PTL DEF Spec

\* So lv_stalepp, lv_initiate, lv_begin and lv_seqread_done do not panic where no bad
\* block is known and the sequential policy meets no read that fails; a transfer that
\* fails early, a PV that goes missing during a resynchronisation, a resynchronisation
\* under the sequential policy and what a pbuf has left over are all allowed.
THEOREM NoPanicReached ==
  ASSUME Known = {}, "seqread" \in Spared
  PROVE  Spec => []NoPanic
<1>1. panic \in {"no"} \cup Near => NoPanic
  BY DEF Near, NoPanic
<1> QED
  BY <1>1, FewPanics, PTL

-----------------------------------------------------------------------------
(* LvSchedule implements LvBlock, and a write that is answered is safe     *)
(* from a crash.  Both need what the code does not ensure (Benign).        *)

\* Each mirror is allocated, no bad block is known that cannot be relocated, no transfer
\* fails while lv_parallel still starts others, there is no resynchronisation under the
\* sequential policy, and no PV is missing during one.
Benign == Hole = {} /\ Known = {} /\ {"early", "seqsync", "gone"} \subseteq Spared

-----------------------------------------------------------------------------
(* The invariant.                                                          *)

Writing(t) == Write(req[t]) /\ ~req[t].sync

\* The stale mirrors that the resynchronisation under way has caught up on track t;
\* with the fresh ones, those whose contents count.
Caught(t) == IF syncx \in Track /\ t < syncx THEN lx.msk \ lx.err ELSE {}
Good(t) == (Present \ stale) \cup Caught(t)

Waiting(t) == req[t].pc = "vgsa"

ReadPcs == {"pending", "parread", "seqread", "fixup"}
WritePcs == {"pending", "starting", "parwrite", "seqwrite", "vgsa"}

Shape(t) ==
    LET r == req[t] IN
    /\ r.op = "read" => r.pc \in ReadPcs
    /\ r.op = "write" => r.pc \in WritePcs
    /\ r.sync => r.pc \notin {"seqread", "seqwrite"} /\ policy # "sequential"
    /\ r.sync /\ (Write(r) \/ r.busy # {} \/ r.pc = "fixup") => lx.msk # Present
    /\ r.op # "idle" /\ ~r.sync => answer[t] = NoAnswer
    /\ Write(r) /\ r.pc = "pending" => r.done = {} /\ \A k \in Mirror : r.bad[k] = {}

\* A write under the parallel policy: a mirror is still to be written, or holds the
\* value, or has failed and is in the pb_mirbad of a transfer that has not ended.
ParWrites(t) ==
    LET r == req[t] IN
    r.pc \in {"starting", "parwrite"} =>
       /\ r.done = Mirror /\ r.todo \cap r.busy = {} /\ r.act # {}
       /\ r.pc = "starting" => \A k \in r.todo \cup r.busy : r.bad[k] = {}
       /\ r.pc = "parwrite" => r.todo = {}
       /\ \A k \in r.busy : r.bad[k] \subseteq r.act
       /\ \A m \in r.act : \/ m \in r.todo \cup r.busy
                           \/ copy[m][t] = r.val
                           \/ \E k \in r.busy : m \in r.bad[k]
       /\ r.sync => r.act = lx.msk /\ r.avoid = {}
       /\ ~r.sync => Present \subseteq r.act \cup r.avoid

\* Under the sequential policy: the same of the mirrors that are done.
SeqWrites(t) ==
    LET r == req[t] IN
    r.pc = "seqwrite" =>
       /\ r.act # {} /\ \A j, k \in r.busy : j = k
       /\ \A m \in r.done \cap Present :
             m \in r.busy \cup r.bad[0] \cup r.avoid \/ copy[m][t] = r.val

\* What the mirrors that count hold.  They agree, but while transfers of a write are
\* under way.
Agree(t) == \A m, n \in Good(t) : copy[m][t] = copy[n][t]
Contents(t) ==
    LET r == req[t] IN
    /\ held[t] # {} /\ (Fresh(t) # {} => held[t] = Fresh(t))
    /\ Writing(t) => /\ held[t] \subseteq r.was \cup {r.val}
                     /\ \A m \in Good(t) : copy[m][t] \in r.was \cup {r.val}
    /\ ~Writing(t) => \A m \in Good(t) : copy[m][t] \in held[t]
    /\ ~Writing(t) \/ r.pc \in {"pending", "vgsa"} => Agree(t)
    /\ Writing(t) /\ r.pc = "vgsa" /\ ~r.error => \A m \in Good(t) : copy[m][t] = r.val

\* What reads have found, and what a resynchronisation writes.
Finds(t) ==
    LET r == req[t] IN
    /\ r.pc \in {"parread", "seqread"} => \A m \in r.busy : held[t] = {copy[m][t]}
    /\ r.pc = "fixup" => held[t] = {r.val} /\ \A m \in r.busy : copy[m][t] = r.val
    /\ r.sync /\ Write(r) => held[t] = {r.val}
    /\ r.sync /\ r.pc = "vgsa" => \A m \in lx.msk \ lx.err : copy[m][t] = r.val

Own(t) == Shape(t) /\ ParWrites(t) /\ SeqWrites(t) /\ Contents(t) /\ Finds(t)

WheelOk ==
    /\ wheel \in Seq(Track)
    /\ \A i, j \in 1 .. Len(wheel) : wheel[i] = wheel[j] => i = j
    /\ \A i \in 1 .. Len(wheel) : Waiting(wheel[i])

ContentInv ==
    /\ IInv /\ WheelOk
    /\ answer \in [Track -> Block!Answers \cup {NoAnswer}]
    /\ syncx # NTrack => missing = {}
    /\ \A t \in Track : Own(t)

-----------------------------------------------------------------------------
(* What a step leaves alone, and what it does for LvBlock.                 *)

Kept(k) ==
    /\ req'[k] = req[k] /\ answer'[k] = answer[k]
    /\ \A m \in Mirror : copy'[m][k] = copy[m][k]
    /\ Good(k)' \subseteq Good(k)
    /\ req[k].sync => lx'.msk = lx.msk /\ lx.err \subseteq lx'.err

\* What LvBlock demands of the stored values of a track.
ShiftsAt(t) ==
    /\ held'[t] # {}
    /\ held'[t] \subseteq IF Writing(t) THEN req[t].was \cup {req[t].val} ELSE held[t]

\* A track is not answered, or is, and rightly.
Outcome(t) ==
    \/ Ask(req'[t]) = Ask(req[t]) /\ answer' = answer
    \/ /\ req[t].op # "idle" /\ ~req[t].sync /\ req'[t] = NoReq
       /\ \E a \in Block!Answers : /\ Block!Right(Ask(req[t]), held'[t], a)
                                   /\ answer' = [answer EXCEPT ![t] = a]

\* The wheel turns, or takes the request on.
WheelMoves(t) ==
    \/ wheel' = wheel /\ ~Waiting(t)
    \/ wheel' = Append(wheel, t) /\ ~Waiting(t) /\ Waiting(t)'
    \/ wheel # << >> /\ Head(wheel) = t /\ wheel' = Tail(wheel)

\* All that a step of request t is to show.
Stepped(t) ==
    /\ \A k \in Track \ {t} : Kept(k)
    /\ Own(t)' /\ ShiftsAt(t) /\ Outcome(t)
    /\ syncx = NTrack => syncx' = NTrack

\* And a step that does not touch the stale bits, and answers no write but with an error.
Plain(t) ==
    /\ Stepped(t) /\ UNCHANGED marks /\ ~Waiting(t)'
    /\ answer'[t] = answer[t] \/ answer'[t].op # "written"
    /\ lx'.msk = lx.msk /\ lx'.err = lx.err
    /\ syncx' # NTrack => syncx' = syncx /\ lx'.trk = lx.trk

\* The history variable, of a track that is not answered or is not being written.
LEMMA HeldSettled ==
  ASSUME NEW t \in Track, Remember, held[t] # {},
         answer'[t] = answer[t] \/ ~Write(req[t]), Agree(t)',
         \A m \in Good(t)' : copy'[m][t] \in held[t]
  PROVE  /\ held'[t] # {} /\ held'[t] \subseteq held[t]
         /\ Fresh(t)' # {} => held'[t] = Fresh(t)'
         /\ \A m \in Good(t)' : copy'[m][t] \in held'[t]
<1>1. held'[t] = IF Fresh(t)' # {} THEN Fresh(t)' ELSE held[t]
  BY DEF Remember
<1>2. Fresh(t)' = {copy'[m][t] : m \in Present \ stale'}
  BY DEF Fresh
<1>3. Present \ stale' \subseteq Good(t)'
  BY DEF Good
<1> QED
  BY <1>1, <1>2, <1>3 DEF Agree

\* Of one that is still being written.
LEMMA HeldWriting ==
  ASSUME NEW t \in Track, Remember, held[t] # {}, answer'[t] = answer[t],
         NEW S, held[t] \subseteq S, \A m \in Good(t)' : copy'[m][t] \in S
  PROVE  /\ held'[t] # {} /\ held'[t] \subseteq S
         /\ Fresh(t)' # {} => held'[t] = Fresh(t)'
<1>1. held'[t] = IF Fresh(t)' # {} THEN Fresh(t)' ELSE held[t]
  BY DEF Remember
<1>2. Fresh(t)' = {copy'[m][t] : m \in Present \ stale'}
  BY DEF Fresh
<1>3. Present \ stale' \subseteq Good(t)'
  BY DEF Good
<1> QED
  BY <1>1, <1>2, <1>3

\* Of one whose write is answered.
LEMMA HeldWritten ==
  ASSUME NEW t \in Track, Remember, Write(req[t]), answer'[t] # answer[t], Agree(t)',
         \A m \in Good(t)' : copy'[m][t] \in req[t].was \cup {req[t].val},
         answer'[t].op # "error" => \A m \in Good(t)' : copy'[m][t] = req[t].val
  PROVE  /\ held'[t] # {} /\ held'[t] \subseteq req[t].was \cup {req[t].val}
         /\ Fresh(t)' # {} => held'[t] = Fresh(t)'
         /\ \A m \in Good(t)' : copy'[m][t] \in held'[t]
         /\ answer'[t].op # "error" => held'[t] = {req[t].val}
<1>1. held'[t] = IF Fresh(t)' # {} THEN Fresh(t)'
                 ELSE {req[t].val} \cup (IF answer'[t].op = "error" THEN req[t].was ELSE {})
  BY DEF Remember
<1>2. Fresh(t)' = {copy'[m][t] : m \in Present \ stale'}
  BY DEF Fresh
<1>3. Present \ stale' \subseteq Good(t)'
  BY DEF Good
<1> QED
  BY <1>1, <1>2, <1>3 DEF Agree

\* A track that a step leaves alone.
LEMMA KeptStep ==
  ASSUME ContentInv, NEW k \in Track, Kept(k), policy' = policy, Remember
  PROVE  Own(k)' /\ ShiftsAt(k)
<1>1. Own(k) /\ \A m \in Good(k)' : m \in Good(k) /\ copy'[m][k] = copy[m][k]
  BY Masks DEF ContentInv, Kept, Good, Caught, IInv, ReqInv, Lx
<1>2. Writing(k)' = Writing(k) /\ req'[k] = req[k] /\ answer'[k] = answer[k]
  BY DEF Kept, Writing
<1>3. Agree(k) => Agree(k)'
  BY <1>1 DEF Agree
<1>4. Contents(k)' /\ ShiftsAt(k)
  <2>1. CASE Writing(k)
    <3>1. /\ held[k] # {} /\ held[k] \subseteq req[k].was \cup {req[k].val}
          /\ \A m \in Good(k)' : copy'[m][k] \in req[k].was \cup {req[k].val}
      BY <1>1, <2>1 DEF Own, Contents
    <3> DEFINE S == req[k].was \cup {req[k].val}
    <3>2. /\ held'[k] # {} /\ held'[k] \subseteq S
          /\ Fresh(k)' # {} => held'[k] = Fresh(k)'
      <4> HIDE DEF S
      <4>1. held[k] \subseteq S /\ \A m \in Good(k)' : copy'[m][k] \in S
        BY <3>1 DEF S
      <4> QED
        BY <1>2, <3>1, <4>1, HeldWriting
    <3> QED
      BY <1>1, <1>2, <1>3, <2>1, <3>1, <3>2 DEF Own, Contents, ShiftsAt
  <2>2. CASE ~Writing(k)
    <3>1. held[k] # {} /\ Agree(k)' /\ \A m \in Good(k)' : copy'[m][k] \in held[k]
      BY <1>1, <1>3, <2>2 DEF Own, Contents
    <3>2. /\ held'[k] # {} /\ held'[k] \subseteq held[k]
          /\ Fresh(k)' # {} => held'[k] = Fresh(k)'
          /\ \A m \in Good(k)' : copy'[m][k] \in held'[k]
      BY <1>2, <3>1, HeldSettled
    <3> QED
      BY <1>2, <2>2, <3>1, <3>2 DEF Contents, ShiftsAt
  <2> QED
    BY <2>1, <2>2
<1>5. req[k] \in Request /\ Present \subseteq Mirror /\ lx \in Lx
  BY Masks DEF ContentInv, IInv, ReqInv
<1>6. Finds(k)'
  <2>1. ASSUME NEW v, held[k] = {v}, ~Writing(k)
        PROVE  held'[k] = {v}
    BY <1>4, <2>1 DEF ShiftsAt
  <2>2. /\ req[k].pc \in {"parread", "seqread", "fixup"} => ~Writing(k)
        /\ req[k].sync => ~Writing(k)
    BY <1>1, <1>5 DEF Own, Shape, Writing, Write, ReadPcs, WritePcs
  <2>3. \A m \in req[k].busy : copy'[m][k] = copy[m][k]
    BY <1>5 DEF Kept, Request
  <2>4. req[k].sync => \A m \in lx'.msk \ lx'.err : /\ m \in lx.msk \ lx.err
                                                    /\ copy'[m][k] = copy[m][k]
    BY <1>5 DEF Kept, Lx
  <2>5. ASSUME req[k].pc \in {"parread", "seqread"}, NEW m \in req[k].busy
        PROVE  held'[k] = {copy'[m][k]}
    <3>1. held[k] = {copy[m][k]} /\ copy'[m][k] = copy[m][k]
      BY <1>1, <2>3, <2>5 DEF Own, Finds
    <3> QED
      BY <2>1, <2>2, <2>5, <3>1
  <2>6. ASSUME req[k].pc = "fixup"
        PROVE  held'[k] = {req[k].val} /\ \A m \in req[k].busy : copy'[m][k] = req[k].val
    <3>1. held[k] = {req[k].val} /\ \A m \in req[k].busy : copy[m][k] = req[k].val
      BY <1>1, <2>6 DEF Own, Finds
    <3> QED
      BY <2>1, <2>2, <2>3, <2>6, <3>1
  <2>7. req[k].sync /\ Write(req[k]) => held'[k] = {req[k].val}
    BY <1>1, <2>1, <2>2 DEF Own, Finds
  <2>8. req[k].sync /\ req[k].pc = "vgsa" => \A m \in lx'.msk \ lx'.err : copy'[m][k] = req[k].val
    BY <1>1, <2>4 DEF Own, Finds
  <2> QED
    BY <1>2, <2>5, <2>6, <2>7, <2>8 DEF Finds
<1>7. Shape(k)'
  BY <1>1, <1>2 DEF Kept, Own, Shape
<1>8. ParWrites(k)'
  <2>1. \A m \in req[k].act : copy'[m][k] = copy[m][k]
    BY <1>5 DEF Kept, Request
  <2> QED
    BY <1>1, <1>2, <2>1 DEF Kept, Own, ParWrites
<1>9. SeqWrites(k)'
  <2>1. \A m \in req[k].done \cap Present : copy'[m][k] = copy[m][k]
    BY <1>5 DEF Kept
  <2> QED
    BY <1>1, <1>2, <2>1 DEF Own, SeqWrites
<1> QED
  BY <1>4, <1>6, <1>7, <1>8, <1>9 DEF Own

\* The other tracks are left alone: mirrors become stale, or the resynchronisation
\* goes on to the next track.
LEMMA Elsewhere ==
  ASSUME ContentInv, NEW t \in Track,
         \A k \in Track \ {t} : req'[k] = req[k] /\ answer'[k] = answer[k],
         \A k \in Track \ {t}, m \in Mirror : copy'[m][k] = copy[m][k],
         stale \subseteq stale', lx'.msk \ lx'.err \subseteq lx.msk \ lx.err,
         ~req[t].sync => lx'.msk = lx.msk /\ lx.err \subseteq lx'.err,
         syncx' \in {syncx, NTrack} \/ (req[t].sync /\ syncx' = t + 1)
  PROVE  \A k \in Track \ {t} : Kept(k)
<1> TAKE k \in Track \ {t}
<1>1. req[k].sync => ~req[t].sync
  BY DEF ContentInv, IInv, ReqInv, SyncOk
<1>2. Caught(k)' \subseteq Caught(k)
  <2>1. CASE syncx' = syncx
    BY <2>1 DEF Caught
  <2>2. CASE syncx' = NTrack
    BY <2>2, Masks DEF Caught
  <2>3. CASE req[t].sync /\ syncx' = t + 1
    <3>1. t = syncx
      BY <2>3 DEF ContentInv, IInv, ReqInv, SyncOk
    <3>2. k < t + 1 => k < t
      BY Masks
    <3> QED
      BY <2>3, <3>1, <3>2 DEF Caught
  <2> QED
    BY <2>1, <2>2, <2>3
<1>3. Good(k)' \subseteq Good(k)
  BY <1>2 DEF Good
<1> QED
  BY <1>1, <1>3 DEF Kept

-----------------------------------------------------------------------------
(* Reads.                                                                  *)

\* A read, as a handler finds it.
Reading(t, r) ==
    /\ Handled(t, r) /\ r.op = "read" /\ req[t].op = "read"
    /\ copy' = copy /\ policy' = policy

\* Fresh mirrors hold what is stored.
LEMMA FreshHolds ==
  ASSUME ContentInv, NEW t \in Track, ~Writing(t), NEW m \in Present \ stale
  PROVE  held[t] = {copy[m][t]}
<1>1. m \in Good(t) /\ copy[m][t] \in Fresh(t)
  BY DEF Good, Fresh
<1>2. Agree(t) /\ held[t] = Fresh(t)
  BY <1>1 DEF ContentInv, Own, Contents
<1>3. Present \ stale \subseteq Good(t)
  BY DEF Good
<1> QED
  BY <1>1, <1>2, <1>3 DEF Agree, Fresh

\* A transfer of a fresh mirror is started.
LEMMA TransferRead ==
  ASSUME ContentInv, Remember, NEW t, NEW r, Reading(t, r), NEW m \in Present \ stale,
         NEW pc \in {"parread", "seqread", "fixup"}, Transfer(t, r, m, pc),
         pc = "seqread" => ~r.sync, pc = "fixup" => held[t] = {r.val}
  PROVE  Plain(t)
<1> DEFINE s == [r EXCEPT !.busy = {m}, !.act = @ \cup {m}, !.pc = pc]
<1>1. /\ req' = [req EXCEPT ![t] = s] /\ UNCHANGED <<marks, lx, syncx, answer>>
      /\ t \in Track /\ r \in Request /\ r.sync = req[t].sync
  BY DEF Transfer, Reading, Handled
<1>2. /\ s.op = "read" /\ s.pc = pc /\ s.busy = {m} /\ s.sync = r.sync /\ s.val = r.val
  BY <1>1 DEF Request, Reading
<1> HIDE DEF s
<1>3. req'[t] = s /\ \A k \in Track \ {t} : req'[k] = req[k]
  BY <1>1 DEF ContentInv, IInv, ReqInv
<1>4. \A k \in Track \ {t} : Kept(k)
  BY <1>1, <1>3, Elsewhere DEF Reading, marks
<1>5. Good(t)' = Good(t) /\ copy' = copy /\ Own(t) /\ ~Writing(t) /\ ~Writing(t)'
  BY <1>1, <1>2, <1>3 DEF Good, Caught, marks, Reading, ContentInv, Writing, Write
<1>6. /\ held[t] # {} /\ Agree(t)' /\ \A k \in Good(t)' : copy'[k][t] \in held[t]
  BY <1>5 DEF Own, Contents, Agree
<1>7. /\ held'[t] # {} /\ held'[t] \subseteq held[t]
      /\ Fresh(t)' # {} => held'[t] = Fresh(t)'
      /\ \A k \in Good(t)' : copy'[k][t] \in held'[t]
  BY <1>1, <1>6, HeldSettled
<1>8. held[t] = {copy[m][t]} /\ held'[t] = {copy[m][t]}
  BY <1>1, <1>5, <1>7, FreshHolds
<1>9. Shape(t)'
  <2>1. s.sync => lx.msk # Present
    BY DEF ContentInv, IInv, ReqInv, SyncOk
  <2> QED
    BY <1>1, <1>2, <1>3, <1>5, <2>1 DEF Shape, Own, Reading, ReadPcs, Write
<1>10. Contents(t)' /\ Finds(t)'
  BY <1>2, <1>3, <1>5, <1>6, <1>7, <1>8 DEF Contents, Finds, Write
<1>11. ParWrites(t)' /\ SeqWrites(t)'
  BY <1>2, <1>3 DEF ParWrites, SeqWrites
<1>12. Ask(req'[t]) = Ask(req[t])
  BY <1>1, <1>2, <1>3 DEF Ask, Write, Reading
<1> QED
  BY <1>1, <1>2, <1>3, <1>4, <1>5, <1>7, <1>9, <1>10, <1>11, <1>12
     DEF Stepped, Own, ShiftsAt, Outcome, Plain, Waiting

\* A read is answered, or goes on as the write half of a resynchronisation.
LEMMA TerminateRead ==
  ASSUME ContentInv, Remember, NEW t, NEW r, Reading(t, r), Terminate(t, r, lx),
         UNCHANGED marks, ~r.error => held[t] = {r.val} /\ (r.sync => lx.msk # Present)
  PROVE  Plain(t)
<1> DEFINE w == [NoReq EXCEPT !.op = "write", !.sync = TRUE, !.val = r.val,
                              !.pc = "pending"]
<1>1. /\ t \in Track /\ r \in Request /\ r.sync = req[t].sync /\ ~Write(r)
      /\ stale' = stale /\ lx \in Lx /\ copy' = copy /\ Own(t) /\ ~Writing(t)
  BY DEF Reading, Handled, Write, marks, ContentInv, IInv, ReqInv, Writing
<1>2. /\ NoReq \in Request /\ NoReq.sync = FALSE /\ NoReq.op = "idle" /\ NoReq.pc = "none"
  BY NoReqType DEF ContentInv, IInv, DataInv
<1>3. /\ w \in Request /\ w.op = "write" /\ w.sync = TRUE /\ w.val = r.val
      /\ w.pc = "pending" /\ w.done = {} /\ \A k \in Mirror : w.bad[k] = {}
  BY <1>1, <1>2 DEF Request, Pcs, NoReq
<1>4. ASSUME ~r.sync
      PROVE  /\ req' = [req EXCEPT ![t] = NoReq] /\ lx' = lx /\ syncx' = syncx
             /\ answer' = [answer EXCEPT ![t] = IF r.error THEN [op |-> "error"]
                                                ELSE [op |-> "read", val |-> r.val]]
  BY <1>1, <1>4 DEF Terminate
<1>5. ASSUME r.sync, r.error
      PROVE  /\ req' = [req EXCEPT ![t] = NoReq] /\ answer' = answer
             /\ lx'.msk = lx.msk /\ lx'.err = lx.err /\ syncx' = NTrack
  BY <1>1, <1>5 DEF Terminate, Lx
<1>6. ASSUME r.sync, ~r.error
      PROVE  /\ req' = [req EXCEPT ![t] = w] /\ answer' = answer
             /\ lx' = lx /\ syncx' = syncx
  BY <1>1, <1>6 DEF Terminate
<1> HIDE DEF w
<1>7. /\ \A k \in Track \ {t} : req'[k] = req[k] /\ answer'[k] = answer[k]
      /\ lx'.msk = lx.msk /\ lx'.err = lx.err /\ syncx' \in {syncx, NTrack}
      /\ req'[t] = IF r.sync /\ ~r.error THEN w ELSE NoReq
      /\ syncx' # NTrack => syncx' = syncx /\ lx'.trk = lx.trk
  BY <1>1, <1>4, <1>5, <1>6 DEF ContentInv, IInv, ReqInv
<1>8. \A k \in Track \ {t} : Kept(k)
  BY <1>1, <1>7, Elsewhere
<1>9. Good(t)' \subseteq Good(t) /\ ~Writing(t)'
  BY <1>1, <1>2, <1>3, <1>7, Masks DEF Good, Caught, Writing, Write
<1>10. /\ held[t] # {} /\ Agree(t)' /\ \A k \in Good(t)' : copy'[k][t] \in held[t]
  BY <1>1, <1>9 DEF Own, Contents, Agree
<1>11. /\ held'[t] # {} /\ held'[t] \subseteq held[t]
       /\ Fresh(t)' # {} => held'[t] = Fresh(t)'
       /\ \A k \in Good(t)' : copy'[k][t] \in held'[t]
  BY <1>1, <1>10, HeldSettled DEF Reading, Write
<1>12. Own(t)'
  <2>1. Contents(t)'
    BY <1>2, <1>3, <1>7, <1>9, <1>10, <1>11 DEF Contents
  <2>2. Finds(t)'
    BY <1>2, <1>3, <1>7, <1>11 DEF Finds, Write
  <2>3. Shape(t)'
    BY <1>1, <1>2, <1>3, <1>7 DEF Shape, Own, WritePcs, Write, Reading
  <2>4. ParWrites(t)' /\ SeqWrites(t)'
    BY <1>2, <1>3, <1>7 DEF ParWrites, SeqWrites
  <2> QED
    BY <2>1, <2>2, <2>3, <2>4 DEF Own
<1>13. Outcome(t)
  <2>1. CASE r.sync
    BY <1>1, <1>2, <1>3, <1>5, <1>6, <1>7, <2>1 DEF Outcome, Ask
  <2>2. CASE ~r.sync
    <3> DEFINE a == IF r.error THEN [op |-> "error"] ELSE [op |-> "read", val |-> r.val]
    <3>1. answer' = [answer EXCEPT ![t] = a] /\ req'[t] = NoReq
      BY <1>4, <1>7, <2>2
    <3>2. a \in Block!Answers
      BY <1>1 DEF Block!Answers, Request
    <3>3. Block!Right(Ask(req[t]), held'[t], a)
      <4>1. Ask(req[t]) = [op |-> "read"]
        BY <1>1, <2>2 DEF Ask, Reading, Write
      <4>2. ~r.error => held'[t] = {r.val}
        BY <1>11
      <4> QED
        BY <4>1, <4>2 DEF Block!Right, Block!Error
    <3> HIDE DEF a
    <3> QED
      BY <1>1, <2>2, <3>1, <3>2, <3>3 DEF Outcome, Reading
  <2> QED
    BY <2>1, <2>2
<1>14. answer'[t] = answer[t] \/ answer'[t].op # "written"
  BY <1>1, <1>4, <1>5, <1>6 DEF ContentInv
<1> QED
  BY <1>1, <1>2, <1>3, <1>7, <1>8, <1>11, <1>12, <1>13, <1>14
     DEF Stepped, ShiftsAt, Waiting, Plain

\* It fails.
LEMMA EioRead ==
  ASSUME ContentInv, Remember, NEW t, NEW r, Reading(t, r), Eio(t, r)
  PROVE  Plain(t)
<1>1. /\ Reading(t, [r EXCEPT !.error = TRUE]) /\ [r EXCEPT !.error = TRUE].error
      /\ Terminate(t, [r EXCEPT !.error = TRUE], lx) /\ UNCHANGED marks
  BY DEF Reading, Handled, Request, Eio
<1> QED
  BY <1>1, TerminateRead

\* lv_bestmir: a mirror that is neither stale nor missing.
LEMMA BestMirRead ==
  ASSUME ContentInv, Remember, NEW t, NEW r, Reading(t, r), BestMir(t, r)
  PROVE  Plain(t)
<1> DEFINE d == r.done \cup (Present \cap Unfit)
           s == [r EXCEPT !.done = d]
<1>1. d \in SUBSET Mirror
  BY Masks DEF Handled, Request, Reading
<1>2. \/ Eio(t, s)
      \/ \E m \in Present \ stale :
            Transfer(t, [s EXCEPT !.done = @ \cup {m}], m, "parread")
  BY DEF BestMir, Reading, Handled, Request, Unfit
<1> HIDE DEF d
<1>3. Reading(t, s)
  BY <1>1 DEF Handled, Request, Reading
<1>4. \A m \in Present : Reading(t, [s EXCEPT !.done = @ \cup {m}])
  BY <1>1, Masks DEF Handled, Request, Reading
<1> HIDE DEF s
<1>5. CASE Eio(t, s)
  BY <1>3, <1>5, EioRead
<1>6. ASSUME NEW m \in Present \ stale,
             Transfer(t, [s EXCEPT !.done = @ \cup {m}], m, "parread")
      PROVE  Plain(t)
  BY <1>4, <1>6, TransferRead
<1> QED
  BY <1>2, <1>5, <1>6

\* lv_fixup: only a fresh mirror is repaired.
LEMMA FixupRead ==
  ASSUME ContentInv, Benign, Remember, NEW t, NEW r, Reading(t, r), Fixup(t, r),
         held[t] = {r.val}, r.sync => lx.msk # Present
  PROVE  Plain(t)
<1> DEFINE fit  == r.bad[0] \ (stale \cup missing)
           m    == First(fit)
           left == {k \in r.bad[0] : k > m}
           s    == [r EXCEPT !.bad[0] = left]
<1>1. r.bad[0] \in SUBSET Present
  BY Masks DEF Handled, Request, Reading
<1>2. CASE Terminate(t, r, lx) /\ UNCHANGED <<marks, panic>>
  BY <1>2, TerminateRead
<1>3. CASE fit # {} /\ Transfer(t, s, m, "fixup")
  <2>1. m \in Present \ stale
    <3>1. fit \in SUBSET Mirror /\ fit \in SUBSET Present
      BY <1>1, Masks
    <3> QED
      BY <1>3, <3>1, MinIn DEF First
  <2>2. Reading(t, s) /\ s.val = r.val
    <3>1. [r.bad EXCEPT ![0] = left] \in [Mirror -> SUBSET Present]
      BY <1>1 DEF Handled, Request, Reading
    <3> QED
      BY <3>1 DEF Handled, Request, Reading
  <2> QED
    BY <1>3, <2>1, <2>2, TransferRead
<1> QED
  BY <1>2, <1>3 DEF Fixup, Benign

\* A step that leaves everything alone but the panic.
LEMMA PanicStep ==
  ASSUME ContentInv, Remember, NEW t \in Track, copy' = copy, policy' = policy, ~Waiting(t),
         UNCHANGED <<marks, req, lx, syncx, answer>>
  PROVE  Plain(t)
<1>1. \A k \in Track : Kept(k)
  BY DEF Kept, Good, Caught, marks
<1>2. Own(t)' /\ ShiftsAt(t)
  BY <1>1, KeptStep
<1> QED
  BY <1>1, <1>2 DEF Plain, Stepped, Outcome, Waiting

\* lv_parread_done and lv_seqread_done: what was read is what is stored.
LEMMA ReadDoneRead ==
  ASSUME ContentInv, Benign, Remember, NEW t, NEW r0, Reading(t, r0), r0 = req[t],
         NEW m \in r0.busy, NEW res, r0.pc \in {"parread", "seqread"},
         ReadDone(t, r0, m, res)
  PROVE  Plain(t)
<1> DEFINE b == IF res = "EMEDIA" THEN r0.bad[0] \cup {m} ELSE r0.bad[0]
           r == [r0 EXCEPT !.busy = {}, !.bad[0] = b]
           s == [r EXCEPT !.val = copy[m][t]]
<1>1. m \in Present /\ [r0.bad EXCEPT ![0] = b] \in [Mirror -> SUBSET Present]
  BY Masks DEF Handled, Request, Reading
<1>2. r = [r0 EXCEPT !.busy = {}, !.bad[0] = IF res = "EMEDIA" THEN @ \cup {m} ELSE @]
  BY Masks DEF Handled, Request, Reading
<1>3. IF res = "ok" THEN Fixup(t, s)
      ELSE IF r.pc = "parread" THEN BestMir(t, r)
      ELSE UNCHANGED <<marks, req, lx, syncx, answer>>
  BY <1>2 DEF ReadDone
<1> HIDE DEF b
<1>4. Reading(t, r) /\ r.pc = r0.pc /\ r.sync = r0.sync
  BY <1>1 DEF Handled, Request, Reading
<1> HIDE DEF r
<1>5. Own(t) /\ t \in Track
  BY DEF ContentInv, Reading, Handled
<1>6. CASE res = "ok"
  <2>1. copy[m][t] \in Value
    BY <1>1, <1>5, Masks DEF ContentInv, IInv, DataInv
  <2>2. Reading(t, s) /\ s.val = copy[m][t] /\ s.sync = r0.sync
    BY <1>4, <2>1 DEF Handled, Request, Reading
  <2>3. held[t] = {copy[m][t]} /\ (r0.sync => lx.msk # Present)
    BY <1>5 DEF Own, Finds, Shape
  <2> HIDE DEF s
  <2> QED
    BY <1>3, <1>6, <2>2, <2>3, FixupRead
<1>7. CASE res # "ok" /\ r.pc = "parread"
  BY <1>3, <1>4, <1>7, BestMirRead
<1>8. CASE res # "ok" /\ r.pc # "parread"
  BY <1>3, <1>4, <1>5, <1>8, PanicStep DEF Reading, Waiting
<1> QED
  BY <1>6, <1>7, <1>8

\* lv_end, for a read or a repair.
LEMMA TransferDoneRead ==
  ASSUME ContentInv, Benign, Remember, NEW t \in Track, NEW m \in Mirror,
         TransferDone(t, m), ~Write(req[t])
  PROVE  Plain(t)
<1> DEFINE r == req[t]
<1>1. Own(t) /\ r \in Request /\ ReqOk(r) /\ m \in r.busy /\ m \in Present
  BY DEF TransferDone, ContentInv, IInv, ReqInv, Request
<1>2. r.op = "read" /\ r.pc \in {"parread", "seqread", "fixup"}
  BY <1>1 DEF ReqOk, Request, Write, Own, Shape, ReadPcs, BusyPcs
<1>3. PICK res : copy' = [copy EXCEPT ![m][t] = copy[m][t]] /\ End(t, m, res)
  BY DEF TransferDone
<1>4. Reading(t, r)
  <2>1. copy' = copy
    BY <1>3 DEF ContentInv, IInv, DataInv
  <2> QED
    BY <1>1, <1>2, <2>1 DEF Reading, Handled, ReqOk, TransferDone
<1>5. CASE r.pc \in {"parread", "seqread"}
  <2>1. ReadDone(t, r, m, res)
    BY <1>3, <1>5 DEF End
  <2> QED
    BY <1>1, <1>4, <1>5, <2>1, ReadDoneRead
<1>6. CASE r.pc = "fixup"
  <2> DEFINE x == IF res = "ok" THEN copy[m][t] ELSE r.val
             s == [r EXCEPT !.val = x, !.busy = {}]
  <2>1. x = r.val /\ held[t] = {r.val} /\ (r.sync => lx.msk # Present)
    BY <1>1, <1>6 DEF Own, Finds, Shape
  <2>2. s = [r EXCEPT !.val = IF res = "ok" THEN copy[m][t] ELSE @, !.busy = {}]
    BY <1>1 DEF Request
  <2>3. Fixup(t, s)
    BY <1>3, <1>6, <2>2 DEF End
  <2> HIDE DEF x
  <2>4. Reading(t, s) /\ s.val = r.val /\ s.sync = r.sync
    BY <1>1, <1>4, <2>1 DEF Handled, Request, Reading
  <2> HIDE DEF s
  <2> QED
    BY <2>1, <2>3, <2>4, FixupRead
<1> QED
  BY <1>2, <1>5, <1>6

-----------------------------------------------------------------------------
(* Writes.                                                                 *)

\* What a step of request t may do to the mirrors.
CopyMoves(t) ==
    \A m \in Mirror :
        /\ \A k \in Track \ {t} : copy'[m][k] = copy[m][k]
        /\ copy'[m][t] \in {copy[m][t], req[t].val}
        /\ req[t].sync /\ m \notin lx.msk => copy'[m][t] = copy[m][t]

\* A write, as a handler finds it.
Written(t, r) ==
    /\ Handled(t, r) /\ r.op = "write" /\ req[t].op = "write"
    /\ r.val = req[t].val /\ r.was = req[t].was
    /\ CopyMoves(t) /\ policy' = policy

\* A resynchronisation has not caught up on the track that it is at, and the mirrors
\* that it does not write are those that hold what is stored.
LEMMA SyncTrack ==
  ASSUME ContentInv, NEW t \in Track, req[t].sync
  PROVE  /\ t = syncx /\ lx.trk = t /\ Good(t) = Present \ stale /\ ~Writing(t)
         /\ missing = {} /\ lx.msk \cap Good(t) = {}
<1>1. t = syncx /\ lx.trk = t /\ lx.msk \subseteq stale
  BY DEF ContentInv, IInv, ReqInv, SyncOk
<1>2. t \in Nat /\ ~(t < t) /\ t # NTrack
  <2>1. t \in Nat /\ t # NTrack
    BY Masks
  <2> QED
    BY <2>1
<1> QED
  BY <1>1, <1>2 DEF Good, Caught, Writing, ContentInv

\* Transfers of it are under way.
LEMMA WriteGoesOn ==
  ASSUME ContentInv, Remember, NEW t, NEW s, Written(t, s), req' = [req EXCEPT ![t] = s],
         s.pc \in {"starting", "parwrite", "seqwrite"}, s.sync => s.pc # "seqwrite",
         UNCHANGED <<marks, lx, syncx, answer>>, ParWrites(t)', SeqWrites(t)'
  PROVE  Plain(t)
<1>1. /\ t \in Track /\ s \in Request /\ s.sync = req[t].sync /\ Own(t)
      /\ stale' = stale /\ req'[t] = s /\ \A k \in Track \ {t} : req'[k] = req[k]
  BY DEF Written, Handled, ContentInv, IInv, ReqInv, marks
<1>2. \A k \in Track \ {t} : Kept(k)
  BY <1>1, Elsewhere DEF Written, CopyMoves
<1>3. Good(t)' = Good(t) /\ Writing(t)' = Writing(t) /\ Good(t) \subseteq Mirror
  BY <1>1, Masks DEF Good, Caught, Writing, Write, Written, ContentInv, IInv, ReqInv, Lx
<1>4. Contents(t)' /\ ShiftsAt(t) /\ (s.sync => held'[t] = {s.val})
  <2>1. CASE s.sync
    <3>1. Good(t) \cap lx.msk = {} /\ ~Writing(t)
      BY <1>1, <2>1, SyncTrack
    <3>2. \A m \in Good(t) : copy'[m][t] = copy[m][t]
      BY <1>1, <1>3, <2>1, <3>1 DEF Written, CopyMoves
    <3>3. /\ held[t] # {} /\ Agree(t)' /\ \A m \in Good(t)' : copy'[m][t] \in held[t]
      BY <1>1, <1>3, <3>1, <3>2 DEF Own, Contents, Agree
    <3>4. /\ held'[t] # {} /\ held'[t] \subseteq held[t]
          /\ Fresh(t)' # {} => held'[t] = Fresh(t)'
          /\ \A m \in Good(t)' : copy'[m][t] \in held'[t]
      BY <1>1, <3>3, HeldSettled
    <3>5. held[t] = {s.val}
      BY <1>1, <2>1 DEF Own, Finds, Written, Write
    <3> QED
      BY <1>1, <1>3, <3>1, <3>3, <3>4, <3>5 DEF Contents, ShiftsAt
  <2>2. CASE ~s.sync
    <3>1. Writing(t)
      BY <1>1, <2>2 DEF Writing, Write, Written
    <3> DEFINE S == req[t].was \cup {req[t].val}
    <3>2. /\ held[t] # {} /\ held[t] \subseteq S /\ \A m \in Good(t)' : copy'[m][t] \in S
      BY <1>1, <1>3, <3>1 DEF Own, Contents, Written, CopyMoves
    <3>3. /\ held'[t] # {} /\ held'[t] \subseteq S
          /\ Fresh(t)' # {} => held'[t] = Fresh(t)'
      <4> HIDE DEF S
      <4> QED
        BY <1>1, <3>2, HeldWriting
    <3> QED
      BY <1>1, <1>3, <2>2, <3>1, <3>2, <3>3 DEF Contents, ShiftsAt, Written
  <2> QED
    BY <2>1, <2>2
<1>5. Finds(t)'
  BY <1>1, <1>4 DEF Finds
<1>6. Shape(t)'
  BY <1>1 DEF Shape, Own, Written, Write, WritePcs
<1>7. Ask(req'[t]) = Ask(req[t])
  BY <1>1 DEF Ask, Write, Written
<1> QED
  BY <1>1, <1>2, <1>4, <1>5, <1>6, <1>7
     DEF Stepped, Own, Outcome, Plain, Waiting

\* It is answered, or a resynchronisation goes on to the next track.
LEMMA TerminateWrite ==
  ASSUME ContentInv, Remember, NEW t, NEW r, Written(t, r), NEW l \in Lx,
         Terminate(t, r, l), stale \subseteq stale',
         l.trk = lx.trk, l.msk \ l.err \subseteq lx.msk \ lx.err, lx.err \subseteq l.err,
         ~r.sync => /\ l.msk = lx.msk /\ Agree(t)'
                    /\ \A m \in Good(t)' : copy'[m][t] \in r.was \cup {r.val}
                    /\ ~r.error => \A m \in Good(t)' : copy'[m][t] = r.val,
         r.sync /\ ~r.error => \A m \in l.msk \ l.err : copy'[m][t] = r.val
  PROVE  Stepped(t) /\ ~Waiting(t)'
<1>1. /\ t \in Track /\ r \in Request /\ r.sync = req[t].sync /\ Own(t) /\ Write(r)
      /\ Write(req[t])
  BY DEF Written, Handled, ContentInv, Write
<1>2. /\ NoReq \in Request /\ NoReq.sync = FALSE /\ NoReq.op = "idle" /\ NoReq.pc = "none"
  BY NoReqType DEF ContentInv, IInv, DataInv
<1>3. ASSUME ~r.sync
      PROVE  /\ req' = [req EXCEPT ![t] = NoReq] /\ lx' = l /\ syncx' = syncx
             /\ answer' = [answer EXCEPT ![t] = [op |-> IF r.error THEN "error" ELSE "written"]]
  BY <1>1, <1>3 DEF Terminate
<1>4. ASSUME r.sync
      PROVE  /\ req' = [req EXCEPT ![t] = NoReq] /\ answer' = answer
             /\ lx'.msk = l.msk /\ lx'.err = l.err /\ syncx' \in {NTrack, t + 1}
             /\ r.error => syncx' = NTrack
  BY <1>1, <1>4 DEF Terminate, Lx
<1>5. /\ \A k \in Track \ {t} : req'[k] = req[k] /\ answer'[k] = answer[k]
      /\ req'[t] = NoReq /\ lx'.msk = l.msk /\ lx'.err = l.err
  BY <1>1, <1>3, <1>4 DEF ContentInv, IInv, ReqInv
<1>6. \A k \in Track \ {t} : Kept(k)
  BY <1>1, <1>3, <1>4, <1>5, Elsewhere DEF Written, CopyMoves
<1>7. ~Writing(t)'
  BY <1>2, <1>5 DEF Writing, Write
<1>8. CASE ~r.sync
  <2> DEFINE a == [op |-> IF r.error THEN "error" ELSE "written"]
  <2>1. answer' = [answer EXCEPT ![t] = a] /\ answer'[t] = a /\ answer[t] = NoAnswer
        /\ a \in Block!Answers
    BY <1>1, <1>3, <1>8 DEF ContentInv, Own, Shape, Write, Block!Answers
  <2>2. /\ answer'[t] # answer[t]
        /\ answer'[t].op # "error" => \A m \in Good(t)' : copy'[m][t] = req[t].val
        /\ Writing(t) /\ \A m \in Good(t)' : copy'[m][t] \in req[t].was \cup {req[t].val}
    BY <1>1, <1>8, <2>1 DEF NoAnswer, Written, Writing
  <2>3. /\ held'[t] # {} /\ held'[t] \subseteq req[t].was \cup {req[t].val}
        /\ Fresh(t)' # {} => held'[t] = Fresh(t)'
        /\ \A m \in Good(t)' : copy'[m][t] \in held'[t]
        /\ answer'[t].op # "error" => held'[t] = {req[t].val}
    BY <1>1, <1>8, <2>2, HeldWritten
  <2>4. Own(t)'
    BY <1>2, <1>5, <1>7, <1>8, <2>3
       DEF Own, Contents, Finds, Shape, ParWrites, SeqWrites, Write
  <2>5. Block!Right(Ask(req[t]), held'[t], a)
    <3>1. Ask(req[t]).op = "write" /\ Ask(req[t]).val = req[t].val
      BY <1>1, <1>8 DEF Ask, Write
    <3>2. ~r.error => held'[t] = {req[t].val}
      BY <2>1, <2>3
    <3> QED
      BY <3>1, <3>2 DEF Block!Right, Block!Error
  <2> HIDE DEF a
  <2>6. Outcome(t)
    BY <1>1, <1>5, <1>8, <2>1, <2>5 DEF Outcome, Write
  <2> QED
    BY <1>2, <1>3, <1>5, <1>6, <1>8, <2>2, <2>3, <2>4, <2>6
       DEF Stepped, ShiftsAt, Waiting
<1>9. CASE r.sync
  <2>1. /\ Good(t) = Present \ stale /\ ~Writing(t) /\ lx.msk \cap Good(t) = {}
        /\ t = syncx /\ syncx # NTrack
    BY <1>1, <1>9, SyncTrack, Masks
  <2>2. Caught(t)' \subseteq {m \in l.msk \ l.err : ~r.error}
    BY <1>4, <1>5, <1>9, Masks DEF Caught
  <2>3. held[t] = {r.val}
    BY <1>1, <1>9 DEF Own, Finds, Written
  <2>4. \A m \in Present \ stale' : copy'[m][t] = r.val
    <3>1. \A m \in Good(t) : copy[m][t] = r.val
      BY <1>1, <2>1, <2>3 DEF Own, Contents
    <3>2. \A m \in Good(t) : copy'[m][t] = copy[m][t]
      BY <1>1, <1>9, <2>1, Masks DEF Written, CopyMoves
    <3> QED
      BY <2>1, <3>1, <3>2
  <2>5. \A m \in Good(t)' : copy'[m][t] = r.val
    BY <1>9, <2>2, <2>4 DEF Good
  <2>6. /\ held[t] # {} /\ Agree(t)' /\ \A m \in Good(t)' : copy'[m][t] \in held[t]
    BY <2>3, <2>5 DEF Agree
  <2>7. /\ held'[t] # {} /\ held'[t] \subseteq held[t]
        /\ Fresh(t)' # {} => held'[t] = Fresh(t)'
        /\ \A m \in Good(t)' : copy'[m][t] \in held'[t]
    BY <1>1, <1>4, <1>9, <2>6, HeldSettled
  <2>8. Own(t)'
    BY <1>2, <1>5, <1>7, <2>6, <2>7
       DEF Own, Contents, Finds, Shape, ParWrites, SeqWrites, Write
  <2>9. Ask(req'[t]) = Ask(req[t])
    BY <1>1, <1>2, <1>5, <1>9 DEF Ask
  <2> QED
    BY <1>2, <1>4, <1>5, <1>6, <1>9, <2>1, <2>7, <2>8, <2>9
       DEF Stepped, ShiftsAt, Outcome, Waiting
<1> QED
  BY <1>8, <1>9

\* A write whose transfers have all ended: the mirrors that are not in the mask hold the
\* value.
Ended(t, r, mask) ==
    /\ Written(t, r) /\ r.busy = {} /\ r.act # {} /\ r.done = Mirror /\ ~Waiting(t)
    /\ mask \in SUBSET Present
    /\ ~r.sync => \A m \in Present \ mask : copy'[m][t] = r.val
    /\ r.sync => /\ mask \subseteq lx.msk /\ r.avoid = {}
                 /\ \A m \in lx.msk \ mask : copy'[m][t] = r.val

\* It waits for the status area.
LEMMA WriteWaits ==
  ASSUME ContentInv, Remember, NEW t, NEW s, Written(t, s), req' = [req EXCEPT ![t] = s],
         s.pc = "vgsa", lx'.msk \cup lx'.err \subseteq Present, UNCHANGED <<syncx, answer>>,
         ~s.sync => /\ Agree(t)'
                    /\ \A m \in Good(t)' : copy'[m][t] \in s.was \cup {s.val}
                    /\ ~s.error => \A m \in Good(t)' : copy'[m][t] = s.val,
         s.sync => \A m \in lx'.msk \ lx'.err : copy'[m][t] = s.val,
         s.sync => \A m \in Present \ stale' : copy'[m][t] = s.val,
         s.sync => lx'.msk # Present
  PROVE  Own(t)' /\ ShiftsAt(t) /\ Outcome(t)
<1>1. /\ t \in Track /\ s \in Request /\ s.sync = req[t].sync /\ Own(t)
      /\ req'[t] = s
  BY DEF Written, Handled, ContentInv, IInv, ReqInv
<1>2. Writing(t)' = Writing(t)
  BY <1>1 DEF Writing, Write, Written
<1>3. CASE s.sync
  <2>1. /\ t = syncx /\ ~Writing(t) /\ held[t] = {s.val}
    BY <1>1, <1>3, SyncTrack DEF Own, Finds, Written, Write
  <2>2. Good(t)' = Present \ stale'
    <3>1. t \in Nat /\ ~(t < t)
      BY <1>1, Masks
    <3> QED
      BY <2>1, <3>1 DEF Good, Caught
  <2>3. /\ held[t] # {} /\ Agree(t)' /\ \A m \in Good(t)' : copy'[m][t] \in held[t]
    BY <1>3, <2>1, <2>2 DEF Agree
  <2>4. /\ held'[t] # {} /\ held'[t] \subseteq held[t]
        /\ Fresh(t)' # {} => held'[t] = Fresh(t)'
        /\ \A m \in Good(t)' : copy'[m][t] \in held'[t]
    BY <1>1, <2>3, HeldSettled
  <2>5. Contents(t)' /\ Finds(t)' /\ ShiftsAt(t)
    BY <1>1, <1>2, <1>3, <2>1, <2>3, <2>4 DEF Contents, Finds, ShiftsAt
  <2> QED
    BY <1>1, <1>3, <2>5
       DEF Own, Shape, ParWrites, SeqWrites, Outcome, Ask, Write, Written, WritePcs
<1>4. CASE ~s.sync
  <2>1. Writing(t)
    BY <1>1, <1>4 DEF Writing, Write, Written
  <2> DEFINE S == req[t].was \cup {req[t].val}
  <2>2. /\ held[t] # {} /\ held[t] \subseteq S /\ \A m \in Good(t)' : copy'[m][t] \in S
    BY <1>1, <1>4, <2>1 DEF Own, Contents, Written
  <2>3. /\ held'[t] # {} /\ held'[t] \subseteq S
        /\ Fresh(t)' # {} => held'[t] = Fresh(t)'
    <3> HIDE DEF S
    <3> QED
      BY <1>1, <2>2, HeldWriting
  <2>4. Contents(t)' /\ Finds(t)' /\ ShiftsAt(t)
    BY <1>1, <1>2, <1>4, <2>1, <2>2, <2>3 DEF Contents, Finds, ShiftsAt, Written
  <2> QED
    BY <1>1, <1>4, <2>4
       DEF Own, Shape, ParWrites, SeqWrites, Outcome, Ask, Write, Written, WritePcs
<1> QED
  BY <1>3, <1>4

\* What lv_stalepp works with.
Blames(t, r, mask, bad, l, s) ==
    /\ bad \in SUBSET Present /\ l \in Lx /\ l.trk = lx.trk
    /\ Written(t, s) /\ s.sync = r.sync /\ s.busy = {}
    /\ lx.err \cup bad \subseteq l.err
    /\ ~r.sync => l.msk = lx.msk
    /\ r.sync => l.msk = lx.msk \ l.err /\ bad = mask
    /\ ~s.error => bad = mask /\ \E m \in Mirror : m \notin mask
    /\ s.error /\ ~r.sync => \A m, n \in Present \ bad : m = n

\* If everything failed one mirror is not blamed; a resynchronisation can not fail
\* everywhere.
LEMMA BlamesRight ==
  ASSUME ContentInv, NEW t, NEW r, NEW mask, Ended(t, r, mask),
         NEW bad, bad = Blamed(r, mask), NEW l,
         l = [lx EXCEPT !.err = lx.err \cup bad \cup (IF r.sync THEN r.avoid ELSE {}),
                !.msk = IF r.sync
                        THEN @ \ (lx.err \cup bad \cup (IF r.sync THEN r.avoid ELSE {}))
                        ELSE @],
         NEW s, s = [r EXCEPT !.error = AllBad(r, mask) \/ (r.sync /\ l.msk = {})]
  PROVE  Blames(t, r, mask, bad, l, s)
<1>1. /\ t \in Track /\ r \in Request /\ r.sync = req[t].sync /\ lx \in Lx /\ Own(t)
      /\ mask \in SUBSET Present /\ Present \subseteq Mirror /\ r.done = Mirror
      /\ Written(t, r) /\ r.busy = {}
  BY Masks DEF Ended, Written, Handled, Request, ContentInv, IInv, ReqInv
<1>2. bad \in SUBSET Present
  BY <1>1 DEF Blamed
<1>3. /\ l \in Lx /\ l.trk = lx.trk /\ lx.err \cup bad \subseteq l.err
      /\ ~r.sync => l.msk = lx.msk
      /\ r.sync => l.msk = lx.msk \ l.err
  BY <1>1, <1>2 DEF Lx, Request
<1>4. AllBad(r, mask) <=> mask = Mirror
  BY <1>1 DEF AllBad
<1>5. r.sync => mask # Mirror
  <2>1. r.sync => mask \subseteq lx.msk /\ lx.msk # Present
    BY <1>1 DEF Ended, Own, Shape, Write, Written
  <2> QED
    BY <1>1, <2>1 DEF Lx
<1>6. mask # Mirror => bad = mask
  BY <1>4 DEF Blamed
<1>7. mask = Mirror => \A m, n \in Present \ bad : m = n
  BY <1>1, <1>4 DEF Blamed
<1>8. /\ s \in Request /\ s.sync = r.sync /\ s.op = r.op /\ s.busy = r.busy
      /\ s.val = r.val /\ s.was = r.was /\ s.todo = r.todo /\ s.act = r.act
      /\ s.error = (AllBad(r, mask) \/ (r.sync /\ l.msk = {}))
  <2>1. (AllBad(r, mask) \/ (r.sync /\ l.msk = {})) \in BOOLEAN
    BY DEF AllBad
  <2> QED
    BY <1>1, <2>1 DEF Request
<1>9. Written(t, s)
  BY <1>1, <1>8 DEF Written, Handled
<1>10. /\ ~s.error => mask # Mirror
       /\ s.error /\ ~r.sync => mask = Mirror
  BY <1>4, <1>8
<1>11. mask # Mirror => \E m \in Mirror : m \notin mask
  BY <1>1
<1> QED
  BY <1>1, <1>2, <1>3, <1>5, <1>6, <1>7, <1>8, <1>9, <1>10, <1>11 DEF Blames

\* The mirrors that count afterwards.
LEMMA GoodAfter ==
  ASSUME ContentInv, NEW t, NEW r, NEW mask, Ended(t, r, mask), ~r.sync, NEW bad, NEW l,
         NEW s, Blames(t, r, mask, bad, l, s), stale' = stale \cup bad, lx' = l,
         syncx' = syncx
  PROVE  /\ Agree(t)'
         /\ \A m \in Good(t)' : copy'[m][t] \in s.was \cup {s.val}
         /\ ~s.error => \A m \in Good(t)' : copy'[m][t] = s.val
<1>1. /\ t \in Track /\ ~req[t].sync /\ Own(t) /\ Writing(t) /\ Present \subseteq Mirror
      /\ s.val = req[t].val /\ s.was = req[t].was /\ r.val = req[t].val
      /\ s.error \in BOOLEAN /\ l \in Lx
  BY Masks DEF Ended, Written, Handled, ContentInv, Writing, Write, Blames, Request
<1>2. Good(t)' \subseteq Good(t) /\ Good(t)' \subseteq Present \ bad
  BY <1>1 DEF Good, Caught, Blames, Lx
<1>3. \A m \in Good(t)' : copy'[m][t] \in s.was \cup {s.val}
  <2>1. \A m \in Good(t) : copy[m][t] \in req[t].was \cup {req[t].val}
    BY <1>1 DEF Own, Contents
  <2>2. \A m \in Good(t)' : copy'[m][t] \in {copy[m][t], req[t].val}
    BY <1>1, <1>2 DEF Ended, Written, CopyMoves
  <2> QED
    BY <1>1, <1>2, <2>1, <2>2
<1>4. CASE ~s.error
  <2>1. \A m \in Good(t)' : copy'[m][t] = s.val
    BY <1>1, <1>2, <1>4 DEF Ended, Blames
  <2> QED
    BY <1>3, <2>1 DEF Agree
<1>5. CASE s.error
  <2>1. \A m, n \in Good(t)' : m = n
    BY <1>1, <1>2, <1>5 DEF Blames, Ended
  <2> QED
    BY <1>3, <1>5, <2>1 DEF Agree
<1> QED
  BY <1>1, <1>4, <1>5

\* Those that failed are marked.
LEMMA MarkWrite ==
  ASSUME ContentInv, Remember, NEW t, NEW r, NEW mask, Ended(t, r, mask), NEW bad, NEW l,
         NEW s, Blames(t, r, mask, bad, l, s), Mark(t, s, l, bad)
  PROVE  /\ Stepped(t) /\ ~Waiting(t)
         /\ wheel' = wheel \/ (wheel' = Append(wheel, t) /\ Waiting(t)')
<1> DEFINE wait == Unmarked(bad)
           w == [s EXCEPT !.pc = "vgsa", !.bad[0] = wait, !.done = {}]
<1>1. /\ t \in Track /\ r.sync = req[t].sync /\ Own(t) /\ ~Waiting(t) /\ Written(t, s)
      /\ s.sync = r.sync /\ l \in Lx /\ s \in Request /\ lx \in Lx /\ Write(req[t])
      /\ s.val = r.val
  BY DEF Ended, Blames, Written, Handled, ContentInv, IInv, ReqInv, Write
<1>2. /\ stale' = stale \cup bad
      /\ wheel' = IF wait = {} THEN wheel ELSE Append(wheel, t)
      /\ IF wait = {} THEN Terminate(t, s, l)
         ELSE req' = [req EXCEPT ![t] = w] /\ lx' = l /\ UNCHANGED <<syncx, answer>>
  BY DEF Mark
<1>3. wait \in SUBSET Present
  BY DEF Unmarked, Blames
<1> HIDE DEF wait
<1>4. Written(t, w) /\ w.pc = "vgsa" /\ w.error = s.error /\ w.sync = s.sync /\ w.val = s.val
      /\ w.was = s.was
  <2>1. [s.bad EXCEPT ![0] = wait] \in [Mirror -> SUBSET Present]
    BY <1>1, <1>3 DEF Request
  <2> QED
    BY <1>1, <2>1 DEF Written, Handled, Request, Pcs
<1> HIDE DEF w
<1>5. l.msk \ l.err \subseteq lx.msk \ lx.err /\ lx.err \subseteq l.err
  BY <1>1 DEF Blames
<1>6. ~s.sync /\ wait = {} => lx' = l /\ syncx' = syncx
  BY <1>2 DEF Terminate
<1>7. ~s.sync /\ lx' = l /\ syncx' = syncx
      => /\ Agree(t)'
         /\ \A m \in Good(t)' : copy'[m][t] \in s.was \cup {s.val}
         /\ ~s.error => \A m \in Good(t)' : copy'[m][t] = s.val
  BY <1>1, <1>2, GoodAfter
<1>8. s.sync => \A m \in l.msk \ l.err : copy'[m][t] = s.val
  BY <1>1 DEF Ended, Blames
<1>9. CASE wait = {}
  <2>1. l.trk = lx.trk /\ (~s.sync => l.msk = lx.msk) /\ stale \subseteq stale'
    BY <1>1, <1>2 DEF Blames
  <2>2. Terminate(t, s, l) /\ wheel' = wheel
    BY <1>2, <1>9
  <2>3. ~s.sync => /\ l.msk = lx.msk /\ Agree(t)'
                   /\ \A m \in Good(t)' : copy'[m][t] \in s.was \cup {s.val}
                   /\ ~s.error => \A m \in Good(t)' : copy'[m][t] = s.val
    BY <1>6, <1>7, <1>9, <2>1
  <2>4. Stepped(t) /\ ~Waiting(t)'
    BY <1>1, <1>5, <1>8, <2>1, <2>2, <2>3, TerminateWrite
  <2> QED
    BY <1>1, <2>2, <2>4
<1>10. CASE wait # {}
  <2>1. req' = [req EXCEPT ![t] = w] /\ lx' = l /\ UNCHANGED <<syncx, answer>>
        /\ wheel' = Append(wheel, t)
    BY <1>2, <1>10
  <2>2. req'[t] = w /\ \A k \in Track \ {t} : req'[k] = req[k]
    BY <1>1, <2>1 DEF ContentInv, IInv, ReqInv
  <2>3. \A k \in Track \ {t} : Kept(k)
    <3>1. ~req[t].sync => lx'.msk = lx.msk
      BY <1>1, <2>1 DEF Blames
    <3> QED
      BY <1>1, <1>2, <1>5, <2>1, <2>2, <3>1, Elsewhere DEF Written, CopyMoves
  <2>4. s.sync => \A m \in Present \ stale' : copy'[m][t] = s.val
    <3> SUFFICES ASSUME s.sync, NEW m \in Present \ stale'
                 PROVE  copy'[m][t] = s.val
      OBVIOUS
    <3>1. m \in Good(t) /\ m \notin lx.msk /\ ~Writing(t)
      BY <1>1, <1>2, SyncTrack
    <3>2. held[t] = {s.val} /\ copy[m][t] \in held[t]
      BY <1>1, <3>1 DEF Own, Finds, Contents, Written
    <3>3. copy'[m][t] = copy[m][t]
      BY <1>1, <3>1, Masks DEF Written, CopyMoves
    <3> QED
      BY <3>2, <3>3
  <2>5. lx'.msk \cup lx'.err \subseteq Present /\ (s.sync => lx'.msk # Present)
    <3>1. s.sync => l.msk \subseteq lx.msk /\ lx.msk # Present /\ lx.msk \subseteq Present
      BY <1>1 DEF Blames, Own, Shape, Lx
    <3> QED
      BY <1>1, <2>1, <3>1 DEF Lx
  <2>6. Own(t)' /\ ShiftsAt(t) /\ Outcome(t)
    BY <1>4, <1>7, <1>8, <2>1, <2>4, <2>5, WriteWaits
  <2>7. Waiting(t)'
    BY <1>4, <2>2 DEF Waiting
  <2> QED
    BY <1>1, <2>1, <2>3, <2>6, <2>7 DEF Stepped
<1> QED
  BY <1>9, <1>10

\* At the last track of a resynchronisation the mirrors that hold every track become
\* fresh.
LEMMA MakeFreshWrite ==
  ASSUME ContentInv, Remember, NEW t, NEW r, NEW mask, Ended(t, r, mask), NEW bad, NEW l,
         NEW s, Blames(t, r, mask, bad, l, s), r.sync, l.trk = Last, MakeFresh(t, s, l, bad)
  PROVE  Stepped(t) /\ ~Waiting(t) /\ wheel' = Append(wheel, t) /\ Waiting(t)'
<1> DEFINE w == [s EXCEPT !.pc = "vgsa", !.bad[0] = bad, !.done = l.msk]
<1>1. /\ t \in Track /\ req[t].sync /\ Own(t) /\ ~Waiting(t) /\ Written(t, s) /\ s.sync
      /\ l \in Lx /\ s \in Request /\ lx \in Lx /\ Write(req[t]) /\ s.val = r.val
      /\ Present \subseteq Mirror
  BY Masks DEF Ended, Blames, Written, Handled, ContentInv, IInv, ReqInv, Write
<1>2. /\ stale' = stale \ l.msk /\ wheel' = Append(wheel, t) /\ lx' = [l EXCEPT !.msk = {}]
      /\ req' = [req EXCEPT ![t] = w] /\ UNCHANGED <<syncx, answer>>
  BY DEF MakeFresh
<1>3. Written(t, w) /\ w.pc = "vgsa" /\ w.sync /\ w.val = s.val
  <2>1. [s.bad EXCEPT ![0] = bad] \in [Mirror -> SUBSET Present]
    BY <1>1 DEF Request, Blames
  <2>2. l.msk \in SUBSET Mirror
    BY <1>1 DEF Lx
  <2> QED
    BY <1>1, <2>1, <2>2 DEF Written, Handled, Request, Pcs
<1> HIDE DEF w
<1>4. req'[t] = w /\ \A k \in Track \ {t} : req'[k] = req[k]
  BY <1>1, <1>2 DEF ContentInv, IInv, ReqInv
<1>5. lx'.msk = {} /\ lx'.err = l.err
  BY <1>1, <1>2 DEF Lx
<1>6. t = syncx /\ t = Last /\ lx.msk \cap Good(t) = {} /\ Good(t) = Present \ stale
      /\ ~Writing(t)
  BY <1>1, SyncTrack DEF Blames
<1>7. ASSUME NEW k \in Track \ {t}
      PROVE  Kept(k)
  <2>1. k < syncx
    BY <1>6, Masks DEF Last, Track
  <2>2. l.msk \subseteq Caught(k)
    BY <1>1, <1>6, <2>1 DEF Blames, Caught
  <2>3. Good(k)' \subseteq Good(k)
    BY <1>2, <1>5, <2>2 DEF Good, Caught
  <2>4. ~req[k].sync
    BY <1>1 DEF ContentInv, IInv, ReqInv, SyncOk
  <2> QED
    BY <1>1, <1>2, <1>4, <2>3, <2>4 DEF Kept, Written, CopyMoves
<1>8. \A m \in Present \ stale' : copy'[m][t] = w.val
  <2> SUFFICES ASSUME NEW m \in Present \ stale'
               PROVE  copy'[m][t] = w.val
    OBVIOUS
  <2>1. CASE m \in l.msk
    BY <1>1, <1>3, <2>1 DEF Ended, Blames
  <2>2. CASE m \notin l.msk
    <3>1. m \in Good(t) /\ m \notin lx.msk
      BY <1>2, <1>6, <2>2
    <3>2. held[t] = {s.val} /\ copy[m][t] \in held[t]
      BY <1>1, <1>6, <3>1 DEF Own, Finds, Contents, Written
    <3>3. copy'[m][t] = copy[m][t]
      BY <1>1, <3>1 DEF Written, CopyMoves
    <3> QED
      BY <1>3, <3>2, <3>3
  <2> QED
    BY <2>1, <2>2
<1>9. lx'.msk \cup lx'.err \subseteq Present /\ lx'.msk # Present
  BY <1>1, <1>5, Masks DEF Lx
<1>10. Own(t)' /\ ShiftsAt(t) /\ Outcome(t)
  BY <1>2, <1>3, <1>5, <1>8, <1>9, WriteWaits
<1> QED
  BY <1>1, <1>2, <1>3, <1>4, <1>7, <1>10 DEF Stepped, Waiting

\* lv_parwrite_done and lv_seqwrite, after the last transfer.
Ends(t) ==
    \E r \in Request, mask \in SUBSET Present :
        Ended(t, r, mask \cup r.avoid) /\ WriteEnd(t, r, mask)

\* A write that ends so: it waits for the status area, or is answered.
LEMMA WriteEndWrite ==
  ASSUME ContentInv, Remember, NEW t, Ends(t)
  PROVE  /\ Stepped(t) /\ ~Waiting(t)
         /\ wheel' = wheel \/ (wheel' = Append(wheel, t) /\ Waiting(t)')
<1>1. PICK r \in Request, mask0 \in SUBSET Present :
         Ended(t, r, mask0 \cup r.avoid) /\ WriteEnd(t, r, mask0)
  BY DEF Ends
<1> DEFINE mask == mask0 \cup r.avoid
<1>2. Ended(t, r, mask) /\ WriteEnd(t, r, mask0)
  BY <1>1
<1>3. \/ StalePp(t, r, mask)
      \/ mask = {} /\ ~r.sync /\ Terminate(t, r, lx) /\ UNCHANGED <<marks, panic>>
  BY <1>2 DEF WriteEnd
<1> HIDE DEF mask
<1>4. CASE StalePp(t, r, mask)
  <2> DEFINE bad == Blamed(r, mask)
             err == lx.err \cup bad \cup (IF r.sync THEN r.avoid ELSE {})
             l   == [lx EXCEPT !.err = err, !.msk = IF r.sync THEN @ \ err ELSE @]
             s   == [r EXCEPT !.error = AllBad(r, mask) \/ (r.sync /\ l.msk = {})]
  <2>1. Blames(t, r, mask, bad, l, s)
    BY <1>2, BlamesRight
  <2>2. \/ r.sync /\ l.trk = Last /\ MakeFresh(t, s, l, bad)
        \/ Mark(t, s, l, bad)
    BY <1>4 DEF StalePp
  <2> HIDE DEF bad, err, l, s
  <2> QED
    BY <1>2, <2>1, <2>2, MakeFreshWrite, MarkWrite
<1>5. CASE mask = {} /\ ~r.sync /\ Terminate(t, r, lx) /\ UNCHANGED <<marks, panic>>
  <2>1. /\ Written(t, r) /\ ~Waiting(t) /\ lx \in Lx /\ stale' = stale /\ wheel' = wheel
        /\ lx' = lx /\ syncx' = syncx
    BY <1>2, <1>5 DEF Ended, marks, ContentInv, IInv, ReqInv, Terminate
  <2>2. \A m \in Good(t)' : copy'[m][t] = r.val
    <3>1. Good(t)' \subseteq Present
      BY <2>1 DEF Good, Caught, Lx
    <3> QED
      BY <1>2, <1>5, <3>1 DEF Ended
  <2>3. Agree(t)' /\ \A m \in Good(t)' : copy'[m][t] \in r.was \cup {r.val}
    BY <2>2 DEF Agree
  <2>4. Stepped(t)
    BY <1>5, <2>1, <2>2, <2>3, TerminateWrite
  <2> QED
    BY <2>1, <2>4
<1> QED
  BY <1>3, <1>4, <1>5

\* lv_parwrite_done: pb_mirbad is handed on until the last transfer ends.
LEMMA ParDone ==
  ASSUME ContentInv, Remember, NEW t \in Track, NEW r, r = req[t], Written(t, r),
         NEW m \in r.busy, NEW failed \in BOOLEAN, r.pc \in {"starting", "parwrite"},
         r.pc = "starting" => ~failed, ~failed => copy'[m][t] = r.val,
         ParWriteDone(t, r, m, failed)
  PROVE  Plain(t) \/ Ends(t)
<1> DEFINE bad == IF failed THEN r.bad[m] \cup {m} ELSE r.bad[m]
<1>1. /\ Own(t) /\ ParWrites(t) /\ r \in Request /\ ReqOk(r) /\ m \in Present /\ m \in Mirror
      /\ Present \subseteq Mirror
  BY Masks DEF ContentInv, IInv, ReqInv, Own, Request
<1>2. bad \subseteq r.act /\ r.act \in SUBSET Present /\ r.bad[m] \subseteq bad
      /\ (failed => m \in bad)
  BY <1>1 DEF ParWrites, Request, ReqOk
<1>3. \A x \in r.act : \/ x \in (r.todo \cup r.busy) \ {m}
                       \/ copy'[x][t] = r.val
                       \/ x \in bad
                       \/ \E k \in r.busy \ {m} : x \in r.bad[k]
  <2> TAKE x \in r.act
  <2>1. CASE x \in r.todo \cup r.busy
    BY <1>2, <2>1
  <2>2. CASE copy[x][t] = r.val
    BY <1>1, <1>2, <2>2 DEF Written, CopyMoves
  <2>3. CASE \E k \in r.busy : x \in r.bad[k]
    BY <1>2, <2>3
  <2> QED
    BY <1>1, <2>1, <2>2, <2>3 DEF ParWrites
<1> HIDE DEF bad
<1>4. CASE r.todo \cup r.busy = {m}
  <2> DEFINE q == [r EXCEPT !.busy = {}]
  <2>1. WriteEnd(t, q, bad)
    BY <1>4 DEF ParWriteDone, bad
  <2>2. r.pc = "parwrite"
    BY <1>1, <1>4 DEF ParWrites, ReqOk
  <2>3. /\ q \in Request /\ q.busy = {} /\ q.act = r.act /\ q.done = r.done /\ q.sync = r.sync
        /\ q.avoid = r.avoid /\ q.val = r.val /\ Written(t, q)
    BY <1>1 DEF Request, Written, Handled
  <2>4. Ended(t, q, bad \cup q.avoid)
    <3>1. r.act # {} /\ r.done = Mirror /\ ~Waiting(t)
      BY <1>1, <2>2 DEF ParWrites, Waiting
    <3>2. ~r.sync => \A x \in Present \ (bad \cup r.avoid) : copy'[x][t] = r.val
      BY <1>1, <1>3, <1>4, <2>2 DEF ParWrites
    <3>3. r.sync => /\ bad \cup r.avoid \subseteq lx.msk /\ r.avoid = {}
                    /\ \A x \in lx.msk \ (bad \cup r.avoid) : copy'[x][t] = r.val
      BY <1>1, <1>2, <1>3, <1>4, <2>2 DEF ParWrites
    <3>4. bad \cup r.avoid \in SUBSET Present
      BY <1>1, <1>2 DEF Request
    <3> HIDE DEF q
    <3> QED
      BY <2>3, <3>1, <3>2, <3>3, <3>4 DEF Ended
  <2> HIDE DEF q
  <2> QED
    BY <1>2, <2>1, <2>3, <2>4 DEF Ends
<1>5. CASE r.todo \cup r.busy # {m}
  <2> DEFINE f == Forw(r, m)
             s == [r EXCEPT !.busy = @ \ {m}, !.bad[f] = @ \cup bad]
  <2>1. req' = [req EXCEPT ![t] = s] /\ UNCHANGED <<marks, lx, syncx, answer>>
    BY <1>5 DEF ParWriteDone, bad
  <2>2. f \in (r.todo \cup r.busy) \ {m} /\ f \in Mirror
    <3> DEFINE others == (r.todo \cup r.busy) \ {m}
               after  == {k \in others : k > m}
    <3>1. others \in SUBSET Mirror /\ others # {} /\ after \in SUBSET Mirror
          /\ after \subseteq others
      BY <1>1, <1>5 DEF Request
    <3> HIDE DEF others, after
    <3>2. f = IF after # {} THEN Min(after) ELSE Min(others)
      BY DEF f, Forw, others, after
    <3>3. f \in others
      BY <3>1, <3>2, MinIn
    <3> QED
      BY <3>1, <3>3 DEF others
  <2> HIDE DEF f
  <2>3. /\ s \in Request /\ s.busy = r.busy \ {m} /\ s.todo = r.todo /\ s.pc = r.pc
        /\ s.act = r.act /\ s.done = r.done /\ s.avoid = r.avoid /\ s.sync = r.sync
        /\ s.val = r.val /\ s.op = r.op /\ s.was = r.was
        /\ s.bad = [r.bad EXCEPT ![f] = @ \cup bad]
    <3>1. [r.bad EXCEPT ![f] = @ \cup bad] \in [Mirror -> SUBSET Present]
      BY <1>1, <1>2, <2>2 DEF Request
    <3> QED
      BY <1>1, <3>1 DEF Request
  <2> HIDE DEF s
  <2>4. \A k \in Mirror : s.bad[k] = IF k = f THEN r.bad[k] \cup bad ELSE r.bad[k]
    <3>1. r.bad \in [Mirror -> SUBSET Present]
      BY <1>1 DEF Request
    <3> QED
      BY <2>2, <2>3, <3>1
  <2>5. Written(t, s)
    BY <2>3 DEF Written, Handled
  <2>6. req'[t] = s /\ lx' = lx
    BY <2>1 DEF ContentInv, IInv, ReqInv
  <2>7. ParWrites(t)'
    <3>1. r.busy \subseteq Mirror /\ r.todo \subseteq Mirror
      BY <1>1 DEF Request
    <3>2. r.pc = "starting" => \A k \in s.todo \cup s.busy : s.bad[k] = {}
      BY <1>1, <2>3, <2>4, <3>1 DEF ParWrites, bad
    <3>3. \A k \in s.busy : s.bad[k] \subseteq s.act
      BY <1>1, <1>2, <2>3, <2>4, <3>1 DEF ParWrites
    <3>4. \A x \in s.act : \/ x \in s.todo \cup s.busy
                           \/ copy'[x][t] = s.val
                           \/ \E k \in s.busy : x \in s.bad[k]
      <4> TAKE x \in s.act
      <4>1. CASE x \in (r.todo \cup r.busy) \ {m}
        BY <1>1, <2>3, <4>1 DEF ParWrites
      <4>2. CASE x \in bad
        <5>1. CASE r.pc = "starting"
          BY <1>1, <4>2, <5>1 DEF ParWrites, bad
        <5>2. CASE r.pc = "parwrite"
          BY <1>1, <2>2, <2>3, <2>4, <4>2, <5>2 DEF ParWrites
        <5> QED
          BY <5>1, <5>2
      <4>3. CASE \E k \in r.busy \ {m} : x \in r.bad[k]
        BY <2>3, <2>4, <3>1, <4>3
      <4> QED
        BY <1>3, <2>3, <4>1, <4>2, <4>3
    <3>5. s.done = Mirror /\ s.todo \cap s.busy = {} /\ s.act # {}
          /\ (s.pc = "parwrite" => s.todo = {})
          /\ (s.sync => s.act = lx.msk /\ s.avoid = {})
          /\ (~s.sync => Present \subseteq s.act \cup s.avoid)
      BY <1>1, <2>3 DEF ParWrites
    <3> QED
      BY <2>3, <2>6, <3>2, <3>3, <3>4, <3>5 DEF ParWrites
  <2>8. SeqWrites(t)'
    BY <2>3, <2>6 DEF SeqWrites
  <2> QED
    BY <2>1, <2>3, <2>5, <2>7, <2>8, WriteGoesOn
<1> QED
  BY <1>4, <1>5

\* lv_nextmir, for a write: the mirrors it passes over are avoided.
LEMMA NextWritten ==
  ASSUME ContentInv, Benign, NEW t, NEW r, Handled(t, r), r.op = "write", ~r.sync
  PROVE  /\ Seen(r).op = "write" /\ Seen(r).val = r.val /\ Seen(r).was = r.was
         /\ Seen(r).act = r.act /\ Seen(r).sync = r.sync /\ r.avoid \subseteq Seen(r).avoid
         /\ \A x \in Seen(r).done : x \in r.done \cup Seen(r).avoid \/ x = NextMir(r).m
         /\ ~Found(r) => Seen(r).done = Mirror
<1> DEFINE left == Mirror \ r.done
           stop == {m \in left : m \in Hole \/ m \notin Passed(r)}
           seen == NextMir(r).seen
<1>1. /\ r \in Request /\ Hole = {} /\ Present = Mirror /\ Passed(r) = missing
  BY DEF Handled, Benign, Present, Passed, Write
<1>2. /\ NextMir(r).m = IF stop = {} THEN NMirror ELSE First(stop)
      /\ seen = IF stop = {} THEN left ELSE {k \in left : k <= First(stop)}
  BY DEF NextMir
<1>3. stop # {} => First(stop) \in stop /\ First(stop) \in Mirror
  <2>1. stop \in SUBSET Mirror
    OBVIOUS
  <2> HIDE DEF stop
  <2>2. stop # {} => First(stop) \in stop
    BY <2>1, MinIn DEF First
  <2> QED
    BY <2>1, <2>2
<1>4. \A x \in seen : x \in missing \/ x = NextMir(r).m
  <2> TAKE x \in seen
  <2>1. x \in left /\ (x \in stop \/ x \in missing)
    BY <1>1, <1>2
  <2>2. ASSUME x \in stop
        PROVE  x = First(stop) /\ stop # {}
    <3>1. x <= First(stop) /\ stop \in SUBSET Mirror /\ stop # {}
      BY <1>2, <2>2
    <3> HIDE DEF stop
    <3>2. First(stop) = CHOOSE y \in stop : \A z \in stop : y <= z
      BY DEF First, Min
    <3>3. \A z \in Mirror : z \in 0 .. 2
      BY ScheduleAssumption DEF Mirror
    <3>4. \E y \in stop : \A z \in stop : y <= z
      <4>1. CASE 0 \in stop
        BY <3>1, <3>3, <4>1
      <4>2. CASE 0 \notin stop /\ 1 \in stop
        <5>1. \A y \in stop : 1 <= y
          BY <3>1, <3>3, <4>2
        <5> QED
          BY <4>2, <5>1
      <4>3. CASE 0 \notin stop /\ 1 \notin stop
        <5>1. \A y \in stop : y = 2
          BY <3>1, <3>3, <4>3
        <5> QED
          BY <3>1, <5>1
      <4> QED
        BY <4>1, <4>2, <4>3
    <3>5. First(stop) \in stop /\ First(stop) <= x
      BY <2>2, <3>2, <3>4
    <3> QED
      BY <2>2, <3>1, <3>3, <3>5
  <2> QED
    BY <1>2, <2>1, <2>2
<1>5. seen \in SUBSET Mirror /\ (stop = {} => seen = Mirror \ r.done)
  BY <1>2
<1>6. Found(r) <=> stop # {}
  <2>1. NMirror \notin Mirror
    BY ScheduleAssumption DEF Mirror
  <2> QED
    BY <1>1, <1>2, <1>3, <2>1 DEF Found
<1> HIDE DEF left, stop
<1>7. /\ Seen(r) = [r EXCEPT !.done = @ \cup seen,
                             !.avoid = @ \cup ((seen \cap missing) \ Hole)]
  BY <1>1 DEF Seen, Write, Request
<1> HIDE DEF seen
<1>8. /\ Seen(r).done = r.done \cup seen /\ Seen(r).avoid = r.avoid \cup (seen \cap missing)
      /\ Seen(r).op = r.op /\ Seen(r).val = r.val /\ Seen(r).was = r.was
      /\ Seen(r).act = r.act /\ Seen(r).sync = r.sync
  BY <1>1, <1>7 DEF Request
<1>9. r.done \subseteq Mirror
  BY <1>1 DEF Request
<1> QED
  BY <1>4, <1>5, <1>6, <1>8, <1>9

\* The write of the next mirror is started under the sequential policy.
LEMMA NextWrite ==
  ASSUME ContentInv, Benign, Remember, NEW t, NEW r, Written(t, r), ~r.sync, r.busy = {},
         Found(r), Transfer(t, Seen(r), NextMir(r).m, "seqwrite"),
         \A x \in r.done \cap Present :
            x \in r.bad[0] \cup r.avoid \/ copy'[x][t] = r.val
  PROVE  Plain(t)
<1> DEFINE e == Seen(r)
           m == NextMir(r).m
           s == [e EXCEPT !.busy = {m}, !.act = @ \cup {m}, !.pc = "seqwrite"]
<1>1. /\ Handled(t, e) /\ e.bad = r.bad /\ r \in Request /\ e \in Request /\ t \in Track
      /\ m \in Present /\ r.op = "write" /\ r.sync = req[t].sync
  BY SeenStep DEF Written, Handled, ContentInv, Found
<1>2. /\ e.op = "write" /\ e.val = r.val /\ e.was = r.was /\ e.act = r.act
      /\ e.sync = r.sync /\ r.avoid \subseteq e.avoid
      /\ \A x \in e.done : x \in r.done \cup e.avoid \/ x = m
  BY <1>1, NextWritten DEF Written
<1>3. req' = [req EXCEPT ![t] = s] /\ UNCHANGED <<marks, lx, syncx, answer>>
  BY DEF Transfer
<1> HIDE DEF e, m
<1>4. /\ s \in Request /\ s.busy = {m} /\ s.act = e.act \cup {m} /\ s.pc = "seqwrite"
      /\ s.op = "write" /\ s.val = r.val /\ s.was = r.was /\ s.sync = r.sync
      /\ s.bad = r.bad /\ s.done = e.done /\ s.avoid = e.avoid /\ s.todo = e.todo
  BY <1>1, <1>2 DEF Request, Pcs
<1> HIDE DEF s
<1>5. Written(t, s)
  BY <1>1, <1>4 DEF Written, Handled
<1>6. req'[t] = s
  BY <1>1, <1>3 DEF ContentInv, IInv, ReqInv
<1>7. SeqWrites(t)' /\ ParWrites(t)'
  BY <1>2, <1>4, <1>6 DEF SeqWrites, ParWrites
<1> QED
  BY <1>3, <1>4, <1>5, <1>7, WriteGoesOn

\* lv_seqwrite: the next mirror is written, or all are done.
LEMMA SeqDone ==
  ASSUME ContentInv, Benign, Remember, NEW t \in Track, NEW r0, r0 = req[t], Written(t, r0),
         NEW m \in r0.busy, NEW failed \in BOOLEAN, r0.pc = "seqwrite",
         ~failed => copy'[m][t] = r0.val, SeqWrite(t, r0, m, failed)
  PROVE  Plain(t) \/ Ends(t)
<1> DEFINE b == IF failed THEN r0.bad[0] \cup {m} ELSE r0.bad[0]
           r == [r0 EXCEPT !.bad[0] = b, !.busy = {}]
<1>1. /\ Own(t) /\ r0 \in Request /\ m \in Present /\ 0 \in Mirror /\ ~r0.sync
      /\ SeqWrites(t) /\ r0.act # {}
  BY Masks DEF ContentInv, IInv, ReqInv, Own, Shape, SeqWrites, Request
<1>2. b \in SUBSET Present /\ r0.bad[0] \subseteq b
  BY <1>1 DEF Request
<1>3. r = [r0 EXCEPT !.bad[0] = IF failed THEN @ \cup {m} ELSE @, !.busy = {}]
  BY <1>1 DEF Request
<1>4. IF Found(r) THEN Transfer(t, Seen(r), NextMir(r).m, "seqwrite")
      ELSE WriteEnd(t, Seen(r), Seen(r).bad[0])
  BY <1>3 DEF SeqWrite
<1>5. \A x \in r0.done \cap Present : x \in b \cup r0.avoid \/ copy'[x][t] = r0.val
  <2> TAKE x \in r0.done \cap Present
  <2>1. x \in r0.busy => x = m
    BY <1>1 DEF SeqWrites
  <2>2. copy[x][t] = r0.val => copy'[x][t] = r0.val
    BY Masks DEF Written, CopyMoves
  <2> QED
    BY <1>1, <1>2, <2>1, <2>2 DEF SeqWrites
<1> HIDE DEF b
<1>6. /\ r \in Request /\ r.busy = {} /\ r.bad[0] = b /\ r.sync = r0.sync /\ r.val = r0.val
      /\ r.done = r0.done /\ r.avoid = r0.avoid /\ r.act = r0.act /\ Written(t, r)
  <2>1. [r0.bad EXCEPT ![0] = b] \in [Mirror -> SUBSET Present]
    BY <1>1, <1>2 DEF Request
  <2> QED
    BY <1>1, <2>1 DEF Request, Written, Handled
<1> HIDE DEF r
<1>7. CASE Found(r)
  BY <1>1, <1>4, <1>5, <1>6, <1>7, NextWrite
<1>8. CASE ~Found(r)
  <2> DEFINE e == Seen(r)
  <2>1. /\ Handled(t, e) /\ e.busy = {} /\ e.bad = r.bad /\ e \in Request
    BY <1>6, SeenStep DEF Written, Handled, ContentInv
  <2>2. /\ e.op = "write" /\ e.val = r.val /\ e.was = r.was /\ e.act = r.act
        /\ e.sync = r.sync /\ r.avoid \subseteq e.avoid /\ e.done = Mirror
        /\ \A x \in e.done : x \in r.done \cup e.avoid \/ x = NextMir(r).m
    BY <1>1, <1>6, <1>8, NextWritten DEF Written
  <2>3. NextMir(r).m \notin Present
    BY <1>8 DEF Found
  <2>4. Written(t, e)
    BY <1>6, <2>1, <2>2 DEF Written
  <2> HIDE DEF e
  <2>5. \A x \in Present \ (b \cup e.avoid) : copy'[x][t] = e.val
    <3> TAKE x \in Present \ (b \cup e.avoid)
    <3>1. x \in e.done
      BY <2>2, Masks
    <3>2. x \in r0.done /\ x \notin r0.avoid
      BY <1>6, <2>2, <2>3, <3>1
    <3> QED
      BY <1>5, <1>6, <2>2, <3>2
  <2>6. b \cup e.avoid \in SUBSET Present
    BY <1>2, <2>1 DEF Request
  <2>7. Ended(t, e, b \cup e.avoid)
    BY <1>1, <1>6, <2>1, <2>2, <2>4, <2>5, <2>6 DEF Ended, Waiting
  <2>8. WriteEnd(t, e, b)
    BY <1>4, <1>6, <1>8, <2>1 DEF e
  <2> QED
    BY <1>2, <2>1, <2>7, <2>8 DEF Ends
<1> QED
  BY <1>7, <1>8

\* lv_end, for a write.
LEMMA TransferDoneWrite ==
  ASSUME ContentInv, Benign, Remember, NEW t \in Track, NEW m \in Mirror,
         TransferDone(t, m), Write(req[t])
  PROVE  Plain(t) \/ Ends(t)
<1> DEFINE r == req[t]
<1>1. Own(t) /\ r \in Request /\ ReqOk(r) /\ m \in r.busy /\ r.op = "write"
  BY DEF TransferDone, ContentInv, IInv, ReqInv, Write
<1>2. r.pc \in {"starting", "parwrite", "seqwrite"}
  BY <1>1 DEF ReqOk, Own, Shape, WritePcs, BusyPcs
<1>3. PICK res \in Result(t, m), v \in {r.val, copy[m][t]} :
        /\ res = "ok" => v = r.val
        /\ copy' = [copy EXCEPT ![m][t] = v] /\ End(t, m, res)
  BY DEF TransferDone, Benign
<1>4. /\ copy'[m][t] = v /\ \A k \in Mirror, x \in Track :
           k # m \/ x # t => copy'[k][x] = copy[k][x]
  BY <1>3 DEF ContentInv, IInv, DataInv
<1>5. Written(t, r)
  <2>1. r.sync => m \in lx.msk
    BY <1>1, <1>2 DEF Own, Shape, ParWrites, ReqOk
  <2>2. CopyMoves(t)
    BY <1>3, <1>4, <2>1 DEF CopyMoves
  <2> QED
    BY <1>1, <2>2 DEF Written, Handled, ReqOk, TransferDone
<1>6. (res # "ok") \in BOOLEAN /\ (~(res # "ok") => copy'[m][t] = r.val)
  BY <1>3, <1>4
<1>7. CASE r.pc \in {"starting", "parwrite"}
  <2>1. ParWriteDone(t, r, m, res # "ok")
    BY <1>3, <1>7 DEF End
  <2>2. r.pc = "starting" => ~(res # "ok")
    BY <1>3 DEF Result, Benign
  <2> QED
    BY <1>1, <1>5, <1>6, <1>7, <2>1, <2>2, ParDone
<1>8. CASE r.pc = "seqwrite"
  <2>1. SeqWrite(t, r, m, res # "ok")
    BY <1>3, <1>8 DEF End
  <2> QED
    BY <1>1, <1>5, <1>6, <1>8, <2>1, SeqDone
<1> QED
  BY <1>2, <1>7, <1>8

\* No mirror can be written: a write fails before its first transfer.
LEMMA EioWrite ==
  ASSUME ContentInv, Remember, NEW t, NEW r, Written(t, r), copy' = copy, UNCHANGED marks,
         req[t].pc = "pending", Terminate(t, [r EXCEPT !.error = TRUE], lx)
  PROVE  Plain(t)
<1> DEFINE s == [r EXCEPT !.error = TRUE]
<1>1. /\ t \in Track /\ r \in Request /\ r.sync = req[t].sync /\ Own(t) /\ lx \in Lx
      /\ stale' = stale /\ Good(t) \subseteq Mirror
  BY Masks DEF Written, Handled, ContentInv, IInv, ReqInv, marks, Good, Caught, Lx
<1>2. /\ Written(t, s) /\ s.error = TRUE /\ s.sync = r.sync /\ s.val = r.val /\ s.was = r.was
      /\ Write(s) /\ Terminate(t, s, lx)
  BY <1>1 DEF Written, Handled, Request, Write
<1> HIDE DEF s
<1>3. CASE ~r.sync
  <2>1. lx' = lx /\ syncx' = syncx
    BY <1>2, <1>3 DEF Terminate
  <2>2. Good(t)' = Good(t) /\ Writing(t)
    BY <1>1, <1>3, <2>1 DEF Good, Caught, Writing, Written, Write
  <2>3. Agree(t)' /\ \A m \in Good(t)' : copy'[m][t] \in s.was \cup {s.val}
    BY <1>1, <1>2, <2>2 DEF Own, Contents, Agree, Written
  <2>4. Stepped(t) /\ ~Waiting(t)'
    BY <1>1, <1>2, <1>3, <2>3, TerminateWrite
  <2>5. answer'[t].op = "error"
    BY <1>1, <1>2, <1>3 DEF Terminate, ContentInv
  <2> QED
    BY <1>1, <2>1, <2>4, <2>5 DEF Plain, marks
<1>4. CASE r.sync
  <2>1. lx'.msk = lx.msk /\ lx'.err = lx.err /\ syncx' = NTrack /\ answer' = answer
    BY <1>1, <1>2, <1>4 DEF Terminate, Lx
  <2>2. Stepped(t) /\ ~Waiting(t)'
    BY <1>1, <1>2, <1>4, TerminateWrite
  <2> QED
    BY <2>1, <2>2 DEF Plain
<1> QED
  BY <1>3, <1>4

\* A write is taken up by lv_reschedule.
LEMMA PendingWrite ==
  ASSUME ContentInv, NEW t \in Track, req[t].pc = "pending", Write(req[t]), copy' = copy,
         policy' = policy
  PROVE  Written(t, req[t]) /\ req[t].busy = {}
<1>1. req[t] \in Request /\ ReqOk(req[t])
  BY DEF ContentInv, IInv, ReqInv
<1>2. CopyMoves(t)
  BY DEF CopyMoves
<1> QED
  BY <1>1, <1>2 DEF Written, Handled, ReqOk, BusyPcs, Write

\* lv_parallel.
LEMMA ParWriteWrite ==
  ASSUME ContentInv, Benign, Remember, NEW t \in Track, ParWrite(t)
  PROVE  Plain(t)
<1> DEFINE r == req[t]
           T == Targets(r)
           s == [r EXCEPT !.pc = "starting", !.todo = T, !.act = T, !.done = Mirror,
                          !.avoid = Present \cap missing]
<1>1. /\ r.pc = "pending" /\ Write(r) /\ copy' = copy /\ UNCHANGED marks /\ policy' = policy
      /\ IF T = {} THEN Terminate(t, [r EXCEPT !.error = TRUE], lx)
         ELSE req' = [req EXCEPT ![t] = s] /\ UNCHANGED <<lx, syncx, answer>>
  BY DEF ParWrite, disks
<1>2. Written(t, r) /\ r.busy = {} /\ Own(t) /\ r \in Request /\ lx \in Lx
  BY <1>1, PendingWrite DEF ContentInv, IInv, ReqInv
<1>3. T \in SUBSET Present /\ (r.sync => T = lx.msk /\ missing = {})
      /\ (~r.sync => T = Present \ missing)
  BY <1>2, SyncTrack DEF Targets, Lx
<1> HIDE DEF T
<1>4. CASE T = {}
  BY <1>1, <1>2, <1>4, EioWrite
<1>5. CASE T # {}
  <2>1. /\ s \in Request /\ s.pc = "starting" /\ s.todo = T /\ s.busy = {} /\ s.act = T
        /\ s.done = Mirror /\ s.avoid = Present \cap missing /\ s.sync = r.sync
        /\ s.bad = r.bad /\ s.val = r.val /\ s.op = r.op /\ s.was = r.was
    BY <1>2, <1>3 DEF Request, Pcs
  <2> HIDE DEF s
  <2>2. Written(t, s)
    BY <1>2, <2>1 DEF Written, Handled
  <2>3. req'[t] = s /\ req' = [req EXCEPT ![t] = s] /\ UNCHANGED <<marks, lx, syncx, answer>>
    BY <1>1, <1>5 DEF ContentInv, IInv, ReqInv
  <2>4. \A k \in Mirror : s.bad[k] = {}
    BY <1>1, <1>2, <2>1 DEF Own, Shape
  <2>5. ParWrites(t)'
    BY <1>2, <1>3, <1>5, <2>1, <2>3, <2>4, Masks DEF ParWrites
  <2>6. SeqWrites(t)'
    BY <2>1, <2>3 DEF SeqWrites
  <2> QED
    BY <2>1, <2>2, <2>3, <2>5, <2>6, WriteGoesOn
<1> QED
  BY <1>4, <1>5

\* Its loop.
LEMMA StartNextWrite ==
  ASSUME ContentInv, Benign, Remember, NEW t \in Track, StartNext(t)
  PROVE  Plain(t)
<1> DEFINE q  == req[t]
           m  == First(q.todo)
           b  == [q.bad EXCEPT ![m] = {}]
           r0 == [q EXCEPT !.todo = @ \ {m}, !.busy = @ \cup {m}, !.bad = b]
           r  == IF r0.todo = {} THEN [r0 EXCEPT !.pc = "parwrite"] ELSE r0
<1>1. /\ q.pc = "starting" /\ Own(t) /\ q \in Request /\ ReqOk(q) /\ ParWrites(t)
      /\ copy' = copy /\ policy' = policy
  BY DEF StartNext, disks, ContentInv, IInv, ReqInv, Own
<1>2. q.op = "write"
  BY <1>1 DEF Own, Shape, ReadPcs, ReqOk, Request
<1>3. m \in q.todo /\ m \in Present /\ m \in Mirror
  BY <1>1, MinIn, Masks DEF First, Request, ReqOk
<1>4. r0 = [q EXCEPT !.todo = @ \ {m}, !.busy = @ \cup {m}, !.bad[m] = {}]
  BY <1>1 DEF Request
<1>5. req' = [req EXCEPT ![t] = r] /\ UNCHANGED <<marks, lx, syncx, answer>>
  BY <1>4 DEF StartNext, Benign
<1> HIDE DEF m
<1>6. b \in [Mirror -> SUBSET Present]
      /\ \A k \in Mirror : b[k] = IF k = m THEN {} ELSE q.bad[k]
  BY <1>1, <1>3 DEF Request
<1> HIDE DEF b
<1>7. /\ r0 \in Request /\ r0.pc = q.pc /\ r0.todo = q.todo \ {m} /\ r0.busy = q.busy \cup {m}
      /\ r0.act = q.act /\ r0.done = q.done /\ r0.avoid = q.avoid /\ r0.sync = q.sync
      /\ r0.bad = b /\ r0.val = q.val /\ r0.op = q.op /\ r0.was = q.was
  BY <1>1, <1>3, <1>6 DEF Request
<1> HIDE DEF r0
<1>8. /\ r \in Request /\ r.pc = (IF r.todo = {} THEN "parwrite" ELSE "starting")
      /\ r.todo = q.todo \ {m} /\ r.busy = q.busy \cup {m}
      /\ r.act = q.act /\ r.done = q.done /\ r.avoid = q.avoid /\ r.sync = q.sync
      /\ r.bad = b /\ r.val = q.val /\ r.op = q.op /\ r.was = q.was
  BY <1>1, <1>7 DEF Request, Pcs
<1> HIDE DEF r
<1>9. Written(t, r)
  <2>1. CopyMoves(t)
    BY <1>1 DEF CopyMoves
  <2> QED
    BY <1>1, <1>2, <1>3, <1>8, <2>1 DEF Written, Handled, ReqOk
<1>10. req'[t] = r /\ lx' = lx
  BY <1>1, <1>5 DEF ContentInv, IInv, ReqInv
<1>11. ParWrites(t)'
  <2>1. \A k \in r.todo \cup r.busy : r.bad[k] = {}
    BY <1>1, <1>3, <1>6, <1>8, Masks DEF ParWrites, Request
  <2>2. \A x \in r.act : \/ x \in r.todo \cup r.busy
                         \/ copy'[x][t] = r.val
                         \/ \E k \in r.busy : x \in r.bad[k]
    BY <1>1, <1>3, <1>8 DEF ParWrites
  <2> QED
    BY <1>1, <1>3, <1>8, <1>10, <2>1, <2>2 DEF ParWrites
<1>12. SeqWrites(t)'
  BY <1>8, <1>10 DEF SeqWrites
<1> QED
  BY <1>5, <1>8, <1>9, <1>11, <1>12, WriteGoesOn

\* lv_parallel, for a read.
LEMMA ParReadRead ==
  ASSUME ContentInv, Remember, NEW t \in Track, ParRead(t)
  PROVE  Plain(t)
<1>1. req[t] \in Request /\ ReqOk(req[t]) /\ Own(t)
  BY DEF ContentInv, IInv, ReqInv
<1>2. Reading(t, req[t])
  BY <1>1 DEF ParRead, disks, Reading, Handled, ReqOk, Request, Write
<1> QED
  BY <1>2, BestMirRead DEF ParRead

\* lv_nextmir, for a read: it passes over the stale mirrors.
LEMMA NextIsFresh ==
  ASSUME Benign, NEW r \in Request, r.op = "read", ~r.sync, Found(r)
  PROVE  NextMir(r).m \in Present \ stale
<1> DEFINE stop == {m \in Mirror \ r.done : m \in Hole \/ m \notin Passed(r)}
<1>1. Hole = {} /\ Passed(r) = missing \cup stale
  BY DEF Benign, Passed, Write
<1>2. NextMir(r).m = IF stop = {} THEN NMirror ELSE First(stop)
  BY DEF NextMir
<1>3. NextMir(r).m \in Present /\ NMirror \notin Present
  BY ScheduleAssumption DEF Found, Present, Mirror
<1>4. stop \in SUBSET Mirror /\ \A m \in stop : m \notin stale
  BY <1>1
<1> HIDE DEF stop
<1> QED
  BY <1>2, <1>3, <1>4, MinIn DEF First

\* lv_sequential.
LEMMA SequentialBoth ==
  ASSUME ContentInv, Benign, Remember, NEW t \in Track, Sequential(t)
  PROVE  Plain(t)
<1>1. PICK left \in SUBSET Present :
        LET r == [req[t] EXCEPT !.avoid = left] IN
        IF Found(r)
        THEN Transfer(t, Seen(r), NextMir(r).m, IF Write(r) THEN "seqwrite" ELSE "seqread")
        ELSE Eio(t, Seen(r))
  <2>1. {{}} \subseteq SUBSET Present
    OBVIOUS
  <2> QED
    BY <2>1 DEF Sequential
<1> DEFINE r == [req[t] EXCEPT !.avoid = left]
<1>2. /\ req[t].pc = "pending" /\ policy = "sequential" /\ copy' = copy /\ policy' = policy
      /\ Own(t) /\ req[t] \in Request /\ ReqOk(req[t])
  BY DEF Sequential, disks, ContentInv, IInv, ReqInv
<1>3. /\ r \in Request /\ r.op = req[t].op /\ r.sync = req[t].sync /\ r.busy = req[t].busy
      /\ r.done = req[t].done /\ r.bad = req[t].bad /\ r.val = req[t].val
      /\ r.was = req[t].was /\ r.todo = req[t].todo /\ r.act = req[t].act
  BY <1>2 DEF Request
<1>4. IF Found(r)
      THEN Transfer(t, Seen(r), NextMir(r).m, IF Write(r) THEN "seqwrite" ELSE "seqread")
      ELSE Eio(t, Seen(r))
  BY <1>1
<1> HIDE DEF r
<1>5. ~r.sync /\ r.busy = {} /\ r.op \in {"read", "write"} /\ Handled(t, r)
  BY <1>2, <1>3 DEF Own, Shape, ReqOk, BusyPcs, Request, Handled
<1>6. Handled(t, Seen(r)) /\ Seen(r).busy = {}
  BY <1>5, SeenStep DEF ContentInv
<1>7. CASE r.op = "read"
  <2>1. Seen(r).op = "read" /\ Seen(r).sync = r.sync
    BY <1>3, <1>7 DEF Seen, Request
  <2>2. Reading(t, Seen(r))
    BY <1>2, <1>3, <1>6, <1>7, <2>1 DEF Reading
  <2>3. CASE Found(r)
    <3>1. Transfer(t, Seen(r), NextMir(r).m, "seqread")
      BY <1>4, <1>7, <2>3 DEF Write
    <3>2. NextMir(r).m \in Present \ stale
      BY <1>3, <1>5, <1>7, <2>3, NextIsFresh
    <3> QED
      BY <1>5, <2>1, <2>2, <3>1, <3>2, TransferRead
  <2>4. CASE ~Found(r)
    BY <1>4, <2>2, <2>4, EioRead
  <2> QED
    BY <2>3, <2>4
<1>8. CASE r.op = "write"
  <2>1. Written(t, r)
    <3>1. CopyMoves(t)
      BY <1>2 DEF CopyMoves
    <3> QED
      BY <1>2, <1>3, <1>5, <1>8, <3>1 DEF Written
  <2>2. r.done = {}
    BY <1>2, <1>3, <1>8 DEF Own, Shape, Write
  <2>3. CASE Found(r)
    <3>1. Transfer(t, Seen(r), NextMir(r).m, "seqwrite")
      BY <1>4, <1>8, <2>3 DEF Write
    <3> QED
      BY <1>5, <2>1, <2>2, <2>3, <3>1, NextWrite
  <2>4. CASE ~Found(r)
    <3>1. Written(t, Seen(r))
      BY <1>5, <1>6, <1>8, <2>1, NextWritten DEF Written
    <3> QED
      BY <1>2, <1>4, <2>4, <3>1, EioWrite DEF Eio
  <2> QED
    BY <2>3, <2>4
<1> QED
  BY <1>5, <1>7, <1>8

\* lv_stalepp_done.
LEMMA SaDoneWrite ==
  ASSUME ContentInv, Remember, NEW t \in Track, SaDone(t)
  PROVE  Stepped(t) /\ ~Waiting(t)' /\ Waiting(t)
<1> DEFINE r == req[t]
<1>1. /\ Terminate(t, r, lx) /\ stale' = stale /\ copy' = copy /\ policy' = policy
      /\ wheel # << >> /\ t = Head(wheel) /\ Own(t) /\ r \in Request /\ ReqOk(r)
      /\ lx \in Lx
  BY DEF SaDone, disks, ContentInv, IInv, ReqInv
<1>2. Waiting(t)
  BY <1>1 DEF ContentInv, WheelOk
<1>3. r.op = "write"
  BY <1>1, <1>2 DEF Own, Shape, ReadPcs, ReqOk, Request, Waiting
<1>4. Written(t, r)
  <2>1. CopyMoves(t)
    BY <1>1 DEF CopyMoves
  <2> QED
    BY <1>1, <1>3, <2>1 DEF Written, Handled, ReqOk
<1>5. ~r.sync => lx' = lx /\ syncx' = syncx
  BY <1>1 DEF Terminate
<1>6. ~r.sync => /\ Agree(t)'
                 /\ \A m \in Good(t)' : copy'[m][t] \in r.was \cup {r.val}
                 /\ ~r.error => \A m \in Good(t)' : copy'[m][t] = r.val
  BY <1>1, <1>2, <1>3, <1>5
     DEF Good, Caught, Own, Contents, Agree, Waiting, Writing, Write
<1>7. r.sync /\ ~r.error => \A m \in lx.msk \ lx.err : copy'[m][t] = r.val
  BY <1>1, <1>2 DEF Own, Finds, Waiting
<1> QED
  BY <1>1, <1>2, <1>4, <1>6, <1>7, TerminateWrite

-----------------------------------------------------------------------------
(* The mirror scheduler implements LvBlock.                                *)

\* One step of a request.
LEMMA StepOfOne ==
  ASSUME ContentInv, Benign, Remember, NEW t \in Track, Step(t)
  PROVE  /\ Stepped(t) /\ WheelMoves(t)
         /\ policy' = policy /\ missing' = missing
<1>1. ReqOk(req[t]) /\ \A m \in req[t].busy : req[t].pc \in BusyPcs
  BY DEF ContentInv, IInv, ReqInv, ReqOk
<1>2. policy' = policy /\ missing' = missing
  BY DEF Step, ParWrite, StartNext, ParRead, Sequential, SaDone, TransferDone
<1>3. CASE ParWrite(t)
  BY <1>2, <1>3, ParWriteWrite DEF ParWrite, Plain, WheelMoves, Waiting, marks
<1>4. CASE StartNext(t)
  BY <1>2, <1>4, StartNextWrite DEF StartNext, Plain, WheelMoves, Waiting, marks
<1>5. CASE ParRead(t)
  BY <1>2, <1>5, ParReadRead DEF ParRead, Plain, WheelMoves, Waiting, marks
<1>6. CASE Sequential(t)
  BY <1>2, <1>6, SequentialBoth DEF Sequential, Plain, WheelMoves, Waiting, marks
<1>7. CASE SaDone(t)
  BY <1>2, <1>7, SaDoneWrite DEF SaDone, WheelMoves
<1>8. ASSUME NEW m \in Mirror, TransferDone(t, m)
      PROVE  Stepped(t) /\ WheelMoves(t)
  <2>1. Plain(t) \/ Ends(t)
    BY <1>8, TransferDoneRead, TransferDoneWrite
  <2>2. ~Waiting(t)
    BY <1>1, <1>8 DEF TransferDone, Waiting, BusyPcs
  <2>3. CASE Plain(t)
    BY <2>2, <2>3 DEF Plain, WheelMoves, marks
  <2>4. CASE Ends(t)
    BY <2>2, <2>4, WriteEndWrite DEF WheelMoves
  <2> QED
    BY <2>1, <2>3, <2>4
<1> QED
  BY <1>2, <1>3, <1>4, <1>5, <1>6, <1>7, <1>8 DEF Step

\* The wheel holds the requests that wait for the status area, each once.
LEMMA WheelTurns ==
  ASSUME WheelOk, NEW t \in Track, WheelMoves(t),
         \A k \in Track \ {t} : req'[k] = req[k]
  PROVE  WheelOk'
<1>1. \A k \in Track \ {t} : Waiting(k) => Waiting(k)'
  BY DEF Waiting
<1>2. wheel \in Seq(Track) /\ \A i \in 1 .. Len(wheel) : wheel[i] \in Track /\ Waiting(wheel[i])
  BY DEF WheelOk
<1>3. CASE wheel' = wheel /\ ~Waiting(t)
  BY <1>1, <1>2, <1>3 DEF WheelOk
<1>4. CASE wheel' = Append(wheel, t) /\ ~Waiting(t) /\ Waiting(t)'
  <2>1. /\ wheel' \in Seq(Track) /\ Len(wheel') = Len(wheel) + 1
        /\ \A i \in 1 .. Len(wheel') : wheel'[i] = IF i = Len(wheel) + 1 THEN t ELSE wheel[i]
    BY <1>2, <1>4
  <2>2. \A i \in 1 .. Len(wheel') : i # Len(wheel) + 1 => i \in 1 .. Len(wheel)
    BY <1>2, <2>1
  <2>3. \A i \in 1 .. Len(wheel) : wheel[i] # t
    BY <1>2, <1>4
  <2>4. \A i, j \in 1 .. Len(wheel') : wheel'[i] = wheel'[j] => i = j
    BY <2>1, <2>2, <2>3 DEF WheelOk
  <2>5. \A i \in 1 .. Len(wheel') : req'[wheel'[i]].pc = "vgsa"
    BY <1>1, <1>2, <1>4, <2>1, <2>2, <2>3 DEF Waiting
  <2> QED
    BY <2>1, <2>4, <2>5 DEF WheelOk, Waiting
<1>5. CASE wheel # << >> /\ Head(wheel) = t /\ wheel' = Tail(wheel)
  <2>1. /\ wheel' \in Seq(Track) /\ Len(wheel') = Len(wheel) - 1 /\ Len(wheel) \in Nat \ {0}
        /\ \A i \in 1 .. Len(wheel') : wheel'[i] = wheel[i + 1]
    BY <1>2, <1>5
  <2>2. \A i \in 1 .. Len(wheel') : i + 1 \in 1 .. Len(wheel) /\ wheel[i + 1] # t
    <3>1. wheel[1] = t /\ 1 \in 1 .. Len(wheel)
      BY <1>2, <1>5, <2>1
    <3>2. \A i \in 1 .. Len(wheel') : i + 1 \in 1 .. Len(wheel) /\ i + 1 # 1
      BY <2>1
    <3> QED
      BY <3>1, <3>2 DEF WheelOk
  <2>3. \A i, j \in 1 .. Len(wheel') : wheel'[i] = wheel'[j] => i = j
    <3>1. \A i, j \in 1 .. Len(wheel') : wheel'[i] = wheel'[j] => i + 1 = j + 1
      BY <2>1, <2>2 DEF WheelOk
    <3>2. \A i, j \in 1 .. Len(wheel') : i + 1 = j + 1 => i = j
      BY <2>1
    <3> QED
      BY <3>1, <3>2
  <2>4. \A i \in 1 .. Len(wheel') : req'[wheel'[i]].pc = "vgsa"
    <3> TAKE i \in 1 .. Len(wheel')
    <3>1. /\ wheel[i + 1] \in Track \ {t} /\ Waiting(wheel[i + 1])
          /\ wheel'[i] = wheel[i + 1]
      BY <1>2, <2>1, <2>2
    <3> QED
      BY <1>1, <3>1 DEF Waiting
  <2> QED
    BY <2>1, <2>3, <2>4 DEF WheelOk, Waiting
<1> QED
  BY <1>3, <1>4, <1>5 DEF WheelMoves

\* For LvBlock it is an answer, or nothing, or that what is stored is known better.
LEMMA BlockStep ==
  ASSUME ContentInv, NEW t \in Track, Outcome(t), \A k \in Track : ShiftsAt(k),
         \A k \in Track \ {t} : req'[k] = req[k]
  PROVE  Block!Next
<1>1. Block!Shifts
  <2> SUFFICES ASSUME NEW k \in Track
               PROVE  /\ held'[k] # {}
                      /\ held'[k] \subseteq IF Ask(req[k]).op = "write"
                                            THEN Ask(req[k]).was \cup {Ask(req[k]).val}
                                            ELSE held[k]
    BY DEF Block!Shifts
  <2>1. req[k] \in Request /\ ShiftsAt(k) /\ (req[k].op = "idle" => ~Write(req[k]))
    BY DEF ContentInv, IInv, ReqInv, Write
  <2> QED
    BY <2>1 DEF ShiftsAt, Ask, Writing, Write
<1>2. CASE Ask(req'[t]) = Ask(req[t]) /\ answer' = answer
  <2>1. \A k \in Track : Ask(req'[k]) = Ask(req[k])
    BY <1>2
  <2> QED
    BY <1>1, <1>2, <2>1 DEF Block!Next, Block!Shift
<1>3. CASE /\ req[t].op # "idle" /\ ~req[t].sync /\ req'[t] = NoReq
           /\ \E a \in Block!Answers : /\ Block!Right(Ask(req[t]), held'[t], a)
                                       /\ answer' = [answer EXCEPT ![t] = a]
  <2>1. Ask(req[t]) # [op |-> "idle"] /\ Ask(req'[t]) = [op |-> "idle"]
    BY <1>3 DEF Ask, NoReq, Write
  <2> DEFINE asked == [k \in Track |-> Ask(req[k])]
  <2>2. asked' = [asked EXCEPT ![t] = [op |-> "idle"]]
    <3>1. \A k \in Track \ {t} : Ask(req'[k]) = Ask(req[k])
      OBVIOUS
    <3>2. asked' = [k \in Track |-> Ask(req'[k])]
      OBVIOUS
    <3> QED
      BY <2>1, <3>1, <3>2
  <2>3. Block!Answer(t)
    BY <1>1, <1>3, <2>1, <2>2 DEF Block!Answer, Block!Idle
  <2> QED
    BY <2>3 DEF Block!Next
<1> QED
  BY <1>2, <1>3 DEF Outcome

\* What a step that is of no request in particular shows.
LEMMA AllKept ==
  ASSUME ContentInv, IInv', Remember, \A k \in Track : Kept(k), policy' = policy,
         wheel' = wheel, req' = req, answer' = answer, syncx' # NTrack => missing' = {}
  PROVE  ContentInv' /\ Block!Next
<1>1. \A k \in Track : Own(k)' /\ ShiftsAt(k)
  BY KeptStep
<1>2. WheelOk'
  BY DEF ContentInv, WheelOk, Waiting
<1>3. ContentInv'
  BY <1>1, <1>2 DEF ContentInv
<1>4. PICK t \in Track : TRUE
  BY Masks
<1>5. Outcome(t)
  BY DEF Outcome
<1> QED
  BY <1>1, <1>3, <1>5, BlockStep

\* One that is.
LEMMA OneMoves ==
  ASSUME ContentInv, IInv', Remember, NEW t \in Track, Stepped(t), WheelMoves(t),
         policy' = policy, missing' = missing
  PROVE  ContentInv' /\ Block!Next
<1>1. \A k \in Track \ {t} : Own(k)' /\ ShiftsAt(k) /\ req'[k] = req[k]
  BY KeptStep DEF Stepped, Kept
<1>2. \A k \in Track : Own(k)' /\ ShiftsAt(k)
  BY <1>1 DEF Stepped
<1>3. WheelOk'
  BY <1>1, WheelTurns DEF ContentInv
<1>4. answer' \in [Track -> Block!Answers \cup {NoAnswer}]
  BY DEF Stepped, Outcome, ContentInv
<1>5. ContentInv'
  BY <1>2, <1>3, <1>4 DEF ContentInv, Stepped
<1> QED
  BY <1>1, <1>2, <1>5, BlockStep DEF Stepped

\* Outside the transfers the history stays as it is.
LEMMA HeldStays ==
  ASSUME ContentInv, NEW k \in Track, Remember, copy' = copy, stale' = stale, ~Write(req[k])
  PROVE  held'[k] = held[k]
<1>1. Fresh(k)' = Fresh(k)
  BY DEF Fresh
<1>2. Fresh(k) # {} => held[k] = Fresh(k)
  BY DEF ContentInv, Own, Contents
<1> QED
  BY <1>1, <1>2 DEF Remember

\* A request comes in.
LEMMA SubmitBlock ==
  ASSUME ContentInv, IInv', Remember, NEW t \in Track, Submit(t)
  PROVE  ContentInv' /\ Block!Next
<1>1. PICK r \in [op : {"read"}, val : {NoReq.val}] \cup [op : {"write"}, val : Value] :
        req' = [req EXCEPT ![t] = [NoReq EXCEPT !.op = r.op, !.val = r.val, !.pc = "pending",
                                      !.was = IF Write(r) THEN held[t] ELSE {}]]
  BY DEF Submit
<1> DEFINE s == [NoReq EXCEPT !.op = r.op, !.val = r.val, !.pc = "pending",
                              !.was = IF Write(r) THEN held[t] ELSE {}]
<1>2. /\ r.op \in {"read", "write"} /\ r.val \in Value
      /\ req \in [Track -> Request] /\ held[t] \in SUBSET Value
      /\ NoReq \in Request
  <2>1. NoReq \in Request /\ NoReq.val \in Value
    BY NoReqType DEF ContentInv, IInv, DataInv, Request
  <2>2. r.op \in {"read", "write"} /\ r.val \in Value
    BY <2>1
  <2> QED
    BY <2>1, <2>2 DEF ContentInv, IInv, ReqInv, DataInv
<1>3. /\ s \in Request /\ s.op = r.op /\ s.val = r.val /\ s.pc = "pending" /\ s.sync = FALSE
      /\ s.was = (IF Write(r) THEN held[t] ELSE {}) /\ s.done = {} /\ s.busy = {}
      /\ \A k \in Mirror : s.bad[k] = {}
  BY <1>2 DEF NoReq, Request, Pcs
<1>4. /\ req[t].op = "idle" /\ copy' = copy /\ stale' = stale /\ wheel' = wheel
      /\ policy' = policy /\ missing' = missing /\ lx' = lx /\ syncx' = syncx
      /\ answer' = [answer EXCEPT ![t] = NoAnswer]
  BY DEF Submit, Idle, disks, marks
<1> HIDE DEF s
<1>5. req' = [req EXCEPT ![t] = s] /\ req'[t] = s /\ \A k \in Track \ {t} : req'[k] = req[k]
  BY <1>1, <1>2 DEF s
<1>6. \A k \in Track : Good(k)' = Good(k)
  BY <1>4 DEF Good, Caught
<1>7. \A k \in Track \ {t} : Kept(k)
  BY <1>4, <1>5, <1>6 DEF Kept, ContentInv
<1>8. \A k \in Track \ {t} : Own(k)'
  BY <1>4, <1>7, KeptStep
<1>9. Own(t) /\ ~Writing(t) /\ ~Write(req[t]) /\ ~req[t].sync /\ ~Waiting(t)
  <2>1. ReqOk(req[t])
    BY DEF ContentInv, IInv, ReqInv
  <2> QED
    BY <1>4, <2>1 DEF ContentInv, Writing, Write, ReqOk, Waiting
<1>10. held'[t] = held[t]
  BY <1>4, <1>9, HeldStays
<1>11. Own(t)'
  <2>1. /\ held'[t] # {} /\ Agree(t)' /\ \A k \in Good(t)' : copy'[k][t] \in held'[t]
    BY <1>4, <1>6, <1>9, <1>10 DEF Own, Contents, Agree
  <2>2. Fresh(t)' # {} => held'[t] = Fresh(t)'
    BY <1>4, <1>9, <1>10 DEF Own, Contents, Fresh
  <2>3. Writing(t)' => s.was = held[t]
    BY <1>3, <1>5 DEF Writing, Write
  <2>4. Contents(t)'
    BY <1>3, <1>5, <1>10, <2>1, <2>2, <2>3 DEF Contents
  <2>5. Shape(t)'
    BY <1>2, <1>3, <1>4, <1>5 DEF Shape, ReadPcs, WritePcs, Write, ContentInv
  <2> QED
    BY <1>3, <1>5, <2>4, <2>5 DEF Own, ParWrites, SeqWrites, Finds
<1>12. WheelOk'
  BY <1>4, <1>5, <1>9, WheelTurns DEF WheelMoves, ContentInv
<1>13. ContentInv'
  BY <1>4, <1>8, <1>11, <1>12 DEF ContentInv
<1>14. held' = held
  <2>1. \A k \in Track \ {t} : held'[k] = held[k]
    <3> TAKE k \in Track \ {t}
    <3>1. Fresh(k)' = Fresh(k) /\ answer'[k] = answer[k]
      BY <1>4 DEF Fresh, ContentInv
    <3>2. Fresh(k) # {} => held[k] = Fresh(k)
      BY DEF ContentInv, Own, Contents
    <3> QED
      BY <3>1, <3>2 DEF Remember
  <2>2. held \in [Track -> SUBSET Value] /\ held' \in [Track -> SUBSET Value]
    BY DEF ContentInv, IInv, DataInv
  <2> QED
    BY <1>10, <2>1, <2>2
<1>15. Block!Ask(t)
  <2> DEFINE asked == [k \in Track |-> Ask(req[k])]
             a == Ask(s)
  <2>1. a \in Block!Asks /\ (a.op = "write" => a.was = held[t])
    BY <1>2, <1>3 DEF Ask, Write, Block!Asks
  <2>2. asked[t] = [op |-> "idle"]
    BY <1>4 DEF Ask
  <2>3. asked' = [asked EXCEPT ![t] = a]
    <3>1. asked' = [k \in Track |-> Ask(req'[k])]
      OBVIOUS
    <3>2. Ask(req'[t]) = a /\ \A k \in Track \ {t} : Ask(req'[k]) = Ask(req[k])
      BY <1>5
    <3> QED
      BY <3>1, <3>2
  <2> HIDE DEF a
  <2> QED
    BY <1>4, <1>14, <2>1, <2>2, <2>3 DEF Block!Ask, Block!Idle, Block!None, NoAnswer
<1> QED
  BY <1>13, <1>15 DEF Block!Next

\* Where a resynchronisation is.
LEMMA SyncAt ==
  ASSUME IInv
  PROVE  /\ lx.trk = -1 => syncx \in {0, NTrack}
         /\ lx.trk # -1 => syncx \in Track /\ syncx # NTrack
<1>1. CASE lx.trk = -1 /\ syncx = NTrack
  BY <1>1
<1>2. CASE syncx \in Track /\ lx.trk \in {syncx, syncx - 1}
  <2>1. syncx \in Nat /\ syncx # -1 /\ syncx # NTrack
    BY <1>2, Masks
  <2> QED
    BY <1>2, <2>1
<1> QED
  BY <1>1, <1>2 DEF IInv, ReqInv, SyncOk

\* lv_syncx goes on.
LEMMA SyncReadBlock ==
  ASSUME ContentInv, Benign, IInv', Remember, SyncRead
  PROVE  ContentInv' /\ Block!Next
<1> DEFINE t == IF syncx = NTrack THEN 0 ELSE syncx
           l == IF lx.trk = -1 THEN [trk |-> t, msk |-> SyncMask, err |-> {}]
                ELSE [lx EXCEPT !.trk = t]
           s == [NoReq EXCEPT !.op = "read", !.sync = TRUE, !.pc = "pending"]
<1>1. /\ req[t].op = "idle" /\ missing = {} /\ missing' = {} /\ policy # "sequential"
      /\ policy' = policy /\ copy' = copy /\ stale' = stale /\ wheel' = wheel /\ answer' = answer
      /\ \/ /\ l.msk = {} /\ lx' = [l EXCEPT !.trk = IF t = Last THEN -1 ELSE t]
            /\ req' = req
         \/ /\ req' = [req EXCEPT ![t] = s] /\ lx' = l /\ syncx' = t
  BY DEF SyncRead, marks, disks, Benign, Idle
<1>2. t \in Track /\ (lx.trk = -1 => t = 0) /\ (lx.trk # -1 => t = syncx)
  BY Masks, SyncAt DEF ContentInv
<1>3. \A k \in Track : ~req[k].sync
  BY <1>1, <1>2, Masks DEF ContentInv, IInv, ReqInv, SyncOk, ReqOk
<1>4. s \in Request /\ s.op = "read" /\ s.sync = TRUE /\ s.pc = "pending" /\ s.busy = {}
  BY NoReqType DEF Request, Pcs, ContentInv, IInv, DataInv
<1>5. lx \in Lx /\ Present \ missing \subseteq Present
  BY DEF ContentInv, IInv, ReqInv
<1>6. /\ l.trk # -1 /\ (lx.trk = -1 => t = 0)
      /\ lx.trk # -1 => l.msk = lx.msk /\ l.err = lx.err /\ t = syncx
  BY <1>2, <1>5, Masks DEF Lx
<1> HIDE DEF t, s
<1>7. CASE l.msk = {} /\ lx' = [l EXCEPT !.trk = IF t = Last THEN -1 ELSE t] /\ req' = req
  <2>1. lx'.msk = {}
    BY <1>5, <1>7 DEF Lx
  <2>2. \A k \in Track : Kept(k)
    BY <1>1, <1>3, <1>7, <2>1 DEF Kept, Good, Caught
  <2> QED
    BY <1>1, <1>7, <2>2, AllKept
<1>8. ASSUME NEW u \in Track, u = t, req' = [req EXCEPT ![u] = s], lx' = l, syncx' = u
      PROVE  ContentInv' /\ Block!Next
  <2>1. req'[u] = s /\ req[u].op = "idle" /\ \A k \in Track \ {u} : req'[k] = req[k]
    BY <1>1, <1>8 DEF ContentInv, IInv, ReqInv
  <2>2. \A k \in Track : Good(k)' \subseteq Good(k)
    <3> TAKE k \in Track
    <3>1. Caught(k)' \subseteq Caught(k)
      <4>1. CASE lx.trk = -1
        <5>1. ~(k < 0)
          BY DEF Track
        <5> QED
          BY <1>6, <1>8, <4>1, <5>1 DEF Caught
      <4>2. CASE lx.trk # -1
        BY <1>6, <1>8, <4>2 DEF Caught
      <4> QED
        BY <4>1, <4>2
    <3> QED
      BY <1>1, <3>1 DEF Good
  <2>3. \A k \in Track \ {u} : Kept(k)
    BY <1>1, <1>3, <2>1, <2>2 DEF Kept
  <2>4. \A k \in Track \ {u} : Own(k)' /\ ShiftsAt(k)
    BY <1>1, <2>3, KeptStep
  <2>5. Own(u) /\ ~Writing(u) /\ ~Write(req[u]) /\ ~Waiting(u)
    <3>1. ReqOk(req[u])
      BY DEF ContentInv, IInv, ReqInv
    <3> QED
      BY <2>1, <3>1 DEF ContentInv, Writing, Write, ReqOk, Waiting
  <2>6. held'[u] = held[u]
    BY <1>1, <2>5, HeldStays
  <2>7. Own(u)'
    <3>1. /\ held'[u] # {} /\ Agree(u)' /\ \A k \in Good(u)' : copy'[k][u] \in held'[u]
      BY <1>1, <2>2, <2>5, <2>6 DEF Own, Contents, Agree
    <3>2. Fresh(u)' # {} => held'[u] = Fresh(u)'
      BY <1>1, <2>5, <2>6 DEF Own, Contents, Fresh
    <3>3. Contents(u)'
      BY <1>4, <2>1, <3>1, <3>2 DEF Contents, Writing, Write
    <3>4. Shape(u)'
      BY <1>1, <1>4, <2>1 DEF Shape, ReadPcs, Write
    <3> QED
      BY <1>4, <2>1, <3>3, <3>4 DEF Own, ParWrites, SeqWrites, Finds, Write
  <2>8. ShiftsAt(u)
    BY <2>5, <2>6 DEF ShiftsAt, Own, Contents
  <2>9. Outcome(u)
    <3>1. Ask(req'[u]) = Ask(req[u])
      BY <1>1, <1>4, <2>1 DEF Ask
    <3> QED
      BY <1>1, <3>1 DEF Outcome
  <2>10. WheelOk'
    BY <1>1, <2>1, <2>5, WheelTurns DEF WheelMoves, ContentInv
  <2>11. ContentInv'
    BY <1>1, <2>4, <2>7, <2>10 DEF ContentInv
  <2> QED
    BY <2>1, <2>4, <2>8, <2>9, <2>11, BlockStep
<1> QED
  BY <1>1, <1>2, <1>7, <1>8

\* At the start all fresh mirrors hold the same.
LEMMA BlockInit ==
  ASSUME Init
  PROVE  ContentInv /\ Block!Init
<1>1. PICK v \in Value, w \in Value :
        copy = [m \in Mirror |-> [t \in Track |-> IF m \in stale THEN w ELSE v]]
  BY DEF Init
<1>2. /\ stale \in SUBSET Present /\ stale # Present /\ wheel = << >> /\ missing = {}
      /\ req = [t \in Track |-> NoReq] /\ lx = [trk |-> -1, msk |-> {}, err |-> {}]
      /\ syncx = NTrack /\ answer = [t \in Track |-> NoAnswer]
      /\ held = [t \in Track |-> Fresh(t)]
  BY DEF Init
<1>3. ASSUME NEW t \in Track
      PROVE  Fresh(t) = {v} /\ \A m \in Present \ stale : copy[m][t] = v
  <2>1. \A m \in Present \ stale : copy[m][t] = v
    BY <1>1, Masks
  <2>2. PICK m \in Present \ stale : TRUE
    BY <1>2
  <2> QED
    BY <2>1, <2>2 DEF Fresh
<1>4. ASSUME NEW t \in Track
      PROVE  Own(t)
  <2>1. req[t] = NoReq /\ held[t] = {v} /\ answer[t] = NoAnswer /\ Good(t) = Present \ stale
    BY <1>2, <1>3, Masks DEF Good, Caught
  <2>2. /\ NoReq.op = "idle" /\ NoReq.pc = "none" /\ ~NoReq.sync
    BY DEF NoReq
  <2>3. Contents(t)
    BY <1>3, <2>1, <2>2 DEF Contents, Writing, Write, Agree
  <2> QED
    BY <2>1, <2>2, <2>3 DEF Own, Shape, ParWrites, SeqWrites, Finds, Write
<1>5. WheelOk
  BY <1>2 DEF WheelOk
<1>6. ContentInv
  BY <1>2, <1>4, <1>5, Initially DEF ContentInv
<1>7. Block!Init
  <2>1. [t \in Track |-> Ask(req[t])] = [t \in Track |-> [op |-> "idle"]]
    BY <1>2 DEF Ask, NoReq
  <2>2. /\ [t \in Track |-> v] \in [Track -> Value]
        /\ held = [t \in Track |-> {[k \in Track |-> v][t]}]
    BY <1>2, <1>3
  <2> QED
    BY <1>2, <2>1, <2>2 DEF Block!Init, Block!Idle, Block!None, NoAnswer
<1> QED
  BY <1>6, <1>7

\* Every step.
LEMMA ContentInvariance ==
  ASSUME ContentInv, Benign, [Next]_vars
  PROVE  ContentInv' /\ [Block!Next]_(Block!vars)
<1>1. IInv'
  BY Invariance DEF ContentInv
<1>2. CASE UNCHANGED vars
  <2>1. /\ UNCHANGED <<req, answer, held, lx, syncx, wheel, missing, policy, copy, stale>>
    BY <1>2 DEF vars, disks, marks
  <2>2. \A k \in Track : Own(k)'
    BY <2>1 DEF ContentInv, Own, Shape, ParWrites, SeqWrites, Contents, Finds, Writing,
                Fresh, Good, Caught, Agree
  <2>3. WheelOk'
    BY <2>1 DEF ContentInv, WheelOk, Waiting
  <2> QED
    BY <1>1, <2>1, <2>2, <2>3 DEF ContentInv, Block!vars
<1>3. ASSUME NEW t \in Track, Submit(t), Remember
      PROVE  ContentInv' /\ Block!Next
  BY <1>1, <1>3, SubmitBlock
<1>4. ASSUME NEW t \in Track, Step(t), Remember
      PROVE  ContentInv' /\ Block!Next
  BY <1>1, <1>4, StepOfOne, OneMoves
<1>5. CASE SyncRead /\ Remember
  BY <1>1, <1>5, SyncReadBlock
<1>6. ASSUME UNCHANGED <<policy, copy, stale, wheel, req, lx, syncx, answer>>, Remember,
             syncx # NTrack => missing' = {}
      PROVE  ContentInv' /\ Block!Next
  <2>1. \A k \in Track : Kept(k)
    BY <1>6 DEF Kept, Good, Caught
  <2> QED
    BY <1>1, <1>6, <2>1, AllKept
<1>7. CASE LoseQuorum /\ Remember
  BY <1>6, <1>7 DEF LoseQuorum, disks, marks, ContentInv
<1>8. ASSUME NEW m \in Mirror, GoMissing(m) \/ Attach(m), Remember
      PROVE  ContentInv' /\ Block!Next
  BY <1>6, <1>8 DEF GoMissing, Attach, disks, marks, ContentInv, Benign
<1> QED
  BY <1>2, <1>3, <1>4, <1>5, <1>7, <1>8 DEF Next

\* A mirrored extent is one row of tracks: whatever transfers fail, whichever mirrors are
\* marked, read again, repaired or resynchronised meanwhile, and when, a read returns the
\* last write that was answered; a write that fails has happened or has not.
THEOREM ImplementsBlock ==
  ASSUME Benign
  PROVE  Spec => Implements
<1>1. Init => ContentInv /\ Block!Init
  BY BlockInit
<1>2. ContentInv /\ [Next]_vars => ContentInv' /\ [Block!Next]_(Block!vars)
  BY ContentInvariance
<1> QED
  BY <1>1, <1>2, PTL DEF Spec, Implements, Block!Spec

-----------------------------------------------------------------------------
(* A write that is answered is safe from a crash.                          *)

\* What a request that waits for the status area asks it for: mirrors to mark stale, or
\* to make fresh.
Marks(t)  == IF Waiting(t) /\ req[t].done = {} THEN req[t].bad[0] ELSE {}
Clears(t) == IF Waiting(t) THEN req[t].done ELSE {}

\* No mirror is marked before it is made fresh.
InOrder ==
    \A s, t \in Track : \A i, j \in 1 .. Len(wheel) :
        i < j /\ wheel[i] = s /\ wheel[j] = t => Marks(s) \cap Clears(t) = {}

\* What is made fresh waits its turn.
OnWheel ==
    \A t \in Track : Clears(t) # {} => \E i \in 1 .. Len(wheel) : wheel[i] = t

\* A stale mirror is stale on the disks or its mark is waited for, and if a
\* resynchronisation is to make it fresh, on a track that it has not come to.
MarksOk ==
    quorum =>
       /\ stale \ changing \subseteq onDisk
       /\ \A m \in changing : \E t \in Track : m \in Marks(t)
       /\ syncx # NTrack =>
             \A m \in lx.msk \cap changing : \E t \in Track : t > lx.trk /\ m \in Marks(t)
Ahead ==
    syncx # NTrack =>
        \A t \in Track : \A m \in Marks(t) : m \in lx.msk \ lx.err => t > lx.trk

\* What is made fresh: if it has become stale again its new mark is waited for.
ClearsOk(t) ==
    Clears(t) # {} =>
       /\ req[t].sync /\ lx.msk = {} /\ req[t].bad[0] \cap Clears(t) = {}
       /\ quorum => req[t].bad[0] \subseteq onDisk /\ Clears(t) \cap stale \subseteq changing

\* A write that waits is on each mirror that is not, or will not be, stale on the disks.
OnAll(t) ==
    LET r == req[t] IN
    Writing(t) /\ Waiting(t) =>
       /\ r.done = {}
       /\ ~r.error =>
             /\ \E m \in Present : copy[m][t] = r.val
             /\ quorum => \A m \in Present :
                   \/ copy[m][t] = r.val
                   \/ m \in r.bad[0]
                   \/ m \in onDisk /\ \A s \in Track : m \notin Clears(s)

Durable ==
    InOrder /\ OnWheel /\ MarksOk /\ Ahead /\ \A t \in Track : ClearsOk(t) /\ OnAll(t)

\* WrittenIsDurable, of one track.
Lasts(t) ==
    answer[t] = NoAnswer /\ answer'[t].op = "written"
    => /\ \E m \in Present : copy'[m][t] = req[t].val
       /\ quorum => \A m \in Present \ onDisk' : copy'[m][t] = req[t].val

\* A request that a step leaves alone.
LEMMA SameMarks ==
  ASSUME NEW k, req'[k] = req[k]
  PROVE  /\ Marks(k)' = Marks(k) /\ Clears(k)' = Clears(k)
         /\ Waiting(k)' = Waiting(k) /\ Writing(k)' = Writing(k)
  BY DEF Marks, Clears, Waiting, Writing

\* One that does not wait.
LEMMA NoMarks ==
  ASSUME NEW k
  PROVE  /\ ~Waiting(k) => Marks(k) = {} /\ Clears(k) = {}
         /\ ~Waiting(k)' => Marks(k)' = {} /\ Clears(k)' = {}
  BY DEF Marks, Clears

\* A write that a step leaves alone, and the status area's bits with it.
LEMMA SameOnAll ==
  ASSUME NEW k, OnAll(k), req'[k] = req[k],
         \A m \in Present : copy'[m][k] = copy[m][k],
         onDisk' = onDisk, quorum' => quorum,
         \A q \in Track : Clears(q)' = Clears(q)
  PROVE  OnAll(k)'
<1>1. Waiting(k)' = Waiting(k) /\ Writing(k)' = Writing(k)
  BY SameMarks
<1> SUFFICES ASSUME Writing(k), Waiting(k)
             PROVE  /\ req[k].done = {}
                    /\ ~req[k].error =>
                          /\ \E m \in Present : copy'[m][k] = req[k].val
                          /\ quorum' => \A m \in Present :
                                \/ copy'[m][k] = req[k].val
                                \/ m \in req[k].bad[0]
                                \/ m \in onDisk /\ \A q \in Track : m \notin Clears(q)'
  BY <1>1 DEF OnAll
<1> QED
  BY DEF OnAll

\* A step that does not concern the status area.
LEMMA StillDurable ==
  ASSUME ContentInv, Durable, UNCHANGED marks, onDisk' = onDisk, quorum' => quorum,
         \A k \in Track : \/ ~Waiting(k) /\ ~Waiting(k)'
                          \/ req'[k] = req[k] /\ \A m \in Mirror : copy'[m][k] = copy[m][k],
         lx'.msk = lx.msk, lx'.err = lx.err,
         syncx' # NTrack => syncx' = syncx /\ lx'.trk = lx.trk
  PROVE  Durable'
<1>1. /\ stale' = stale /\ changing' = changing /\ wheel' = wheel
      /\ Present \subseteq Mirror
  BY Masks DEF marks
<1>2. \A k \in Track : /\ Marks(k)' = Marks(k) /\ Clears(k)' = Clears(k)
                       /\ Clears(k) # {} => req'[k] = req[k]
  BY SameMarks, NoMarks
<1>3. InOrder' /\ OnWheel'
  BY <1>1, <1>2 DEF Durable, InOrder, OnWheel
<1>4. MarksOk'
  BY <1>1, <1>2 DEF Durable, MarksOk
<1>5. Ahead'
  BY <1>2 DEF Durable, Ahead
<1>6. ASSUME NEW k \in Track
      PROVE  ClearsOk(k)'
  BY <1>1, <1>2 DEF Durable, ClearsOk
<1>7. ASSUME NEW k \in Track
      PROVE  OnAll(k)'
  <2>1. CASE ~Waiting(k)'
    BY <2>1 DEF OnAll
  <2>2. CASE req'[k] = req[k] /\ \A m \in Mirror : copy'[m][k] = copy[m][k]
    <3>1. OnAll(k) /\ \A q \in Track : Clears(q)' = Clears(q)
      BY <1>2 DEF Durable
    <3> QED
      BY <1>1, <2>2, <3>1, SameOnAll
  <2> QED
    BY <2>1, <2>2
<1> QED
  BY <1>3, <1>4, <1>5, <1>6, <1>7 DEF Durable

\* Its answers.
LEMMA NotWritten ==
  ASSUME NEW k \in Track, answer'[k] = answer[k] \/ answer'[k].op # "written"
  PROVE  Lasts(k)
  BY DEF Lasts, NoAnswer

\* A step of a request that does not concern it.
LEMMA PlainDurable ==
  ASSUME ContentInv, Durable, NEW t \in Track, Plain(t), ~Waiting(t), onDisk' = onDisk,
         quorum' = quorum
  PROVE  Durable' /\ \A k \in Track : Lasts(k)
<1>1. /\ \A k \in Track \ {t} : req'[k] = req[k] /\ \A m \in Mirror : copy'[m][k] = copy[m][k]
      /\ \A k \in Track \ {t} : answer'[k] = answer[k]
  BY DEF Plain, Stepped, Kept
<1>2. Durable'
  BY <1>1, StillDurable DEF Plain
<1>3. \A k \in Track : Lasts(k)
  BY <1>1, NotWritten DEF Plain
<1> QED
  BY <1>2, <1>3

\* lv_syncx goes on: it comes to a track that is not being written.
LEMMA SyncReadDurable ==
  ASSUME ContentInv, Benign, Durable, SyncRead
  PROVE  Durable' /\ \A k \in Track : Lasts(k)
<1> DEFINE t == IF syncx = NTrack THEN 0 ELSE syncx
           l == IF lx.trk = -1 THEN [trk |-> t, msk |-> SyncMask, err |-> {}]
                ELSE [lx EXCEPT !.trk = t]
           s == [NoReq EXCEPT !.op = "read", !.sync = TRUE, !.pc = "pending"]
<1>1. /\ req[t].op = "idle" /\ copy' = copy /\ stale' = stale /\ changing' = changing
      /\ wheel' = wheel /\ answer' = answer /\ onDisk' = onDisk /\ quorum' = quorum
      /\ \/ /\ l.msk = {} /\ lx' = [l EXCEPT !.trk = IF t = Last THEN -1 ELSE t]
            /\ req' = req
         \/ /\ req' = [req EXCEPT ![t] = s] /\ lx' = l /\ syncx' = t
  BY DEF SyncRead, marks, disks, Idle
<1>2. t \in Track /\ (lx.trk = -1 => t = 0) /\ (lx.trk # -1 => t = syncx)
  BY Masks, SyncAt DEF ContentInv
<1>3. \A k \in Track : ~req[k].sync
  BY <1>1, <1>2, Masks DEF ContentInv, IInv, ReqInv, SyncOk, ReqOk
<1>4. lx.trk \in {-1, t - 1} /\ (lx.trk # -1 => syncx # NTrack)
  BY <1>2, <1>3, Masks DEF ContentInv, IInv, ReqInv, SyncOk
<1>5. s \in Request /\ s.pc = "pending"
  BY NoReqType DEF Request, Pcs, ContentInv, IInv, DataInv
<1>6. /\ lx \in Lx /\ req \in [Track -> Request] /\ ReqOk(req[t]) /\ SyncMask \subseteq stale
  BY <1>2 DEF ContentInv, IInv, ReqInv, SyncMask
<1>7. ~Waiting(t)
  BY <1>1, <1>6 DEF ReqOk, Waiting
<1>8. \A k \in Track : Clears(k) = {}
  BY <1>3 DEF Durable, ClearsOk
<1> HIDE DEF s
<1>9. \A k \in Track : k # t => req'[k] = req[k]
  BY <1>1, <1>2, <1>6
<1>10. req'[t] \in {req[t], s}
  BY <1>1, <1>2, <1>6
<1>11. PICK u \in Track : u = t
  BY <1>2
<1>12. ~Waiting(u) /\ ~Waiting(u)'
  BY <1>5, <1>7, <1>10, <1>11 DEF Waiting
<1>13. \A k \in Track : Marks(k)' = Marks(k) /\ Clears(k)' = Clears(k)
  BY <1>9, <1>11, <1>12, SameMarks, NoMarks
<1>14. ASSUME lx'.msk # {}
       PROVE  /\ lx' = l /\ \A k \in Track, m \in Mirror : m \in Marks(k) => k # t
  BY <1>1, <1>6, <1>11, <1>12, <1>14, NoMarks DEF Lx
<1>15. InOrder' /\ OnWheel'
  BY <1>8, <1>13 DEF InOrder, OnWheel
<1>16. MarksOk'
  <2> SUFFICES ASSUME quorum, syncx' # NTrack, NEW m \in lx'.msk \cap changing
               PROVE  \E k \in Track : k > lx'.trk /\ m \in Marks(k)
    BY <1>1, <1>13 DEF Durable, MarksOk
  <2>1. lx' = l /\ l.trk = t /\ t \in Nat /\ m \in Mirror
        /\ \A k \in Track : m \in Marks(k) => k # t
    BY <1>2, <1>6, <1>14, Masks DEF Lx, ContentInv, IInv, ReqInv
  <2>2. CASE lx.trk = -1
    <3>1. PICK k \in Track : m \in Marks(k)
      BY DEF Durable, MarksOk
    <3>2. k # 0 /\ k \in Nat
      BY <1>2, <2>1, <2>2, <3>1, Masks
    <3> QED
      BY <1>2, <2>1, <2>2, <3>1, <3>2
  <2>3. CASE lx.trk # -1
    <3>1. m \in lx.msk /\ lx.trk = t - 1 /\ syncx # NTrack
      BY <1>4, <1>6, <2>1, <2>3 DEF Lx
    <3>2. PICK k \in Track : k > lx.trk /\ m \in Marks(k)
      BY <3>1 DEF Durable, MarksOk
    <3>3. k \in Nat /\ k # t
      BY <2>1, <3>2, Masks
    <3> QED
      BY <2>1, <3>1, <3>2, <3>3
  <2> QED
    BY <2>2, <2>3
<1>17. Ahead'
  <2> SUFFICES ASSUME syncx' # NTrack, NEW k \in Track, NEW m \in Marks(k),
                      m \in lx'.msk \ lx'.err
               PROVE  k > lx'.trk
    BY <1>13 DEF Ahead
  <2>1. lx' = l /\ l.trk = t /\ t \in Nat /\ k \in Nat
    BY <1>2, <1>6, <1>14, Masks DEF Lx
  <2>2. k # t
    BY <1>11, <1>12, NoMarks
  <2>3. CASE lx.trk = -1
    BY <1>2, <2>1, <2>2, <2>3
  <2>4. CASE lx.trk # -1
    <3>1. m \in lx.msk \ lx.err /\ lx.trk = t - 1 /\ syncx # NTrack
      BY <1>4, <1>6, <2>1, <2>4 DEF Lx
    <3>2. k > lx.trk
      BY <3>1 DEF Durable, Ahead
    <3> QED
      BY <2>1, <2>2, <3>1, <3>2
  <2> QED
    BY <2>3, <2>4
<1>18. ASSUME NEW k \in Track
       PROVE  ClearsOk(k)' /\ OnAll(k)' /\ Lasts(k)
  <2>1. ClearsOk(k)'
    BY <1>8, <1>13 DEF ClearsOk
  <2>2. OnAll(k)'
    <3>1. CASE k = u
      BY <1>12, <3>1 DEF OnAll
    <3>2. CASE k # u
      <4>1. req'[k] = req[k] /\ OnAll(k)
        BY <1>9, <1>11, <3>2 DEF Durable
      <4> QED
        BY <1>1, <1>13, <4>1, SameOnAll
    <3> QED
      BY <3>1, <3>2
  <2> QED
    BY <1>1, <2>1, <2>2, NotWritten
<1> QED
  BY <1>15, <1>16, <1>17, <1>18 DEF Durable

\* Mirrors are marked.
LEMMA MarkDurable ==
  ASSUME ContentInv, Benign, Durable, Remember, NEW t, NEW r, NEW mask, Ended(t, r, mask),
         NEW bad, NEW l, NEW s, Blames(t, r, mask, bad, l, s), Mark(t, s, l, bad),
         onDisk' = onDisk, quorum' = quorum
  PROVE  Durable' /\ \A k \in Track : Lasts(k)
<1> DEFINE wait == Unmarked(bad)
           w == [s EXCEPT !.pc = "vgsa", !.bad[0] = wait, !.done = {}]
<1>1. /\ t \in Track /\ r.sync = req[t].sync /\ ~Waiting(t) /\ Written(t, s) /\ Write(s)
      /\ s.sync = r.sync /\ l \in Lx /\ s \in Request /\ lx \in Lx /\ Write(req[t])
      /\ s.val = req[t].val /\ r.val = req[t].val /\ lx.msk \subseteq stale
      /\ bad \in SUBSET Present /\ mask \in SUBSET Present /\ Present \subseteq Mirror
  BY Masks DEF Ended, Blames, Written, Handled, ContentInv, IInv, ReqInv, Write, SyncOk
<1>2. /\ stale' = stale \cup bad /\ changing' = changing \cup (bad \ stale)
      /\ wheel' = IF wait = {} THEN wheel ELSE Append(wheel, t)
      /\ IF wait = {} THEN Terminate(t, s, l)
         ELSE req' = [req EXCEPT ![t] = w] /\ lx' = l /\ UNCHANGED <<syncx, answer>>
  BY DEF Mark
<1>3. wait \in SUBSET Present /\ wait = {m \in bad : m \notin stale \/ m \in changing}
  BY <1>1 DEF Unmarked
<1> HIDE DEF wait
<1>4. /\ \A k \in Track \ {t} : req'[k] = req[k] /\ \A m \in Mirror : copy'[m][k] = copy[m][k]
      /\ \A k \in Track \ {t} : answer'[k] = answer[k]
      /\ syncx' # NTrack => syncx # NTrack
  BY MarkWrite DEF Stepped, Kept
<1>5. /\ lx'.msk = l.msk /\ lx'.err = l.err
      /\ syncx' # NTrack => lx'.trk = lx.trk
      /\ l.msk \subseteq lx.msk /\ lx.err \cup bad \subseteq l.err
  <2>1. l.trk = lx.trk /\ l.msk \subseteq lx.msk /\ lx.err \cup bad \subseteq l.err
    BY <1>1 DEF Blames
  <2> QED
    BY <1>1, <1>2, <2>1, Masks DEF Terminate, Lx
<1>6. Clears(t)' = {} /\ Marks(t)' = wait /\ Clears(t) = {} /\ Marks(t) = {}
  <2>1. CASE wait = {}
    <3>1. req'[t] = NoReq
      BY <1>1, <1>2, <2>1 DEF Terminate, ContentInv, IInv, ReqInv
    <3>2. ~Waiting(t)'
      BY <3>1 DEF Waiting, NoReq
    <3> QED
      BY <1>1, <2>1, <3>2, NoMarks
  <2>2. CASE wait # {}
    <3>1. w.pc = "vgsa" /\ w.bad[0] = wait /\ w.done = {}
      BY <1>1, Masks DEF Request
    <3>2. req'[t] = w
      BY <1>1, <1>2, <2>2 DEF ContentInv, IInv, ReqInv
    <3> QED
      BY <1>1, <3>1, <3>2, NoMarks DEF Marks, Clears, Waiting
  <2> QED
    BY <2>1, <2>2
<1>7. \A k \in Track \ {t} : /\ Marks(k)' = Marks(k) /\ Clears(k)' = Clears(k)
                             /\ Waiting(k)' = Waiting(k) /\ Writing(k)' = Writing(k)
  BY <1>4, SameMarks
<1>8. /\ \A k \in Track : Clears(k)' = Clears(k)
      /\ \A k \in Track : Marks(k)' = IF k = t THEN wait ELSE Marks(k)
  BY <1>6, <1>7
<1>9. /\ Len(wheel) \in Nat /\ Len(wheel') \in {Len(wheel), Len(wheel) + 1}
      /\ \A i \in 1 .. Len(wheel) : wheel'[i] = wheel[i] /\ i \in 1 .. Len(wheel')
      /\ \A i \in 1 .. Len(wheel') : i \in 1 .. Len(wheel) \/ wheel'[i] = t
      /\ \A i, j \in 1 .. Len(wheel') : i < j => i \in 1 .. Len(wheel)
  BY <1>1, <1>2 DEF ContentInv, WheelOk
<1>10. InOrder' /\ OnWheel'
  <2>1. InOrder'
    <3> SUFFICES ASSUME NEW k \in Track, NEW q \in Track, NEW i \in 1 .. Len(wheel'),
                        NEW j \in 1 .. Len(wheel'), i < j, wheel'[i] = k, wheel'[j] = q
                 PROVE  Marks(k)' \cap Clears(q)' = {}
      BY DEF InOrder
    <3>1. CASE q = t
      BY <1>6, <3>1
    <3>2. CASE q # t
      <4>1. i \in 1 .. Len(wheel) /\ j \in 1 .. Len(wheel) /\ wheel[i] = k /\ wheel[j] = q
        BY <1>9, <3>2
      <4>2. k # t
        BY <1>1, <4>1 DEF ContentInv, WheelOk
      <4> QED
        BY <1>8, <4>1, <4>2 DEF Durable, InOrder
    <3> QED
      BY <3>1, <3>2
  <2>2. OnWheel'
    BY <1>8, <1>9 DEF Durable, OnWheel
  <2> QED
    BY <2>1, <2>2
<1>11. MarksOk'
  <2> SUFFICES ASSUME quorum
               PROVE  /\ stale' \ changing' \subseteq onDisk
                      /\ \A m \in changing' : \E k \in Track : m \in Marks(k)'
                      /\ syncx' # NTrack =>
                            \A m \in lx'.msk \cap changing' :
                                \E k \in Track : k > lx'.trk /\ m \in Marks(k)'
    BY DEF MarksOk
  <2>1. stale' \ changing' \subseteq onDisk
    BY <1>2 DEF Durable, MarksOk
  <2>2. ASSUME NEW m \in changing'
        PROVE  \E k \in Track : m \in Marks(k)'
    <3>1. CASE m \in changing
      BY <1>6, <1>8, <3>1 DEF Durable, MarksOk
    <3>2. CASE m \in bad \ stale
      BY <1>1, <1>3, <1>8, <3>2
    <3> QED
      BY <1>2, <3>1, <3>2
  <2>3. ASSUME syncx' # NTrack, NEW m \in lx'.msk \cap changing'
        PROVE  \E k \in Track : k > lx'.trk /\ m \in Marks(k)'
    <3>1. m \in lx.msk /\ m \in changing /\ syncx # NTrack /\ lx'.trk = lx.trk
      BY <1>1, <1>2, <1>4, <1>5, <2>3
    <3>2. PICK k \in Track : k > lx.trk /\ m \in Marks(k)
      BY <3>1 DEF Durable, MarksOk
    <3> QED
      BY <1>6, <1>8, <3>1, <3>2
  <2> QED
    BY <2>1, <2>2, <2>3
<1>12. Ahead'
  <2> SUFFICES ASSUME syncx' # NTrack, NEW k \in Track, NEW m \in Marks(k)',
                      m \in lx'.msk \ lx'.err
               PROVE  k > lx'.trk
    BY DEF Ahead
  <2>1. m \in lx.msk \ lx.err /\ m \notin bad /\ lx'.trk = lx.trk /\ syncx # NTrack
    BY <1>4, <1>5
  <2>2. k # t /\ m \in Marks(k)
    BY <1>3, <1>8, <2>1
  <2> QED
    BY <2>1, <2>2 DEF Durable, Ahead
<1>13. quorum => \A q \in Track, m \in Present : m \in Clears(q) /\ m \in stale => m \in changing
  BY DEF Durable, ClearsOk
<1>14. ASSUME NEW k \in Track
       PROVE  ClearsOk(k)'
  <2> SUFFICES ASSUME Clears(k) # {}, k # t
               PROVE  ClearsOk(k)'
    BY <1>6, <1>8 DEF ClearsOk
  <2>1. /\ req[k].sync /\ lx.msk = {} /\ req[k].bad[0] \cap Clears(k) = {}
        /\ quorum => req[k].bad[0] \subseteq onDisk /\ Clears(k) \cap stale \subseteq changing
    BY DEF Durable, ClearsOk
  <2>2. lx'.msk = {}
    BY <1>5, <2>1
  <2> QED
    BY <1>2, <1>4, <1>8, <2>1, <2>2 DEF ClearsOk
<1>15. ~s.error /\ ~s.sync =>
          /\ \E m \in Present : copy'[m][t] = s.val
          /\ \A m \in Present \ bad : copy'[m][t] = s.val
          /\ quorum => \A m \in bad \ wait : m \in onDisk /\ \A q \in Track : m \notin Clears(q)
  <2> SUFFICES ASSUME ~s.error, ~s.sync
               PROVE  /\ \E m \in Present : copy'[m][t] = s.val
                      /\ \A m \in Present \ bad : copy'[m][t] = s.val
                      /\ quorum => \A m \in bad \ wait :
                                      m \in onDisk /\ \A q \in Track : m \notin Clears(q)
    OBVIOUS
  <2>1. \A m \in Present \ bad : copy'[m][t] = s.val
    BY <1>1 DEF Ended, Blames
  <2>2. \E m \in Mirror : m \notin bad
    BY DEF Blames
  <2>3. quorum => \A m \in bad \ wait : m \in onDisk /\ \A q \in Track : m \notin Clears(q)
    <3> SUFFICES ASSUME quorum, NEW m \in bad \ wait
                 PROVE  m \in onDisk /\ \A q \in Track : m \notin Clears(q)
      OBVIOUS
    <3>1. m \in stale \ changing /\ m \in Present
      BY <1>1, <1>3
    <3> QED
      BY <1>13, <3>1 DEF Durable, MarksOk
  <2> QED
    BY <2>1, <2>2, <2>3 DEF Benign, Present
<1>16. ASSUME NEW k \in Track
       PROVE  OnAll(k)'
  <2>1. CASE k # t
    <3>1. req'[k] = req[k] /\ \A m \in Present : copy'[m][k] = copy[m][k]
      BY <1>1, <1>4, <2>1
    <3> QED
      BY <1>7, <1>8, <2>1, <3>1 DEF Durable, OnAll
  <2>2. CASE k = t /\ wait = {}
    <3>1. req'[t] = NoReq
      BY <1>1, <1>2, <2>2 DEF Terminate, ContentInv, IInv, ReqInv
    <3> QED
      BY <2>2, <3>1 DEF OnAll, Waiting, NoReq
  <2>3. CASE k = t /\ wait # {}
    <3>1. /\ w.bad[0] = wait /\ w.done = {} /\ w.error = s.error /\ w.val = s.val
          /\ w.sync = s.sync
      BY <1>1, Masks DEF Request
    <3>2. req'[t] = w
      BY <1>1, <1>2, <2>3 DEF ContentInv, IInv, ReqInv
    <3> HIDE DEF w
    <3>3. /\ ~w.error /\ ~w.sync => \E m \in Present : copy'[m][t] = w.val
          /\ ~w.error /\ ~w.sync /\ quorum =>
                \A m \in Present : \/ copy'[m][t] = w.val
                                   \/ m \in w.bad[0]
                                   \/ m \in onDisk /\ \A q \in Track : m \notin Clears(q)
      BY <1>15, <3>1
    <3> QED
      BY <1>8, <2>3, <3>1, <3>2, <3>3 DEF OnAll, Writing
  <2> QED
    BY <2>1, <2>2, <2>3
<1>17. ASSUME NEW k \in Track
       PROVE  Lasts(k)
  <2>1. CASE k # t \/ wait # {}
    BY <1>2, <1>4, <2>1, NotWritten
  <2>2. CASE k = t /\ wait = {} /\ (s.sync \/ s.error)
    <3>1. answer'[t] = answer[t] \/ answer'[t].op # "written"
      BY <1>1, <1>2, <2>2 DEF Terminate, ContentInv
    <3> QED
      BY <2>2, <3>1, NotWritten
  <2>3. CASE k = t /\ wait = {} /\ ~s.sync /\ ~s.error
    BY <1>1, <1>15, <2>3 DEF Lasts
  <2> QED
    BY <2>1, <2>2, <2>3
<1> QED
  BY <1>10, <1>11, <1>12, <1>14, <1>16, <1>17 DEF Durable

\* Those that a resynchronisation has rewritten become fresh.
LEMMA MakeFreshDurable ==
  ASSUME ContentInv, Benign, Durable, Remember, NEW t, NEW r, NEW mask, Ended(t, r, mask),
         NEW bad, NEW l, NEW s, Blames(t, r, mask, bad, l, s), r.sync, l.msk # {},
         l.trk = Last, MakeFresh(t, s, l, bad), onDisk' = onDisk, quorum' = quorum
  PROVE  Durable' /\ \A k \in Track : Lasts(k)
<1> DEFINE w == [s EXCEPT !.pc = "vgsa", !.bad[0] = bad, !.done = l.msk]
<1>1. /\ t \in Track /\ req[t].sync /\ ~Waiting(t) /\ s.sync /\ l \in Lx /\ s \in Request
      /\ lx \in Lx /\ lx.msk \subseteq stale /\ bad \in SUBSET Present
      /\ Present \subseteq Mirror /\ Write(req[t]) /\ 0 \in Mirror
  BY Masks DEF Ended, Blames, Written, Handled, ContentInv, IInv, ReqInv, Write, SyncOk
<1>2. /\ stale' = stale \ l.msk /\ changing' = changing /\ wheel' = Append(wheel, t)
      /\ lx' = [l EXCEPT !.msk = {}] /\ req' = [req EXCEPT ![t] = w]
      /\ UNCHANGED <<syncx, answer>>
  BY DEF MakeFresh
<1>3. /\ l.msk = lx.msk \ l.err /\ lx.err \cup bad \subseteq l.err /\ lx.trk = Last
      /\ bad \subseteq lx.msk
  BY DEF Blames, Ended
<1>4. t = syncx /\ t = Last /\ syncx # NTrack /\ lx'.msk = {}
  BY <1>1, <1>2, <1>3, SyncTrack, Masks DEF Lx
<1>5. w.pc = "vgsa" /\ w.bad[0] = bad /\ w.done = l.msk /\ w.sync
  BY <1>1 DEF Request
<1> HIDE DEF w
<1>6. req'[t] = w /\ \A k \in Track \ {t} : req'[k] = req[k]
  BY <1>1, <1>2 DEF ContentInv, IInv, ReqInv
<1>7. Clears(t)' = l.msk /\ Marks(t)' = {} /\ Clears(t) = {} /\ Marks(t) = {}
  BY <1>1, <1>5, <1>6, NoMarks DEF Clears, Marks, Waiting
<1>8. \A k \in Track \ {t} : /\ Marks(k)' = Marks(k) /\ Clears(k)' = Clears(k)
                             /\ Waiting(k)' = Waiting(k) /\ Writing(k)' = Writing(k)
  BY <1>6, SameMarks
<1>9. \A k \in Track : Marks(k)' = Marks(k) /\ (k # t => Clears(k) = {} /\ Clears(k)' = {})
  <2>1. lx.msk # {}
    BY <1>3
  <2> QED
    BY <1>7, <1>8, <2>1 DEF Durable, ClearsOk
<1>10. \A k \in Track : \A m \in Marks(k) : m \notin l.msk
  <2> SUFFICES ASSUME NEW k \in Track, NEW m \in Marks(k), m \in l.msk
               PROVE  FALSE
    OBVIOUS
  <2>1. k > Last
    BY <1>3, <1>4 DEF Durable, Ahead
  <2> QED
    BY <2>1, ScheduleAssumption DEF Track, Last
<1>11. quorum => lx.msk \cap changing = {}
  <2> SUFFICES ASSUME quorum, NEW m \in lx.msk \cap changing
               PROVE  FALSE
    OBVIOUS
  <2>1. PICK k \in Track : k > Last
    BY <1>3, <1>4 DEF Durable, MarksOk
  <2> QED
    BY <2>1, ScheduleAssumption DEF Track, Last
<1>12. /\ Len(wheel) \in Nat /\ Len(wheel') = Len(wheel) + 1 /\ wheel'[Len(wheel')] = t
       /\ \A i, j \in 1 .. Len(wheel') : i < j => i \in 1 .. Len(wheel)
       /\ \A i \in 1 .. Len(wheel) : wheel'[i] = wheel[i] /\ i \in 1 .. Len(wheel')
  BY <1>1, <1>2 DEF ContentInv, WheelOk
<1>13. InOrder' /\ OnWheel'
  <2>1. InOrder'
    <3> SUFFICES ASSUME NEW k \in Track, NEW q \in Track
                 PROVE  Marks(k)' \cap Clears(q)' = {}
      BY DEF InOrder
    <3> QED
      BY <1>7, <1>9, <1>10
  <2>2. Len(wheel') \in 1 .. Len(wheel')
    BY <1>12
  <2> QED
    BY <1>9, <1>12, <2>1, <2>2 DEF OnWheel
<1>14. MarksOk'
  BY <1>2, <1>4, <1>9 DEF Durable, MarksOk
<1>15. Ahead'
  BY <1>4 DEF Ahead
<1>16. ClearsOk(t)'
  <2>1. quorum => bad \subseteq onDisk
    BY <1>1, <1>3, <1>11 DEF Durable, MarksOk
  <2> QED
    BY <1>2, <1>3, <1>4, <1>5, <1>6, <1>7, <2>1 DEF ClearsOk
<1>17. ASSUME NEW k \in Track
       PROVE  ClearsOk(k)' /\ OnAll(k)' /\ Lasts(k)
  <2>1. CASE k = t
    <3>1. ~Writing(t)'
      BY <1>5, <1>6 DEF Writing
    <3> QED
      BY <1>2, <1>16, <2>1, <3>1, NotWritten DEF OnAll
  <2>2. CASE k # t
    <3>1. ClearsOk(k)'
      BY <1>9, <2>2 DEF ClearsOk
    <3>2. req'[k] = req[k] /\ \A m \in Present : copy'[m][k] = copy[m][k]
      BY <1>1, <1>6, <2>2 DEF Ended, Written, CopyMoves
    <3>3. Writing(k) /\ Waiting(k) /\ ~req[k].error
          => \A m \in l.msk : copy[m][k] = req[k].val
      <4>1. k < syncx
        BY <1>4, <2>2, Masks DEF Last, Track
      <4>2. l.msk \subseteq Good(k)
        BY <1>1, <1>3, <1>4, <4>1 DEF Good, Caught
      <4> QED
        BY <4>2 DEF ContentInv, Own, Contents, Waiting
    <3>4. \A m \in Present, q \in Track : m \in Clears(q)' => m \in l.msk
      BY <1>7, <1>9
    <3>5. OnAll(k)'
      <4> SUFFICES ASSUME Writing(k), Waiting(k)
                   PROVE  OnAll(k)'
        BY <1>8, <2>2 DEF OnAll
      <4>1. /\ req[k].done = {}
            /\ ~req[k].error =>
                  /\ \E m \in Present : copy[m][k] = req[k].val
                  /\ quorum => \A m \in Present :
                        \/ copy[m][k] = req[k].val
                        \/ m \in req[k].bad[0]
                        \/ m \in onDisk
        BY DEF Durable, OnAll
      <4>2. ~req[k].error /\ quorum => \A m \in Present :
                        \/ copy'[m][k] = req[k].val
                        \/ m \in req[k].bad[0]
                        \/ m \in onDisk /\ \A q \in Track : m \notin Clears(q)'
        BY <3>2, <3>3, <3>4, <4>1
      <4> QED
        BY <3>2, <4>1, <4>2 DEF OnAll
    <3> QED
      BY <1>2, <3>1, <3>5, NotWritten
  <2> QED
    BY <2>1, <2>2
<1> QED
  BY <1>13, <1>14, <1>15, <1>17 DEF Durable

\* lv_stalepp, or nothing to mark.
LEMMA EndsDurable ==
  ASSUME ContentInv, Benign, Durable, Remember, NEW t, Ends(t), onDisk' = onDisk,
         quorum' = quorum
  PROVE  Durable' /\ \A k \in Track : Lasts(k)
<1>1. PICK r \in Request, mask0 \in SUBSET Present :
         Ended(t, r, mask0 \cup r.avoid) /\ WriteEnd(t, r, mask0)
  BY DEF Ends
<1> DEFINE mask == mask0 \cup r.avoid
<1>2. Ended(t, r, mask) /\ WriteEnd(t, r, mask0)
  BY <1>1
<1>3. \/ StalePp(t, r, mask)
      \/ mask = {} /\ ~r.sync /\ Terminate(t, r, lx) /\ UNCHANGED <<marks, panic>>
  BY <1>2 DEF WriteEnd
<1> HIDE DEF mask
<1>4. CASE StalePp(t, r, mask)
  <2> DEFINE bad == Blamed(r, mask)
             err == lx.err \cup bad \cup (IF r.sync THEN r.avoid ELSE {})
             l   == [lx EXCEPT !.err = err, !.msk = IF r.sync THEN @ \ err ELSE @]
             s   == [r EXCEPT !.error = AllBad(r, mask) \/ (r.sync /\ l.msk = {})]
  <2>1. Blames(t, r, mask, bad, l, s)
    BY <1>2, BlamesRight
  <2>2. \/ r.sync /\ l.msk # {} /\ l.trk = Last /\ MakeFresh(t, s, l, bad)
        \/ Mark(t, s, l, bad)
    BY <1>4 DEF StalePp
  <2> HIDE DEF bad, err, l, s
  <2> QED
    BY <1>2, <2>1, <2>2, MakeFreshDurable, MarkDurable
<1>5. CASE mask = {} /\ ~r.sync /\ Terminate(t, r, lx) /\ UNCHANGED <<marks, panic>>
  <2>1. /\ t \in Track /\ ~Waiting(t) /\ lx' = lx /\ syncx' = syncx /\ r.val = req[t].val
        /\ req' = [req EXCEPT ![t] = NoReq] /\ 0 \in Present
        /\ \A m \in Present : copy'[m][t] = r.val
    BY <1>2, <1>5, Masks DEF Ended, Written, Handled, Terminate
  <2>2. /\ \A k \in Track \ {t} : req'[k] = req[k] /\ answer'[k] = answer[k]
        /\ \A k \in Track \ {t}, m \in Mirror : copy'[m][k] = copy[m][k]
    BY <1>1, WriteEndWrite DEF Ends, Stepped, Kept
  <2>3. ~Waiting(t)'
    BY <2>1 DEF Waiting, NoReq, ContentInv, IInv, ReqInv
  <2>4. Durable'
    BY <1>5, <2>1, <2>2, <2>3, StillDurable
  <2>5. ASSUME NEW k \in Track
        PROVE  Lasts(k)
    <3>1. CASE k = t
      BY <2>1, <3>1 DEF Lasts
    <3>2. CASE k # t
      BY <2>2, <3>2, NotWritten
    <3> QED
      BY <3>1, <3>2
  <2> QED
    BY <2>4, <2>5
<1> QED
  BY <1>3, <1>4, <1>5

\* The first on the wheel is on the disks.
LEMMA SaDoneDurable ==
  ASSUME ContentInv, Durable, Remember, NEW t \in Track, SaDone(t)
  PROVE  Durable' /\ \A k \in Track : Lasts(k)
<1> DEFINE r == req[t]
<1>1. /\ wheel # << >> /\ Head(wheel) = t /\ wheel' = Tail(wheel) /\ Terminate(t, r, lx)
      /\ onDisk' = IF quorum THEN Update(r) ELSE onDisk
      /\ changing' = IF quorum THEN changing \ r.bad[0] ELSE changing
      /\ stale' = stale /\ copy' = copy /\ quorum' = quorum
  BY DEF SaDone, disks
<1>2. /\ Stepped(t) /\ Waiting(t) /\ Own(t) /\ r \in Request /\ lx \in Lx /\ WheelOk
      /\ ReqOk(r)
  BY SaDoneWrite DEF ContentInv, IInv, ReqInv
<1>3. Write(r)
  BY <1>2 DEF Own, Shape, Waiting, ReadPcs, ReqOk, Request, Write
<1>4. /\ \A k \in Track \ {t} : req'[k] = req[k] /\ answer'[k] = answer[k]
      /\ req'[t] = NoReq /\ ~Waiting(t)' /\ lx'.msk = lx.msk /\ lx'.err = lx.err
      /\ syncx' # NTrack => syncx # NTrack /\ lx'.trk = lx.trk
  <2>1. /\ req' = [req EXCEPT ![t] = NoReq] /\ lx'.msk = lx.msk /\ lx'.err = lx.err
        /\ syncx' # NTrack => lx'.trk = lx.trk
    BY <1>1, <1>2, <1>3 DEF Terminate, Lx
  <2>2. req'[t] = NoReq
    BY <2>1 DEF ContentInv, IInv, ReqInv
  <2> QED
    BY <1>2, <2>1, <2>2 DEF Stepped, Kept, Waiting, NoReq
<1>5. /\ \A k \in Track \ {t} : /\ Marks(k)' = Marks(k) /\ Clears(k)' = Clears(k)
                                /\ Waiting(k)' = Waiting(k) /\ Writing(k)' = Writing(k)
      /\ Marks(t)' = {} /\ Clears(t)' = {}
  BY <1>4, SameMarks, NoMarks
<1>6. /\ wheel' \in Seq(Track) /\ Len(wheel') = Len(wheel) - 1 /\ Len(wheel) \in Nat \ {0}
      /\ \A i \in 1 .. Len(wheel') : wheel'[i] = wheel[i + 1] /\ i + 1 \in 1 .. Len(wheel)
      /\ \A i \in 1 .. Len(wheel) : i = 1 \/ i - 1 \in 1 .. Len(wheel')
      /\ 1 \in 1 .. Len(wheel) /\ wheel[1] = t
  BY <1>1, <1>2 DEF WheelOk
<1>7. Marks(t) = (IF r.done = {} THEN r.bad[0] ELSE {}) /\ Clears(t) = r.done
  BY <1>2 DEF Marks, Clears
<1>8. InOrder'
  <2> SUFFICES ASSUME NEW k \in Track, NEW q \in Track, NEW i \in 1 .. Len(wheel'),
                      NEW j \in 1 .. Len(wheel'), i < j, wheel'[i] = k, wheel'[j] = q
               PROVE  Marks(k)' \cap Clears(q)' = {}
    BY DEF InOrder
  <2>1. i + 1 < j + 1 /\ wheel[i + 1] = k /\ wheel[j + 1] = q
    BY <1>6
  <2>2. Marks(k) \cap Clears(q) = {}
    BY <1>6, <2>1 DEF Durable, InOrder
  <2> QED
    BY <1>5, <2>2
<1>9. OnWheel'
  <2> SUFFICES ASSUME NEW k \in Track, Clears(k)' # {}
               PROVE  \E i \in 1 .. Len(wheel') : wheel'[i] = k
    BY DEF OnWheel
  <2>1. k # t /\ Clears(k) # {}
    BY <1>5
  <2>2. PICK i \in 1 .. Len(wheel) : wheel[i] = k
    BY <2>1 DEF Durable, OnWheel
  <2>3. i # 1 /\ i - 1 \in 1 .. Len(wheel') /\ (i - 1) + 1 = i
    BY <1>6, <2>1, <2>2
  <2> QED
    BY <1>6, <2>2, <2>3
<1>10. ClearsOk(t) /\ OnAll(t)
  BY DEF Durable
<1>11. \A k \in Track : Marks(k)' \subseteq Marks(k) /\ Clears(k)' \subseteq Clears(k)
  BY <1>5
<1>12. MarksOk'
  <2> SUFFICES ASSUME quorum
               PROVE  /\ stale' \ changing' \subseteq onDisk'
                      /\ \A m \in changing' : \E k \in Track : m \in Marks(k)'
                      /\ syncx' # NTrack =>
                            \A m \in lx'.msk \cap changing' :
                                \E k \in Track : k > lx'.trk /\ m \in Marks(k)'
    BY <1>1 DEF MarksOk
  <2>1. changing' = changing \ r.bad[0] /\ onDisk' = Update(r) /\ stale' = stale
    BY <1>1
  <2>2. stale' \ changing' \subseteq onDisk'
    <3>1. CASE r.done = {}
      BY <2>1, <3>1 DEF Update, Durable, MarksOk
    <3>2. CASE r.done # {}
      BY <1>7, <1>10, <2>1, <3>2 DEF Update, Durable, MarksOk, ClearsOk
    <3> QED
      BY <3>1, <3>2
  <2>3. ASSUME NEW m \in changing', NEW k \in Track, m \in Marks(k)
        PROVE  m \in Marks(k)'
    BY <1>5, <1>7, <2>1, <2>3
  <2>4. \A m \in changing' : \E k \in Track : m \in Marks(k)'
    BY <2>1, <2>3 DEF Durable, MarksOk
  <2>5. ASSUME syncx' # NTrack, NEW m \in lx'.msk \cap changing'
        PROVE  \E k \in Track : k > lx'.trk /\ m \in Marks(k)'
    <3>1. PICK k \in Track : k > lx.trk /\ m \in Marks(k)
      BY <1>4, <2>1, <2>5 DEF Durable, MarksOk
    <3> QED
      BY <1>4, <2>3, <2>5, <3>1
  <2> QED
    BY <2>2, <2>4, <2>5
<1>13. Ahead'
  BY <1>4, <1>11 DEF Durable, Ahead
<1>14. ASSUME NEW k \in Track
       PROVE  ClearsOk(k)'
  <2> SUFFICES ASSUME Clears(k) # {}, k # t
               PROVE  ClearsOk(k)'
    BY <1>5 DEF ClearsOk
  <2>1. /\ req[k].sync /\ lx.msk = {} /\ req[k].bad[0] \cap Clears(k) = {}
        /\ quorum => req[k].bad[0] \subseteq onDisk /\ Clears(k) \cap stale \subseteq changing
    BY DEF Durable, ClearsOk
  <2>2. r.done = {}
    <3>1. ~r.sync
      BY <2>1 DEF ContentInv, IInv, ReqInv, SyncOk
    <3> QED
      BY <1>7, <1>10, <3>1 DEF ClearsOk
  <2>3. r.bad[0] \cap Clears(k) = {}
    <3>1. PICK j \in 1 .. Len(wheel) : wheel[j] = k
      BY DEF Durable, OnWheel
    <3>2. 1 < j
      BY <1>6, <3>1
    <3>3. Marks(t) \cap Clears(k) = {}
      BY <1>6, <3>1, <3>2 DEF Durable, InOrder
    <3> QED
      BY <1>7, <2>2, <3>3
  <2>4. quorum => onDisk \subseteq onDisk' /\ Clears(k) \cap stale' \subseteq changing'
    BY <1>1, <2>1, <2>2, <2>3 DEF Update
  <2> QED
    BY <1>1, <1>4, <1>5, <2>1, <2>4 DEF ClearsOk
<1>15. ASSUME NEW k \in Track
       PROVE  OnAll(k)'
  <2>1. CASE k = t
    BY <1>4, <2>1 DEF OnAll
  <2>2. CASE k # t
    <3> SUFFICES ASSUME Writing(k), Waiting(k)
                 PROVE  OnAll(k)'
      BY <1>5, <2>2 DEF OnAll
    <3>1. OnAll(k) /\ req'[k] = req[k]
      BY <1>4, <2>2 DEF Durable
    <3>2. \A m \in onDisk : quorum /\ (\A q \in Track : m \notin Clears(q))
                            => m \in onDisk' /\ \A q \in Track : m \notin Clears(q)'
      BY <1>1, <1>7, <1>11 DEF Update
    <3> QED
      BY <1>1, <3>1, <3>2 DEF OnAll
  <2> QED
    BY <2>1, <2>2
<1>16. ASSUME NEW k \in Track
       PROVE  Lasts(k)
  <2>1. CASE k # t
    BY <1>4, <2>1, NotWritten
  <2>2. CASE k = t /\ (r.sync \/ r.error)
    <3>1. answer'[t] = answer[t] \/ answer'[t].op # "written"
      BY <1>1, <1>3, <2>2 DEF Terminate, ContentInv
    <3> QED
      BY <2>2, <3>1, NotWritten
  <2>3. CASE k = t /\ ~r.sync /\ ~r.error
    <3>1. Writing(t)
      BY <1>3, <2>3 DEF Writing
    <3>2. /\ r.done = {} /\ \E m \in Present : copy[m][t] = r.val
          /\ quorum => \A m \in Present : \/ copy[m][t] = r.val
                                          \/ m \in r.bad[0]
                                          \/ m \in onDisk
      BY <1>2, <1>10, <2>3, <3>1 DEF OnAll
    <3> QED
      BY <1>1, <2>3, <3>2 DEF Lasts, Update
  <2> QED
    BY <2>1, <2>2, <2>3
<1> QED
  BY <1>8, <1>9, <1>12, <1>13, <1>14, <1>15, <1>16 DEF Durable

\* One step of a request.
LEMMA StepDurable ==
  ASSUME ContentInv, Benign, Durable, Remember, NEW t \in Track, Step(t)
  PROVE  Durable' /\ \A k \in Track : Lasts(k)
<1>1. CASE ParWrite(t)
  BY <1>1, ParWriteWrite, PlainDurable DEF ParWrite, Waiting
<1>2. CASE StartNext(t)
  BY <1>2, StartNextWrite, PlainDurable DEF StartNext, Waiting
<1>3. CASE ParRead(t)
  BY <1>3, ParReadRead, PlainDurable DEF ParRead, Waiting
<1>4. CASE Sequential(t)
  BY <1>4, SequentialBoth, PlainDurable DEF Sequential, Waiting
<1>5. CASE SaDone(t)
  BY <1>5, SaDoneDurable
<1>6. ASSUME NEW m \in Mirror, TransferDone(t, m)
      PROVE  Durable' /\ \A k \in Track : Lasts(k)
  <2>1. Plain(t) \/ Ends(t)
    BY <1>6, TransferDoneRead, TransferDoneWrite
  <2>2. ~Waiting(t) /\ onDisk' = onDisk /\ quorum' = quorum
    BY <1>6 DEF TransferDone, Waiting, BusyPcs, ContentInv, IInv, ReqInv, ReqOk
  <2> QED
    BY <2>1, <2>2, PlainDurable, EndsDurable
<1> QED
  BY <1>1, <1>2, <1>3, <1>4, <1>5, <1>6 DEF Step

\* Every step.
LEMMA DurableInvariance ==
  ASSUME ContentInv, Benign, Durable, [Next]_vars
  PROVE  Durable' /\ \A k \in Track : Lasts(k)
<1>1. ASSUME UNCHANGED <<marks, onDisk, lx, syncx, answer, copy, req>>, quorum' => quorum
      PROVE  Durable' /\ \A k \in Track : Lasts(k)
  <2>1. Durable'
    BY <1>1, StillDurable
  <2> QED
    BY <1>1, <2>1, NotWritten
<1>2. CASE UNCHANGED vars
  BY <1>1, <1>2 DEF vars, disks
<1>3. ASSUME NEW t \in Track, Submit(t)
      PROVE  Durable' /\ \A k \in Track : Lasts(k)
  <2>1. PICK s : req' = [req EXCEPT ![t] = [NoReq EXCEPT !.op = s.op, !.val = s.val,
                            !.pc = "pending", !.was = IF Write(s) THEN held[t] ELSE {}]]
    BY <1>3 DEF Submit
  <2>2. ~Waiting(t) /\ ~Waiting(t)'
    BY <1>3, <2>1 DEF Submit, Idle, Waiting, NoReq, ContentInv, IInv, ReqInv, ReqOk
  <2>3. /\ UNCHANGED <<marks, onDisk, quorum, lx, syncx, copy>>
        /\ answer' = [answer EXCEPT ![t] = NoAnswer]
        /\ \A k \in Track \ {t} : req'[k] = req[k]
    BY <1>3, <2>1 DEF Submit, disks, ContentInv, IInv, ReqInv
  <2>4. Durable'
    BY <2>2, <2>3, StillDurable
  <2>5. \A k \in Track : answer'[k] = answer[k] \/ answer'[k].op # "written"
    BY <2>3 DEF NoAnswer, ContentInv
  <2> QED
    BY <2>4, <2>5, NotWritten
<1>4. CASE LoseQuorum
  BY <1>1, <1>4 DEF LoseQuorum, disks
<1>5. ASSUME NEW m \in Mirror, GoMissing(m) \/ Attach(m)
      PROVE  Durable' /\ \A k \in Track : Lasts(k)
  BY <1>1, <1>5 DEF GoMissing, Attach, disks
<1> QED
  BY <1>2, <1>3, <1>4, <1>5, SyncReadDurable, StepDurable DEF Next

\* Nothing is waited for at the start.
LEMMA DurableInit ==
  ASSUME Init
  PROVE  Durable
<1>1. /\ wheel = << >> /\ changing = {} /\ onDisk = stale
      /\ \A t \in Track : req[t] = NoReq
  BY DEF Init
<1>2. \A t \in Track : ~Waiting(t)
  <2>1. NoReq.pc = "none"
    BY DEF NoReq
  <2> QED
    BY <1>1, <2>1 DEF Waiting
<1>3. \A t \in Track : Marks(t) = {} /\ Clears(t) = {}
  BY <1>2, NoMarks
<1> QED
  BY <1>1, <1>2, <1>3 DEF Durable, InOrder, OnWheel, MarksOk, Ahead, ClearsOk, OnAll

\* A write that is answered without an error has reached a mirror, and the mirrors that
\* it has not reached are stale on the disks: they were before, and no resynchronisation
\* is about to make them fresh, or their marks were waited for (lv_stalepp).
THEOREM WrittenLasts ==
  ASSUME Benign
  PROVE  Spec => WrittenIsDurable
<1> DEFINE Inv == ContentInv /\ Durable
<1>1. Init => Inv
  BY BlockInit, DurableInit
<1>2. Inv /\ [Next]_vars => Inv'
  BY ContentInvariance, DurableInvariance
<1>3. Inv /\ [Next]_vars => [\A t \in Track : Lasts(t)]_vars
  BY DurableInvariance
<1>4. (\A t \in Track : Lasts(t)) <=>
      \A t \in Track :
         answer[t] = NoAnswer /\ answer'[t].op = "written"
         => /\ \E m \in Present : copy'[m][t] = req[t].val
            /\ quorum => \A m \in Present \ onDisk' : copy'[m][t] = req[t].val
  BY DEF Lasts
<1> QED
  BY <1>1, <1>2, <1>3, <1>4, PTL DEF Spec, WrittenIsDurable
=============================================================================
