---------------------------- MODULE LvVgsaProofs ----------------------------
(***************************************************************************)
(* Proofs about LvVgsa, for any number of physical volumes, extents,       *)
(* requests, failures and crashes.                                         *)
(***************************************************************************)
EXTENDS LvVgsa, FiniteSetTheorems, WellFoundedInduction, TLAPS

-----------------------------------------------------------------------------
(* Types, and what the scheduler does to a pbuf.                           *)

\* The pbufs that the actions make of others.
IoOf(t, l, a, v) == [NoPb EXCEPT !.state = "io", !.lx = l, !.type = t,
                                 !.act = a, !.avoid = v]
LastOf(p, b, m)  == [p EXCEPT !.error = b, !.blk = BlkExt[p.lx, m]]
WaitOf(p, w)     == [p EXCEPT !.state = "hold", !.bad = w, !.type = "SA_STALEPX"]
FreshOf(p, w, f) == [p EXCEPT !.state = "hold", !.bad = w, !.fresh = f]
PlacedOf(p, s, n) == [p EXCEPT !.state = s, !.seq = n]
DoneOf(p)        == [p EXCEPT !.state = "done"]

\* A free pbuf is a pbuf.
LEMMA NoPbIsPbuf == NoPb \in Pbuf /\ NoPb.state = "idle" /\ NoPb.type = ""
<1>1. (CHOOSE l \in LX : TRUE) \in LX
  BY VgsaAssumption
<1> QED
  BY <1>1 DEF NoPb, Pbuf, PbStates

\* lv_parallel: the pbuf of a write that starts.
LEMMA IoPbuf ==
  ASSUME NEW t \in {"SA_STALEPX", "SA_FRESHPX"}, NEW l \in LX,
         NEW a \in SUBSET Mirror, NEW v \in SUBSET Mirror
  PROVE  LET p == IoOf(t, l, a, v)
         IN  p \in Pbuf /\ p.state = "io" /\ p.type = t /\ p.lx = l /\ p.act = a
<1>1. NoPb \in Pbuf
  BY NoPbIsPbuf
<1> QED
  BY <1>1 DEF Pbuf, PbStates, IoOf

\* lv_parwrite_done: the pbuf of the mirror that is the last to answer.
LEMMA LastPbuf ==
  ASSUME NEW p \in Pbuf, NEW b \in BOOLEAN, NEW m \in Mirror
  PROVE  LET q == LastOf(p, b, m)
         IN  q \in Pbuf /\ q.lx = p.lx /\ q.type = p.type /\ q.state = p.state
               /\ q.blk = BlkExt[p.lx, m] /\ q.act = p.act /\ q.avoid = p.avoid
<1>1. p.lx \in LX
  BY DEF Pbuf
<1>2. <<p.lx, m>> \in Ext
  BY <1>1 DEF Ext
<1>3. BlkExt[p.lx, m] \in {0} \cup {BlkExt[e] : e \in Ext}
  BY <1>2, Zenon
<1> QED
  BY <1>3 DEF Pbuf, LastOf

\* lv_stalepp: the pbuf of a write that waits for the status area.
LEMMA WaitingPbuf ==
  ASSUME NEW p \in Pbuf, NEW w \in SUBSET Mirror
  PROVE  LET q == WaitOf(p, w)
         IN  q \in Pbuf /\ q.state = "hold" /\ q.type = "SA_STALEPX"
               /\ q.lx = p.lx /\ q.bad = w /\ q.blk = p.blk
  BY DEF Pbuf, PbStates, WaitOf

\* lv_stalepp: the pbuf of the end of a resynchronisation.
LEMMA FreshPbuf ==
  ASSUME NEW p \in Pbuf, NEW w \in SUBSET Mirror, NEW f \in SUBSET Mirror
  PROVE  LET q == FreshOf(p, w, f)
         IN  q \in Pbuf /\ q.state = "hold" /\ q.type = p.type
               /\ q.lx = p.lx /\ q.bad = w /\ q.fresh = f /\ q.blk = p.blk
  BY DEF Pbuf, PbStates, FreshOf

\* lv_sa_continue: a pbuf whose place and sequence number change.
LEMMA PlacedPbuf ==
  ASSUME NEW p \in Pbuf, NEW s \in PbStates, NEW n \in Nat
  PROVE  LET q == PlacedOf(p, s, n)
         IN  q \in Pbuf /\ q.state = s /\ q.seq = n /\ q.type = p.type
               /\ q.lx = p.lx /\ q.bad = p.bad /\ q.fresh = p.fresh /\ q.blk = p.blk
  BY DEF Pbuf, PlacedOf

\* lv_sa_done: a pbuf that is let go.
LEMMA DonePbuf ==
  ASSUME NEW p \in Pbuf
  PROVE  LET q == DoneOf(p)
         IN  q \in Pbuf /\ q.state = "done" /\ q.seq = p.seq /\ q.type = p.type
               /\ q.lx = p.lx /\ q.bad = p.bad /\ q.fresh = p.fresh /\ q.blk = p.blk
  BY DEF Pbuf, PbStates, DoneOf

\* A request marks extents.
LEMMA MarksType ==
  ASSUME NEW p \in Pbuf
  PROVE  Marks(p) \in SUBSET Ext
<1>1. p.bad \in SUBSET Mirror /\ p.fresh \in SUBSET Mirror /\ p.lx \in LX
  BY DEF Pbuf
<1>2. \A m \in Mirror : <<p.lx, m>> \in Ext
  BY <1>1 DEF Ext
<1>3. Marks(p) = {<<p.lx, m>> : m \in p.bad} \/ Marks(p) = {<<p.lx, m>> : m \in p.fresh}
  BY DEF Marks
<1> QED
  BY <1>1, <1>2, <1>3

\* The extents that a request marks are those of its mirrors.
LEMMA MarkIs ==
  ASSUME NEW p
  PROVE  \A e \in Ext : e \in Marks(p) <=>
            /\ e[1] = p.lx
            /\ e[2] \in IF p.type = "SA_STALEPX" THEN p.bad ELSE p.fresh
<1> DEFINE M == IF p.type = "SA_STALEPX" THEN p.bad ELSE p.fresh
<1>1. Marks(p) = {<<p.lx, m>> : m \in M}
  BY DEF Marks
<1>2. \A e \in Ext : e = <<e[1], e[2]>>
  BY DEF Ext
<1> HIDE DEF M
<1>3. \A e \in Ext : e \in Marks(p) <=> e[1] = p.lx /\ e[2] \in M
  <2> TAKE e \in Ext
  <2>1. e \in Marks(p) => e[1] = p.lx /\ e[2] \in M
    BY <1>1
  <2>2. e[1] = p.lx /\ e[2] \in M => e \in Marks(p)
    BY <1>1, <1>2
  <2> QED
    BY <2>1, <2>2
<1> QED
  BY <1>3 DEF M

\* Only the pbuf r changes.
Only(r) == pb' = [pb EXCEPT ![r] = pb'[r]] /\ pb'[r] \in Pbuf

\* r, whose writes are all answered, waits for the status area to say t.
Queued(r, t) ==
  /\ hold' = Append(hold, r) /\ pc' = Started
  /\ pb'[r].state = "hold" /\ pb'[r].type = t /\ pb'[r].lx = pb[r].lx
  /\ \E m \in Mirror : pb'[r].blk = BlkExt[pb[r].lx, m]

\* lv_stalepp: the extents that the write did not reach are marked stale, or the end
\* of the resynchronisation marks them fresh.
Stamped(r) ==
  e_state' = [e \in Ext |-> IF e \in Marks(pb'[r]) THEN {STALE, CHANGING} ELSE e_state[e]]
Freshened(r) ==
  /\ e_state' = [e \in Ext |-> IF e \in Marks(pb'[r]) THEN e_state[e] \ {STALE}
                                                     ELSE e_state[e]]
  /\ Passed(pb[r].lx, pb'[r].fresh)
  /\ pb'[r].fresh \subseteq sync[pb[r].lx].msk /\ sync'[pb[r].lx].msk = {}

\* lv_stalepp_done: the mirrors in pb_mirbad are no longer changing.
Settled(r) ==
  e_state' = [e \in Ext |-> IF e[1] = pb[r].lx /\ e[2] \in pb[r].bad
                            THEN e_state[e] \ {CHANGING} ELSE e_state[e]]

\* What lv_parallel, lv_stalepp and lv_stalepp_done do to a pbuf and its place.
Scheduled(r) ==
  /\ UNCHANGED <<used, area, wheel, missing, conf, call, again, grp>>
  /\ Only(r)
  /\ \/ /\ pb[r].state = "idle" /\ pb'[r].state = "io" /\ up = "up"
        /\ pb'[r].type \in {"SA_STALEPX", "SA_FRESHPX"}
        /\ UNCHANGED <<hold, pc, e_state>>
     \/ pb[r].state = "io" /\ Queued(r, "SA_STALEPX") /\ Stamped(r)
     \/ /\ pb[r].state = "io" /\ pb[r].type = "SA_FRESHPX"
        /\ Queued(r, "SA_FRESHPX") /\ Freshened(r)
     \/ pb[r].state = "io" /\ pb'[r] = NoPb /\ UNCHANGED <<hold, pc, e_state>>
     \/ /\ pb[r].state = "done" /\ pb'[r] = NoPb /\ UNCHANGED <<hold, pc>>
        /\ Settled(r)

\* What they do to the masks of a resynchronisation.
SyncStep(r) ==
  \/ \A lx \in LX : sync'[lx].msk \subseteq sync[lx].msk
  \/ /\ up = "up" /\ e_state' = e_state
     /\ \A lx \in LX : \A m \in sync'[lx].msk :
           m \in sync[lx].msk \/ STALE \in e_state[lx, m]

\* The bad mirrors that are not stale on disk already wait for the status area.
LEMMA MarkStaleEffect ==
  ASSUME TypeOK, NEW r \in Req, NEW p \in Pbuf, NEW bad \in SUBSET Mirror,
         p.lx = pb[r].lx, \E m \in Mirror : p.blk = BlkExt[pb[r].lx, m],
         MarkStale(r, p, bad)
  PROVE  /\ Only(r)
         /\ e_state' \in [Ext -> SUBSET {STALE, CHANGING}]
         /\ \/ Queued(r, "SA_STALEPX") /\ Stamped(r)
            \/ pb'[r] = NoPb /\ UNCHANGED <<hold, pc, e_state>>
<1> DEFINE wait == {m \in bad : e_state[p.lx, m] # {STALE}}
           q == WaitOf(p, wait)
<1>1. /\ e_state \in [Ext -> SUBSET {STALE, CHANGING}] /\ pb \in [Req -> Pbuf]
  BY DEF TypeOK
<1>2. e_state' \in [Ext -> SUBSET {STALE, CHANGING}]
  BY <1>1 DEF MarkStale
<1>3. wait \in SUBSET Mirror
  OBVIOUS
<1>4. q \in Pbuf /\ q.state = "hold" /\ q.type = "SA_STALEPX" /\ q.lx = p.lx
        /\ q.bad = wait /\ q.blk = p.blk
  BY <1>3, WaitingPbuf
<1>5. \/ pb' = [pb EXCEPT ![r] = q] /\ SaStart(r)
      \/ pb' = [pb EXCEPT ![r] = NoPb] /\ UNCHANGED <<hold, pc>> /\ wait = {}
  BY DEF MarkStale, Finished, WaitOf
<1>8. e_state' = [e \in Ext |-> IF e[1] = p.lx /\ e[2] \in wait
                                THEN {STALE, CHANGING} ELSE e_state[e]]
  BY DEF MarkStale
<1> HIDE DEF q, wait
<1>6. CASE pb' = [pb EXCEPT ![r] = q] /\ SaStart(r)
  <2>1. pb'[r] = q /\ Only(r)
    BY <1>1, <1>4, <1>6 DEF Only
  <2>2. \A e \in Ext : e \in Marks(q) <=> e[1] = p.lx /\ e[2] \in wait
    BY <1>4, MarkIs
  <2>3. Stamped(r)
    BY <1>8, <2>1, <2>2 DEF Stamped
  <2> QED
    BY <1>2, <1>4, <1>6, <2>1, <2>3 DEF Queued, SaStart
<1>7. CASE pb' = [pb EXCEPT ![r] = NoPb] /\ UNCHANGED <<hold, pc>> /\ wait = {}
  <2>1. e_state' = e_state
    BY <1>1, <1>7, <1>8
  <2> QED
    BY <1>1, <1>2, <1>7, <2>1, NoPbIsPbuf DEF Only
<1> QED
  BY <1>5, <1>6, <1>7

\* lv_parwrite_done of a write: it waits for the status area, or is finished.
LEMMA WriteDoneEffect ==
  ASSUME TypeOK, NEW r \in Req, WriteDone(r)
  PROVE  /\ pb[r].state = "io" /\ Only(r)
         /\ e_state' \in [Ext -> SUBSET {STALE, CHANGING}]
         /\ sync' \in [LX -> [on : BOOLEAN, msk : SUBSET Mirror, err : SUBSET Mirror]]
         /\ \/ Queued(r, "SA_STALEPX") /\ Stamped(r)
            \/ pb'[r] = NoPb /\ UNCHANGED <<hold, pc, e_state>>
         /\ SyncStep(r)
<1>1. PICK fail \in SUBSET pb[r].act, last \in pb[r].act :
          LET bad == fail \cup pb[r].avoid
              p   == [pb[r] EXCEPT !.error = bad = Mirror,
                                   !.blk = BlkExt[pb[r].lx, last]]
          IN  /\ MarkStale(r, p, Spared(p, bad) \cap MirrorsOf(p.lx))
              /\ sync' = [sync EXCEPT ![p.lx].err = @ \cup Spared(p, bad)]
  BY DEF WriteDone
<1> DEFINE bad == fail \cup pb[r].avoid
           p == LastOf(pb[r], bad = Mirror, last)
<1>2. pb[r] \in Pbuf /\ pb[r].lx \in LX /\ last \in Mirror /\ bad \in SUBSET Mirror
  BY DEF TypeOK, Pbuf
<1>3. p \in Pbuf /\ p.lx = pb[r].lx /\ p.blk = BlkExt[pb[r].lx, last]
  BY <1>2, LastPbuf, Zenon
<1>4. MarkStale(r, p, Spared(p, bad) \cap MirrorsOf(p.lx))
        /\ sync' = [sync EXCEPT ![p.lx].err = @ \cup Spared(p, bad)]
  BY <1>1 DEF LastOf
<1> HIDE DEF p, bad
<1>5. Spared(p, bad) \in SUBSET Mirror
  BY <1>2 DEF Spared
<1>6. sync' \in [LX -> [on : BOOLEAN, msk : SUBSET Mirror, err : SUBSET Mirror]]
  <2>1. sync \in [LX -> [on : BOOLEAN, msk : SUBSET Mirror, err : SUBSET Mirror]]
    BY DEF TypeOK
  <2>2. p.lx \in LX
    BY <1>2, <1>3
  <2> QED
    BY <1>4, <1>5, <2>1, <2>2
<1>7. Spared(p, bad) \cap MirrorsOf(p.lx) \in SUBSET Mirror
  BY <1>5
<1>8. pb[r].state = "io"
  BY DEF WriteDone
<1>9. \E m \in Mirror : p.blk = BlkExt[pb[r].lx, m]
  BY <1>2, <1>3
<1>10. SyncStep(r)
  <2>1. sync \in [LX -> [on : BOOLEAN, msk : SUBSET Mirror, err : SUBSET Mirror]]
    BY DEF TypeOK
  <2>2. \A lx \in LX : sync'[lx].msk = sync[lx].msk
    BY <1>4, <2>1
  <2> QED
    BY <2>2 DEF SyncStep
<1> QED
  BY <1>3, <1>4, <1>6, <1>7, <1>8, <1>9, <1>10, MarkStaleEffect

\* The same of a resynchronisation.
LEMMA SyncDoneEffect ==
  ASSUME TypeOK, NEW r \in Req, SyncDone(r)
  PROVE  /\ pb[r].state = "io" /\ Only(r)
         /\ e_state' \in [Ext -> SUBSET {STALE, CHANGING}]
         /\ sync' \in [LX -> [on : BOOLEAN, msk : SUBSET Mirror, err : SUBSET Mirror]]
         /\ \/ Queued(r, "SA_STALEPX") /\ Stamped(r)
            \/ pb[r].type = "SA_FRESHPX" /\ Queued(r, "SA_FRESHPX") /\ Freshened(r)
            \/ pb'[r] = NoPb /\ UNCHANGED <<hold, pc, e_state>>
         /\ SyncStep(r)
<1> DEFINE lx == pb[r].lx
           Err(bad) == sync[lx].err \cup Spared(pb[r], bad) \cup pb[r].avoid
           Msk(bad) == sync[lx].msk \ Err(bad)
           P(bad, last) == [pb[r] EXCEPT !.blk = BlkExt[lx, last],
                                         !.error = bad = Mirror \/ Msk(bad) = {}]
<1>1. PICK fail \in SUBSET pb[r].act, last \in pb[r].act, lasttrack \in BOOLEAN :
          LET bad == fail \cup pb[r].avoid
              p == P(bad, last)
          IN  IF Msk(bad) # {} /\ lasttrack
              THEN /\ Passed(lx, Msk(bad))
                   /\ e_state' = [e \in Ext |-> IF e[1] = lx /\ e[2] \in Msk(bad)
                                    THEN e_state[e] \ {STALE} ELSE e_state[e]]
                   /\ sync' = [sync EXCEPT ![lx] = NoSync]
                   /\ pb' = [pb EXCEPT ![r] = [p EXCEPT !.state = "hold",
                                                        !.bad = Spared(p, bad),
                                                        !.fresh = Msk(bad)]]
                   /\ SaStart(r)
              ELSE /\ MarkStale(r, p, Spared(p, bad))
                   /\ sync' = [sync EXCEPT ![lx] =
                        IF Msk(bad) = {} THEN NoSync
                        ELSE [@ EXCEPT !.msk = Msk(bad), !.err = Err(bad)]]
  BY DEF SyncDone
<1> DEFINE bad == fail \cup pb[r].avoid
           p == P(bad, last)
<1>2. pb[r] \in Pbuf /\ lx \in LX /\ last \in Mirror /\ bad \in SUBSET Mirror
      /\ sync[lx] \in [on : BOOLEAN, msk : SUBSET Mirror, err : SUBSET Mirror]
  BY DEF TypeOK, Pbuf
<1>3. p \in Pbuf /\ p.lx = lx /\ p.blk = BlkExt[lx, last] /\ p.type = pb[r].type
  <2>1. <<lx, last>> \in Ext
    BY <1>2 DEF Ext
  <2>2. BlkExt[lx, last] \in {0} \cup {BlkExt[e] : e \in Ext}
    BY <2>1, Zenon
  <2> HIDE DEF lx, bad
  <2> QED
    BY <1>2, <2>2 DEF Pbuf, lx
<1>4. Spared(p, bad) \in SUBSET Mirror /\ Msk(bad) \in SUBSET Mirror
      /\ Err(bad) \in SUBSET Mirror
  BY <1>2 DEF Spared, Pbuf
<1>5. pb[r].state = "io" /\ pb[r].type = "SA_FRESHPX"
  BY DEF SyncDone
<1>6. \E m \in Mirror : p.blk = BlkExt[pb[r].lx, m]
  BY <1>2, <1>3
<1>7. CASE Msk(bad) # {} /\ lasttrack
  <2> DEFINE q == FreshOf(p, Spared(p, bad), Msk(bad))
  <2>1. /\ Passed(lx, Msk(bad))
        /\ e_state' = [e \in Ext |-> IF e[1] = lx /\ e[2] \in Msk(bad)
                                     THEN e_state[e] \ {STALE} ELSE e_state[e]]
        /\ sync' = [sync EXCEPT ![lx] = NoSync]
        /\ pb' = [pb EXCEPT ![r] = q] /\ SaStart(r)
    BY <1>1, <1>7 DEF FreshOf
  <2> HIDE DEF p, Msk, Err, P, bad
  <2>2. q \in Pbuf /\ q.state = "hold" /\ q.type = p.type /\ q.lx = p.lx
          /\ q.fresh = Msk(bad) /\ q.blk = p.blk
    <3> DEFINE w == Spared(p, bad)
               f == Msk(bad)
    <3>1. p \in Pbuf /\ w \in SUBSET Mirror /\ f \in SUBSET Mirror
      BY <1>3, <1>4
    <3>2. q = FreshOf(p, w, f)
      OBVIOUS
    <3> HIDE DEF w, f, q
    <3>3. q \in Pbuf /\ q.state = "hold" /\ q.type = p.type /\ q.lx = p.lx
          /\ q.fresh = f /\ q.blk = p.blk
      BY ONLY <3>1, <3>2, FreshPbuf
    <3> QED
      BY <3>3 DEF f
  <2> HIDE DEF q
  <2>3. e_state' \in [Ext -> SUBSET {STALE, CHANGING}]
    BY <2>1 DEF TypeOK
  <2>4. sync' \in [LX -> [on : BOOLEAN, msk : SUBSET Mirror, err : SUBSET Mirror]]
    BY <1>2, <2>1 DEF TypeOK, NoSync
  <2>5. pb'[r] = q /\ Only(r)
    BY <2>1, <2>2 DEF TypeOK, Only
  <2>6. \A e \in Ext : e \in Marks(q) <=> e[1] = lx /\ e[2] \in Msk(bad)
    BY <1>3, <1>5, <2>2, MarkIs
  <2>7. Msk(bad) \subseteq sync[lx].msk
    BY DEF Msk
  <2>8. e_state' = [e \in Ext |-> IF e \in Marks(q) THEN e_state[e] \ {STALE} ELSE e_state[e]]
    BY <2>1, <2>6
  <2>10. sync'[lx].msk = {} /\ \A l \in LX : l # lx => sync'[l] = sync[l]
    BY <1>2, <2>1 DEF NoSync, TypeOK
  <2>9. Freshened(r)
    BY <2>1, <2>2, <2>5, <2>7, <2>8, <2>10 DEF Freshened
  <2>11. SyncStep(r)
    BY <1>2, <2>10 DEF SyncStep
  <2> QED
    BY <1>3, <1>5, <1>6, <2>1, <2>2, <2>3, <2>4, <2>5, <2>9, <2>10, <2>11
    DEF Queued, SaStart
<1>8. CASE ~(Msk(bad) # {} /\ lasttrack)
  <2>1. /\ MarkStale(r, p, Spared(p, bad))
        /\ sync' = [sync EXCEPT ![lx] =
              IF Msk(bad) = {} THEN NoSync
              ELSE [@ EXCEPT !.msk = Msk(bad), !.err = Err(bad)]]
    BY <1>1, <1>8
  <2> HIDE DEF p, Msk, Err, P, bad
  <2>2. sync' \in [LX -> [on : BOOLEAN, msk : SUBSET Mirror, err : SUBSET Mirror]]
    BY <1>2, <1>4, <2>1 DEF TypeOK, NoSync
  <2>3. /\ Only(r) /\ e_state' \in [Ext -> SUBSET {STALE, CHANGING}]
        /\ \/ Queued(r, "SA_STALEPX") /\ Stamped(r)
           \/ pb'[r] = NoPb /\ UNCHANGED <<hold, pc, e_state>>
    BY <1>3, <1>4, <1>6, <2>1, MarkStaleEffect
  <2>4. Msk(bad) \subseteq sync[lx].msk
    BY DEF Msk
  <2>5. sync'[lx].msk \subseteq sync[lx].msk
    BY <1>2, <2>1, <2>4 DEF NoSync, TypeOK
  <2>6. \A l \in LX : l # lx => sync'[l] = sync[l]
    BY <2>1 DEF TypeOK
  <2>7. SyncStep(r)
    BY <2>5, <2>6 DEF SyncStep
  <2> QED
    BY <1>5, <2>2, <2>3, <2>7
<1> QED
  BY <1>7, <1>8

\* Each of the scheduler's actions is a step of that kind.
LEMMA SchedulerEffect ==
  ASSUME TypeOK, NEW r \in Req,
         WriteStart(r) \/ WriteDone(r) \/ SyncStart(r) \/ SyncDone(r) \/ Answer(r)
  PROVE  /\ Scheduled(r)
         /\ e_state' \in [Ext -> SUBSET {STALE, CHANGING}]
         /\ sync' \in [LX -> [on : BOOLEAN, msk : SUBSET Mirror, err : SUBSET Mirror]]
         /\ SyncStep(r)
<1>1. /\ e_state \in [Ext -> SUBSET {STALE, CHANGING}] /\ pb \in [Req -> Pbuf]
      /\ sync \in [LX -> [on : BOOLEAN, msk : SUBSET Mirror, err : SUBSET Mirror]]
  BY DEF TypeOK
<1>2. CASE WriteStart(r)
  <2>1. PICK lx \in LX : pb' = [pb EXCEPT ![r] = [NoPb EXCEPT !.state = "io", !.lx = lx,
                        !.type = "SA_STALEPX", !.act = MirrorsOf(lx) \ Missing(lx),
                        !.avoid = Missing(lx)]]
    BY <1>2 DEF WriteStart
  <2>2. Missing(lx) \in SUBSET Mirror /\ MirrorsOf(lx) \ Missing(lx) \in SUBSET Mirror
    BY DEF Missing, MirrorsOf
  <2>3. Only(r) /\ pb'[r].state = "io" /\ pb'[r].type = "SA_STALEPX"
    <3> DEFINE q == IoOf("SA_STALEPX", lx, MirrorsOf(lx) \ Missing(lx), Missing(lx))
    <3>1. q \in Pbuf /\ q.state = "io" /\ q.type = "SA_STALEPX"
      BY <2>2, IoPbuf
    <3>2. pb' = [pb EXCEPT ![r] = q]
      BY <2>1 DEF IoOf
    <3> HIDE DEF q
    <3> QED
      BY <1>1, <3>1, <3>2 DEF Only
  <2>4. /\ UNCHANGED <<used, area, wheel, missing, conf, call, again, grp>>
        /\ pb[r].state = "idle" /\ up = "up" /\ UNCHANGED <<hold, pc, e_state, sync>>
    BY <1>2 DEF WriteStart
  <2> QED
    BY <1>1, <2>3, <2>4 DEF Scheduled, SyncStep
<1>3. CASE SyncStart(r)
  <2>1. PICK lx \in LX :
          /\ sync' = [sync EXCEPT ![lx] = IF @.on THEN @ ELSE
                         [on |-> TRUE, err |-> {}, msk |-> SyncMask(lx)]]
          /\ pb' = [pb EXCEPT ![r] = [NoPb EXCEPT !.state = "io", !.lx = lx,
                        !.type = "SA_FRESHPX", !.act = sync'[lx].msk \ Missing(lx),
                        !.avoid = Missing(lx)]]
    BY <1>3 DEF SyncStart
  <2>2. SyncMask(lx) \in SUBSET Mirror /\ Missing(lx) \in SUBSET Mirror
    BY DEF Missing, MirrorsOf, SyncMask
  <2>3. sync' \in [LX -> [on : BOOLEAN, msk : SUBSET Mirror, err : SUBSET Mirror]]
    BY <1>1, <2>1, <2>2
  <2>4. sync'[lx].msk \ Missing(lx) \in SUBSET Mirror
    BY <2>3
  <2>5. Only(r) /\ pb'[r].state = "io" /\ pb'[r].type = "SA_FRESHPX"
    <3> DEFINE q == IoOf("SA_FRESHPX", lx, sync'[lx].msk \ Missing(lx), Missing(lx))
    <3>1. q \in Pbuf /\ q.state = "io" /\ q.type = "SA_FRESHPX"
      BY <2>2, <2>4, IoPbuf
    <3>2. pb' = [pb EXCEPT ![r] = q]
      BY <2>1 DEF IoOf
    <3> HIDE DEF q
    <3> QED
      BY <1>1, <3>1, <3>2 DEF Only
  <2>6. /\ UNCHANGED <<used, area, wheel, missing, conf, call, again, grp>>
        /\ pb[r].state = "idle" /\ up = "up" /\ UNCHANGED <<hold, pc, e_state>>
    BY <1>3 DEF SyncStart
  <2>7. \A m \in SyncMask(lx) : STALE \in e_state[lx, m]
    BY DEF SyncMask
  <2>8. \A l \in LX : l # lx => sync'[l] = sync[l]
    BY <1>1, <2>1
  <2>9. sync'[lx].msk = sync[lx].msk \/ sync'[lx].msk = SyncMask(lx)
    BY <1>1, <2>1
  <2>10. SyncStep(r)
    BY <2>6, <2>7, <2>8, <2>9 DEF SyncStep
  <2> QED
    BY <1>1, <2>3, <2>5, <2>6, <2>10 DEF Scheduled
<1>4. CASE WriteDone(r)
  <2>1. UNCHANGED <<used, area, wheel, missing, conf, call, again, grp>>
    BY <1>4 DEF WriteDone
  <2> QED
    BY <1>4, <2>1, WriteDoneEffect DEF Scheduled
<1>5. CASE SyncDone(r)
  <2>1. UNCHANGED <<used, area, wheel, missing, conf, call, again, grp>>
    BY <1>5 DEF SyncDone
  <2> QED
    BY <1>5, <2>1, SyncDoneEffect DEF Scheduled
<1>6. CASE Answer(r)
  <2>1. /\ UNCHANGED <<used, area, wheel, missing, conf, call, again, grp>>
        /\ pb[r].state = "done" /\ UNCHANGED <<hold, pc, sync>>
        /\ pb' = [pb EXCEPT ![r] = NoPb] /\ Settled(r)
    BY <1>6 DEF Answer, Finished, Settled
  <2>2. e_state' \in [Ext -> SUBSET {STALE, CHANGING}]
    BY <1>1, <1>6 DEF Answer
  <2> QED
    BY <1>1, <2>1, <2>2, NoPbIsPbuf DEF Scheduled, Only, SyncStep
<1> QED
  BY <1>2, <1>3, <1>4, <1>5, <1>6

-----------------------------------------------------------------------------
(* What the wheel does.                                                    *)

\* A set of numbers that is not empty has a least one.
LEMMA NatLeast ==
  ASSUME NEW T \in SUBSET Nat, T # {}
  PROVE  \E x \in T : \A y \in T : x <= y
<1> DEFINE R == OpToRel(<, Nat)
<1>1. \A x, y \in Nat : y < x => <<y, x>> \in R
  BY DEF OpToRel
<1>2. IsWellFoundedOn(R, Nat)
  BY NatLessThanWellFounded
<1> HIDE DEF R
<1>3. PICK x \in T : \A y \in T : ~(<<y, x>> \in R)
  BY <1>2, WFMin
<1>4. \A y \in T : ~(y < x)
  BY <1>1, <1>3, Zenon
<1> QED
  BY <1>4

\* Of requests that are not none, Oldest is one.
LEMMA OldestIsOne ==
  ASSUME TypeOK, NEW R \in SUBSET Req, R # {}
  PROVE  Oldest(R) \in R
<1> DEFINE T == {pb[a].seq : a \in R}
<1>1. \A a \in Req : pb[a].seq \in Nat
  BY DEF TypeOK, Pbuf
<1>2. T \in SUBSET Nat /\ T # {}
  BY <1>1
<1>3. PICK x \in T : \A y \in T : x <= y
  BY <1>2, NatLeast
<1>4. \E a \in R : \A b \in R : pb[a].seq <= pb[b].seq
  BY <1>3
<1> QED
  BY <1>4 DEF Oldest

\* The distances from a copy are numbers.
LEMMA DistanceType ==
  ASSUME NEW c \in -1 .. 2 * NPV - 1, NEW l \in Loc
  PROVE  Distance(c, l) \in Nat
  BY VgsaAssumption DEF Distance, Loc

\* lv_sa_whladv finds the next copy that can be written, if there is any.
LEMMA AdvanceIsNext ==
  ASSUME NEW c \in Loc, NEW S \in SUBSET Loc, S # {}
  PROVE  /\ Advance(c, S) \in S
         /\ \A k \in S : Distance(c, Advance(c, S)) <= Distance(c, k)
<1> DEFINE T == {Distance(c, l) : l \in S}
<1>1. c \in -1 .. 2 * NPV - 1
  BY VgsaAssumption DEF Loc
<1>2. \A l \in Loc : Distance(c, l) \in Nat
  BY <1>1, DistanceType
<1>3. T \in SUBSET Nat /\ T # {}
  BY <1>2
<1>4. PICK x \in T : \A y \in T : x <= y
  BY <1>3, NatLeast
<1>5. \E l \in S : \A k \in S : Distance(c, l) <= Distance(c, k)
  BY <1>4
<1> QED
  BY <1>5 DEF Advance

\* lv_sa_continue takes r, the first of the hold list, which joins an active
\* request or becomes one.
Joined(r) ==
  \E a \in Active : /\ Same(pb[a], pb[r]) /\ pb'[r].state = "merged"
                    /\ pb'[r].seq = pb[a].seq /\ stale' = stale
Entered(r) ==
  /\ pb'[r].state = "active" /\ pb'[r].seq = clock + 1
  /\ stale' = IF pb[r].type = "SA_STALEPX" THEN stale \cup Marks(pb[r])
                                           ELSE stale \ Marks(pb[r])
Taken(r) ==
  /\ r = hold[1] /\ r \in Req /\ pb[r].state = "hold" /\ Only(r)
  /\ pb'[r].type = pb[r].type /\ pb'[r].lx = pb[r].lx /\ pb'[r].bad = pb[r].bad
  /\ pb'[r].fresh = pb[r].fresh /\ pb'[r].blk = pb[r].blk
  /\ Joined(r) \/ Entered(r)

\* Enter is such a step.
LEMMA EnterEffect ==
  ASSUME TypeOK, Enter
  PROVE  /\ pc = "continue" /\ hold # <<>> /\ hold' = Tail(hold)
         /\ \E r \in Req : Taken(r)
         /\ UNCHANGED <<used, e_state, sync, clock, saseq, disk, wheel, pc, missing,
                        conf, call, again, grp>>
<1> DEFINE r == hold[1]
           same == {a \in Active : Same(pb[a], pb[r])}
<1>1. pc = "continue" /\ hold # <<>> /\ hold' = Tail(hold)
      /\ UNCHANGED <<used, e_state, sync, clock, saseq, disk, wheel, pc, missing,
                     conf, call, again, grp>>
  BY DEF Enter
<1>2. hold \in Seq(Req) /\ pb \in [Req -> Pbuf] /\ clock + 1 \in Nat
      /\ \A i \in 1 .. Len(hold) : pb[hold[i]].state = "hold"
  BY DEF TypeOK
<1>3. r \in Req /\ r = Head(hold) /\ pb[r].state = "hold" /\ pb[r] \in Pbuf
  BY <1>1, <1>2
<1>4. CASE same # {}
  <2> DEFINE a == Oldest(same)
             q == PlacedOf(pb[r], "merged", pb[a].seq)
  <2>1. pb' = [pb EXCEPT ![r] = q] /\ stale' = stale
    BY <1>3, <1>4 DEF Enter, PlacedOf
  <2>2. a \in Active /\ Same(pb[a], pb[r]) /\ a \in Req
    BY <1>4, OldestIsOne DEF Active
  <2>3. pb[a].seq \in Nat /\ "merged" \in PbStates
    BY <1>2, <2>2 DEF Pbuf, PbStates
  <2> HIDE DEF r, same, a
  <2>4. q \in Pbuf /\ q.state = "merged" /\ q.seq = pb[a].seq /\ q.type = pb[r].type
        /\ q.lx = pb[r].lx /\ q.bad = pb[r].bad /\ q.fresh = pb[r].fresh
        /\ q.blk = pb[r].blk
    BY <1>3, <2>3, PlacedPbuf, SMTT(40), ZenonT(20)
  <2> HIDE DEF q
  <2>5. pb'[r] = q /\ Only(r)
    BY <1>2, <1>3, <2>1, <2>4 DEF Only
  <2>6. Joined(r)
    BY <2>1, <2>2, <2>4, <2>5 DEF Joined
  <2>7. Taken(r)
    BY <1>3, <2>4, <2>5, <2>6 DEF Taken, r
  <2> QED
    BY <1>1, <1>3, <2>7
<1>5. CASE same = {}
  <2> DEFINE q == PlacedOf(pb[r], "active", clock + 1)
  <2>1. /\ pb' = [pb EXCEPT ![r] = q]
        /\ stale' = IF pb[r].type = "SA_STALEPX" THEN stale \cup Marks(pb[r])
                                                 ELSE stale \ Marks(pb[r])
    BY <1>3, <1>5 DEF Enter, PlacedOf
  <2>2. "active" \in PbStates
    BY DEF PbStates
  <2> HIDE DEF r, same
  <2>3. q \in Pbuf /\ q.state = "active" /\ q.seq = clock + 1 /\ q.type = pb[r].type
        /\ q.lx = pb[r].lx /\ q.bad = pb[r].bad /\ q.fresh = pb[r].fresh
        /\ q.blk = pb[r].blk
    BY <1>2, <1>3, <2>2, PlacedPbuf
  <2> HIDE DEF q
  <2>4. pb'[r] = q /\ Only(r)
    BY <1>2, <1>3, <2>1, <2>3 DEF Only
  <2>5. Entered(r)
    BY <2>1, <2>3, <2>4 DEF Entered
  <2>6. Taken(r)
    BY <1>3, <2>3, <2>4, <2>5 DEF Taken, r
  <2> QED
    BY <1>1, <1>3, <2>6
<1> QED
  BY <1>4, <1>5

\* lv_sa_continue after the hold list: the configuration operation in effect, ...
ConfSeq == IF ConfPending THEN [conf EXCEPT !.op = "CNFG_INPROGRESS", !.seq = NewClock]
                          ELSE conf

\* ... without quorum everybody is refused, ...
Refused ==
  /\ lost \/ LosesQuorum
  /\ lost' = TRUE /\ conf' = ConfSeq /\ pc' = "stopped" /\ wheel' = wheel
  /\ pb' = [r \in Req |-> IF pb[r].state \in {"active", "merged"} THEN NoPb ELSE pb[r]]
  /\ again' = again \cup Active

\* ... with it the wheel rolls to the copy n, ...
Rolled(n) ==
  /\ ~lost /\ ~LosesQuorum /\ lost' = lost /\ again' = again
  /\ n \in Usable' /\ \A k \in Usable' : Distance(wheel, n) <= Distance(wheel, k)
  /\ pb' = [r \in Req |-> IF LetGo(pb[r], n) THEN DoneOf(pb[r]) ELSE pb[r]]
  /\ conf' = IF ConfSeq.op = "CNFG_INPROGRESS" /\ ConfSeq.seq <= saseq[n]
             THEN NoConf ELSE ConfSeq
  /\ wheel' = n
  /\ pc' = IF clock' > saseq[n] THEN "writing" ELSE "stopped"

\* ... and without a PV it does not.
Spun == ~lost /\ pc' = "spinning" /\ conf' = ConfSeq /\ UNCHANGED <<pb, wheel, again, lost>>

\* The step of the clock.
LEMMA ClockStep ==
  ASSUME TypeOK
  PROVE  /\ NewClock \in Nat \ {0} /\ clock <= NewClock /\ NewClock <= clock + 1
         /\ ConfSeq \in [op : {"CNFG_NOP", "CNFG_INPROGRESS"}, arg : {conf.arg},
                         seq : 0 .. NewClock]
         /\ ConfSeq.op = "CNFG_NOP" => ConfSeq = conf
<1>1. clock \in Nat \ {0} /\ conf \in [op : ConfOps, arg : {conf.arg}, seq : 0 .. clock]
  BY DEF TypeOK
<1>2. NewClock \in Nat \ {0} /\ clock <= NewClock /\ NewClock <= clock + 1
  BY <1>1 DEF NewClock
<1>3. CASE ConfPending
  <2>1. ConfSeq = [conf EXCEPT !.op = "CNFG_INPROGRESS", !.seq = NewClock]
    BY <1>3 DEF ConfSeq
  <2>2. ConfSeq.op = "CNFG_INPROGRESS" /\ ConfSeq.seq = NewClock /\ ConfSeq.arg = conf.arg
        /\ ConfSeq \in [op : {"CNFG_INPROGRESS"}, arg : {conf.arg}, seq : {NewClock}]
    BY <1>1, <2>1
  <2> QED
    BY <1>2, <2>2
<1>4. CASE ~ConfPending
  <2>1. ConfSeq = conf /\ conf.op \in {"CNFG_NOP", "CNFG_INPROGRESS"}
    BY <1>4 DEF ConfSeq, ConfPending
  <2> QED
    BY <1>1, <1>2, <2>1
<1> QED
  BY <1>3, <1>4

\* Turn is one of the three.
LEMMA TurnEffect ==
  ASSUME TypeOK, Turn
  PROVE  /\ pc = "continue" /\ hold = <<>> /\ clock' = NewClock
         /\ stale \subseteq stale' /\ stale' \subseteq Ext
         /\ missing \subseteq missing' /\ missing' \subseteq PV
         /\ UNCHANGED <<used, e_state, sync, hold, saseq, disk, call, up, pvols, away,
                        failures, crashes>>
         /\ \/ Refused
            \/ \E n \in Loc : Rolled(n)
            \/ Spun
<1>1. /\ pc = "continue" /\ hold = <<>> /\ clock' = NewClock
      /\ UNCHANGED <<used, e_state, sync, hold, saseq, disk, call, up, pvols, away,
                     failures, crashes>>
      /\ stale' = IF conf.op = "CNFG_STALEPX" THEN stale \cup conf.arg ELSE stale
      /\ missing' = IF conf.op = "CNFG_PVMISSING" THEN missing \cup conf.arg ELSE missing
  BY DEF Turn
<1>2. /\ stale \subseteq stale' /\ stale' \subseteq Ext
      /\ missing \subseteq missing' /\ missing' \subseteq PV
  BY <1>1 DEF TypeOK
<1> DEFINE usable == {l \in Usable : l \div 2 \notin missing'}
<1>3. usable = Usable'
  BY <1>1, <1>2 DEF Usable
<1>4. IF lost \/ LosesQuorum THEN Refuse(ConfSeq)
      ELSE IF usable # {} THEN Roll(ConfSeq, usable)
      ELSE pc' = "spinning" /\ conf' = ConfSeq /\ UNCHANGED <<pb, wheel, again, lost>>
  BY DEF Turn, ConfSeq
<1>5. usable \in SUBSET Loc /\ wheel \in Loc /\ Req = Req
  BY DEF Usable, TypeOK
<1> HIDE DEF usable
<1>6. CASE lost \/ LosesQuorum
  <2>1. Refuse(ConfSeq)
    BY <1>4, <1>6
  <2>2. Refused
    <3>1. pb' = [r \in Req |-> IF pb[r].state \in {"active", "merged"} THEN NoPb ELSE pb[r]]
      BY <2>1 DEF Refuse, Finished
    <3> QED
      BY <1>6, <2>1, <3>1 DEF Refuse, Refused
  <2> QED
    BY <1>1, <1>2, <2>2
<1>7. CASE ~(lost \/ LosesQuorum) /\ usable # {}
  <2> DEFINE n == Advance(wheel, usable)
  <2>1. Roll(ConfSeq, usable)
    BY <1>4, <1>7
  <2>2. n \in Loc /\ n \in Usable' /\ \A k \in Usable' : Distance(wheel, n) <= Distance(wheel, k)
    BY <1>3, <1>5, <1>7, AdvanceIsNext
  <2>3. /\ lost' = lost /\ again' = again
        /\ pb' = [r \in Req |-> IF LetGo(pb[r], n) THEN DoneOf(pb[r]) ELSE pb[r]]
        /\ conf' = IF ConfSeq.op = "CNFG_INPROGRESS" /\ ConfSeq.seq <= saseq[n]
                   THEN NoConf ELSE ConfSeq
        /\ wheel' = n
        /\ pc' = IF clock' > saseq[n] THEN "writing" ELSE "stopped"
    BY <2>1 DEF Roll, DoneOf
  <2> HIDE DEF n
  <2>4. Rolled(n)
    BY <1>7, <2>2, <2>3 DEF Rolled
  <2> QED
    BY <1>1, <1>2, <2>2, <2>4
<1>8. CASE ~(lost \/ LosesQuorum) /\ usable = {}
  <2>1. Spun
    BY <1>4, <1>8 DEF Spun
  <2> QED
    BY <1>1, <1>2, <2>1
<1> QED
  BY <1>6, <1>7, <1>8

-----------------------------------------------------------------------------
(* Type correctness.                                                       *)

\* Every action keeps the types.
LEMMA TypeInductive == TypeOK /\ [Next]_vars => TypeOK'
<1> SUFFICES ASSUME TypeOK, [Next]_vars PROVE TypeOK'
  OBVIOUS
<1> USE DEF STALE, CHANGING
<1>0. CASE UNCHANGED vars
  BY <1>0 DEF TypeOK, vars, io, area, grp
<1>1. ASSUME NEW r \in Req,
             WriteStart(r) \/ WriteDone(r) \/ SyncStart(r) \/ SyncDone(r) \/ Answer(r)
      PROVE  TypeOK'
  <2>1. /\ Scheduled(r) /\ e_state' \in [Ext -> SUBSET {STALE, CHANGING}]
        /\ sync' \in [LX -> [on : BOOLEAN, msk : SUBSET Mirror, err : SUBSET Mirror]]
    BY <1>1, SchedulerEffect
  <2>2. pb' \in [Req -> Pbuf]
    BY <2>1 DEF TypeOK, Scheduled, Only
  <2>3. \A q \in Req : q # r => pb'[q] = pb[q]
    BY <2>1 DEF TypeOK, Scheduled, Only
  <2>4. /\ hold' \in Seq(Req) /\ \A i \in 1 .. Len(hold') : pb'[hold'[i]].state = "hold"
        /\ \A i, j \in 1 .. Len(hold') : hold'[i] = hold'[j] => i = j
    <3>1. hold \in Seq(Req) /\ \A i \in 1 .. Len(hold) : pb[hold[i]].state = "hold"
      BY DEF TypeOK
    <3>2. /\ \A i \in 1 .. Len(hold) : hold[i] \in Req
          /\ \A i, j \in 1 .. Len(hold) : hold[i] = hold[j] => i = j
      BY <3>1 DEF TypeOK
    <3>3. CASE pb[r].state # "hold" /\ hold' = hold
      <4>1. \A i \in 1 .. Len(hold) : hold[i] # r
        BY <3>1, <3>3
      <4>2. \A i \in 1 .. Len(hold) : pb'[hold[i]].state = "hold"
        BY <2>3, <3>1, <3>2, <4>1
      <4> QED
        BY <3>1, <3>2, <3>3, <4>2
    <3>4. CASE pb[r].state # "hold" /\ hold' = Append(hold, r) /\ pb'[r].state = "hold"
      <4>1. hold' \in Seq(Req) /\ Len(hold') = Len(hold) + 1
            /\ \A i \in 1 .. Len(hold') : hold'[i] = IF i <= Len(hold) THEN hold[i] ELSE r
        BY <3>1, <3>4
      <4>2. \A i \in 1 .. Len(hold) : hold[i] # r
        BY <3>1, <3>4
      <4>3. \A i \in 1 .. Len(hold) : pb'[hold[i]].state = "hold"
        BY <2>3, <3>1, <3>2, <4>2
      <4>4. \A i, j \in 1 .. Len(hold') : hold'[i] = hold'[j] => i = j
        BY <3>1, <3>2, <4>1, <4>2
      <4> QED
        BY <3>4, <4>1, <4>3, <4>4
    <3> QED
      BY <2>1, <3>3, <3>4 DEF Scheduled, Queued
  <2>5. UNCHANGED <<used, area, wheel, missing, conf, call, again, grp>>
    BY <2>1 DEF Scheduled
  <2>6. pc' \in {"stopped", "continue", "writing", "spinning"}
    <3>1. pc' = pc \/ pc' = "continue"
      BY <2>1 DEF Scheduled, Queued, Started
    <3> QED
      BY <3>1 DEF TypeOK
  <2> QED
    BY <2>1, <2>2, <2>4, <2>5, <2>6 DEF TypeOK, area, grp
<1>2. CASE Enter
  <2>1. PICK r \in Req : Taken(r)
    BY <1>2, EnterEffect
  <2>2. hold # <<>> /\ hold' = Tail(hold)
        /\ UNCHANGED <<used, e_state, sync, clock, saseq, disk, wheel, pc, missing,
                       conf, call, again, grp>>
    BY <1>2, EnterEffect
  <2>3. pb' \in [Req -> Pbuf]
    BY <2>1 DEF Taken, Only, TypeOK
  <2>4. stale' \subseteq Ext
    <3>1. pb[r] \in Pbuf
      BY DEF TypeOK
    <3>2. Marks(pb[r]) \subseteq Ext
      BY <3>1, MarksType
    <3> QED
      BY <2>1, <3>2 DEF Taken, Joined, Entered, TypeOK
  <2>5. /\ hold' \in Seq(Req) /\ \A i \in 1 .. Len(hold') : pb'[hold'[i]].state = "hold"
        /\ \A i, j \in 1 .. Len(hold') : hold'[i] = hold'[j] => i = j
    <3>1. /\ hold \in Seq(Req) /\ hold # <<>> /\ hold' = Tail(hold)
          /\ \A i \in 1 .. Len(hold) : pb[hold[i]].state = "hold"
          /\ \A i, j \in 1 .. Len(hold) : hold[i] = hold[j] => i = j
      BY <2>2 DEF TypeOK
    <3>2. /\ hold' \in Seq(Req) /\ Len(hold') = Len(hold) - 1 /\ Len(hold) \in Nat
          /\ \A i \in 1 .. Len(hold') : hold'[i] = hold[i + 1] /\ i + 1 \in 1 .. Len(hold)
          /\ 1 \in 1 .. Len(hold) /\ \A i \in 1 .. Len(hold) : hold[i] \in Req
      BY <3>1
    <3>3. \A i, j \in 1 .. Len(hold') : hold'[i] = hold'[j] => i = j
      BY <3>1, <3>2
    <3>4. \A i \in 1 .. Len(hold') : hold'[i] # r /\ hold'[i] \in Req
      <4>1. r = hold[1]
        BY <2>1 DEF Taken
      <4>2. \A i \in 1 .. Len(hold') : i + 1 # 1
        BY <3>2
      <4> QED
        BY <3>1, <3>2, <4>1, <4>2
    <3>5. \A q \in Req : q # r => pb'[q] = pb[q]
      BY <2>1 DEF Taken, Only, TypeOK
    <3>6. \A i \in 1 .. Len(hold') : pb'[hold'[i]].state = "hold"
      BY <3>1, <3>2, <3>4, <3>5
    <3> QED
      BY <3>2, <3>3, <3>6
  <2> QED
    BY <2>2, <2>3, <2>4, <2>5 DEF TypeOK, grp
<1>3. CASE Turn
  <2>1. /\ hold = <<>> /\ clock' = NewClock
        /\ stale' \subseteq Ext /\ missing' \subseteq PV
        /\ UNCHANGED <<used, e_state, sync, hold, saseq, disk, call, up, pvols, away,
                       failures, crashes>>
        /\ Refused \/ (\E n \in Loc : Rolled(n)) \/ Spun
    BY <1>3, TurnEffect
  <2>2. /\ NewClock \in Nat \ {0} /\ clock <= NewClock
        /\ ConfSeq \in [op : {"CNFG_NOP", "CNFG_INPROGRESS"}, arg : {conf.arg},
                        seq : 0 .. NewClock]
    BY ClockStep
  <2>3. conf' \in [op : {"CNFG_NOP", "CNFG_INPROGRESS"}, arg : {conf'.arg}, seq : 0 .. clock']
    <3>1. conf' = ConfSeq \/ conf' = NoConf
      BY <2>1 DEF Refused, Rolled, Spun
    <3>2. ConfSeq \in [op : {"CNFG_NOP", "CNFG_INPROGRESS"}, arg : {ConfSeq.arg},
                       seq : 0 .. NewClock]
      BY <2>2
    <3>3. NoConf \in [op : {"CNFG_NOP", "CNFG_INPROGRESS"}, arg : {NoConf.arg},
                      seq : 0 .. NewClock]
      BY <2>2 DEF NoConf
    <3> HIDE DEF ConfSeq, NoConf
    <3> QED
      BY <2>1, <3>1, <3>2, <3>3
  <2>4. conf' \in [op : ConfOps, arg : {conf'.arg}, seq : 0 .. clock']
        /\ conf'.op # "CNFG_PVMISSING" /\ conf'.op # "CNFG_STALEPX"
    BY <2>3 DEF ConfOps
  <2>5. pb' \in [Req -> Pbuf]
    <3>1. \A r \in Req : pb[r] \in Pbuf
      BY DEF TypeOK
    <3>2. \A r \in Req : DoneOf(pb[r]) \in Pbuf
      BY <3>1, DonePbuf
    <3>3. CASE Refused
      BY <3>1, <3>3, NoPbIsPbuf DEF Refused
    <3>4. ASSUME NEW n \in Loc, Rolled(n) PROVE pb' \in [Req -> Pbuf]
      BY <3>1, <3>2, <3>4 DEF Rolled
    <3>5. CASE Spun
      BY <3>5 DEF Spun, TypeOK
    <3> QED
      BY <2>1, <3>3, <3>4, <3>5
  <2>6. /\ wheel' \in Loc /\ lost' \in BOOLEAN /\ again' \subseteq Req
        /\ pc' \in {"stopped", "continue", "writing", "spinning"}
    BY <2>1 DEF Refused, Rolled, Spun, TypeOK, Active
  <2>7. saseq' \in [Loc -> 0 .. clock'] /\ disk' \in [Loc -> [ts : 0 .. clock', stale : SUBSET Ext]]
    <3>1. 0 .. clock \subseteq 0 .. NewClock
      BY <2>2 DEF TypeOK
    <3>2. saseq \in [Loc -> 0 .. clock] /\ disk \in [Loc -> [ts : 0 .. clock, stale : SUBSET Ext]]
      BY DEF TypeOK
    <3>3. saseq \in [Loc -> 0 .. NewClock]
      BY <3>1, <3>2
    <3>4. disk \in [Loc -> [ts : 0 .. NewClock, stale : SUBSET Ext]]
      <4>1. \A l \in Loc : disk[l] \in [ts : 0 .. NewClock, stale : SUBSET Ext]
        BY <3>1, <3>2
      <4> QED
        BY <3>2, <4>1
    <3> QED
      BY <2>1, <3>3, <3>4
  <2>8. /\ hold' \in Seq(Req) /\ \A i \in 1 .. Len(hold') : pb'[hold'[i]].state = "hold"
        /\ \A i, j \in 1 .. Len(hold') : hold'[i] = hold'[j] => i = j
    BY <2>1 DEF TypeOK
  <2> QED
    BY <2>1, <2>2, <2>4, <2>5, <2>6, <2>7, <2>8 DEF TypeOK
<1>4. CASE WriteArea
  <2>1. /\ disk' = disk \/ disk' = [disk EXCEPT ![wheel] = Current]
           \/ disk' = [disk EXCEPT ![wheel] = Torn]
        /\ failures' \in Nat
        /\ \/ AreaWritten
           \/ AreaFails
        /\ pc' = "continue"
        /\ UNCHANGED <<io, hold, stale, wheel, conf, call, again, up, pvols,
                       away, lost, crashes>>
    BY <1>4 DEF WriteArea, TypeOK
  <2>2. /\ clock' \in Nat \ {0} /\ clock <= clock' /\ missing' \subseteq PV
        /\ saseq' \in [Loc -> 0 .. clock']
    <3>1. CASE AreaWritten
      <4>1. clock \in 0 .. clock
        BY DEF TypeOK
      <4> QED
        BY <3>1, <4>1 DEF AreaWritten, TypeOK
    <3>2. CASE AreaFails
      <4>1. wheel \div 2 \in PV
        BY VgsaAssumption, SMTT(40), ZenonT(20) DEF TypeOK, Loc, PV
      <4>2. clock \in Nat /\ 0 .. clock \subseteq 0 .. clock + 1
        BY DEF TypeOK
      <4>3. saseq \in [Loc -> 0 .. clock + 1]
        BY <4>2 DEF TypeOK
      <4> QED
        BY <3>2, <4>1, <4>2, <4>3 DEF AreaFails, TypeOK
    <3> QED
      BY <2>1, <3>1, <3>2
  <2>3. disk' \in [Loc -> [ts : 0 .. clock', stale : SUBSET Ext]]
    <3>1. 0 .. clock \subseteq 0 .. clock' /\ clock \in 0 .. clock' /\ 0 \in 0 .. clock'
      BY <2>2 DEF TypeOK
    <3>2. disk \in [Loc -> [ts : 0 .. clock, stale : SUBSET Ext]]
      BY DEF TypeOK
    <3>3. \A l \in Loc : disk[l] \in [ts : 0 .. clock', stale : SUBSET Ext]
      BY <3>1, <3>2
    <3>4. Current \in [ts : 0 .. clock', stale : SUBSET Ext]
          /\ Torn \in [ts : 0 .. clock', stale : SUBSET Ext]
      BY <3>1 DEF Current, Torn, TypeOK
    <3> HIDE DEF Current, Torn
    <3> QED
      BY <2>1, <3>2, <3>3, <3>4
  <2>4. conf' \in [op : ConfOps, arg : {conf'.arg}, seq : 0 .. clock']
    <3>1. 0 .. clock \subseteq 0 .. clock'
      BY <2>2 DEF TypeOK
    <3> QED
      BY <2>1, <3>1 DEF TypeOK
  <2> QED
    BY <2>1, <2>2, <2>3, <2>4 DEF TypeOK, io
<1>5. CASE Command
  <2>1. /\ UNCHANGED <<io, hold, area, wheel, missing, again, up, pvols, lost,
                       failures, crashes>>
        /\ away' \subseteq away
    BY <1>5 DEF Command
  <2>2. \/ \E p \in PV : SaConfig("attach", {p}, "CNFG_INSTALLPV", {p})
        \/ \E p \in PV : SaConfig("delete", {p}, "CNFG_PVMISSING", {p})
        \/ \E e \in Ext : SaConfig("extend", {e}, "CNFG_STALEPX", Stale(e))
    BY <1>5, VgsaAssumption DEF Command, TypeOK
  <2>3. \E what \in Commands, op \in {"CNFG_INSTALLPV", "CNFG_PVMISSING", "CNFG_STALEPX"} :
          \E arg, oparg :
            /\ SaConfig(what, arg, op, oparg)
            /\ what = "extend" => arg \subseteq Ext
            /\ op = "CNFG_PVMISSING" => oparg \subseteq PV
            /\ op = "CNFG_STALEPX" => oparg \subseteq Ext
    <3>1. \A e \in Ext : Stale(e) \subseteq Ext
      BY DEF Stale
    <3> QED
      BY <2>2, <3>1 DEF SaConfig
  <2>4. PICK what \in Commands, op \in {"CNFG_INSTALLPV", "CNFG_PVMISSING", "CNFG_STALEPX"} :
          \E arg, oparg :
            /\ SaConfig(what, arg, op, oparg)
            /\ what = "extend" => arg \subseteq Ext
            /\ op = "CNFG_PVMISSING" => oparg \subseteq PV
            /\ op = "CNFG_STALEPX" => oparg \subseteq Ext
    BY <2>3
  <2>5. PICK arg, oparg :
            /\ SaConfig(what, arg, op, oparg)
            /\ what = "extend" => arg \subseteq Ext
            /\ op = "CNFG_PVMISSING" => oparg \subseteq PV
            /\ op = "CNFG_STALEPX" => oparg \subseteq Ext
    BY <2>4
  <2>6. /\ call' \in [what : Commands \cup {"none", "activate"}, arg : {call'.arg}]
        /\ call'.what = "extend" => call'.arg \subseteq Ext
    BY <2>5 DEF SaConfig
  <2>7. /\ conf' \in [op : ConfOps, arg : {conf'.arg}, seq : 0 .. clock]
        /\ conf'.op = "CNFG_PVMISSING" => conf'.arg \subseteq PV
        /\ conf'.op = "CNFG_STALEPX" => conf'.arg \subseteq Ext
    <3>1. CASE lost
      BY <2>5, <3>1 DEF SaConfig, TypeOK
    <3>2. CASE ~lost
      <4>1. conf' = [op |-> op, arg |-> oparg, seq |-> 0]
        BY <2>5, <3>2 DEF SaConfig
      <4>2. op \in ConfOps /\ 0 \in 0 .. clock
        BY DEF ConfOps, TypeOK
      <4> QED
        BY <2>5, <4>1, <4>2
    <3> QED
      BY <3>1, <3>2
  <2>8. pc' \in {"stopped", "continue", "writing", "spinning"}
    <3>1. pc' = pc \/ pc' = "continue"
      BY <2>5 DEF SaConfig, Started
    <3> QED
      BY <3>1 DEF TypeOK
  <2> QED
    BY <2>1, <2>6, <2>7, <2>8 DEF TypeOK, io, area
<1>6. CASE ConfigReturn
  <2>1. /\ call' = NoCall /\ missing' \subseteq missing /\ pvols' \subseteq pvols
        /\ up' = "up" /\ away' \subseteq away
        /\ UNCHANGED <<sync, pb, hold, area, wheel, pc, conf, again, lost,
                       failures, crashes>>
    BY <1>6 DEF ConfigReturn
  <2>2. used' \subseteq Ext /\ e_state' \in [Ext -> SUBSET {STALE, CHANGING}]
    BY <1>6 DEF ConfigReturn, TypeOK
  <2>3. call' \in [what : Commands \cup {"none", "activate"}, arg : {call'.arg}]
        /\ call'.what # "extend"
    BY <2>1 DEF NoCall
  <2> QED
    BY <2>1, <2>2, <2>3 DEF TypeOK, area
<1>7. CASE Crash
  <2>1. /\ disk' \in [Loc -> [ts : 0 .. clock, stale : SUBSET Ext]]
    <3>1. disk \in [Loc -> [ts : 0 .. clock, stale : SUBSET Ext]] /\ wheel \in Loc
      BY DEF TypeOK
    <3>2. /\ Current \in [ts : 0 .. clock, stale : SUBSET Ext]
          /\ Torn \in [ts : 0 .. clock, stale : SUBSET Ext]
          /\ disk[wheel] \in [ts : 0 .. clock, stale : SUBSET Ext]
      BY <3>1 DEF Current, Torn, TypeOK
    <3>3. disk' = disk \/ \E copy \in {disk[wheel], Torn, Current} :
                              disk' = [disk EXCEPT ![wheel] = copy]
      BY <1>7 DEF Crash
    <3> HIDE DEF Current, Torn
    <3> QED
      BY <3>1, <3>2, <3>3
  <2>2. /\ up' = "down" /\ crashes' \in Nat
        /\ e_state' = [e \in Ext |-> {}] /\ sync' = [lx \in LX |-> NoSync]
        /\ pb' = [r \in Req |-> NoPb] /\ hold' = <<>> /\ again' = {}
        /\ stale' = {} /\ saseq' = [l \in Loc |-> 0] /\ wheel' = 0 /\ pc' = "stopped"
        /\ missing' = {} /\ away' = {} /\ lost' = FALSE /\ conf' = NoConf /\ call' = NoCall
        /\ UNCHANGED <<used, clock, pvols, failures>>
    BY <1>7 DEF Crash, TypeOK
  <2>3. /\ pb' \in [Req -> Pbuf] /\ e_state' \in [Ext -> SUBSET {STALE, CHANGING}]
        /\ sync' \in [LX -> [on : BOOLEAN, msk : SUBSET Mirror, err : SUBSET Mirror]]
    BY <2>2, NoPbIsPbuf DEF NoSync
  <2>4. /\ hold' \in Seq(Req) /\ \A i \in 1 .. Len(hold') : pb'[hold'[i]].state = "hold"
        /\ \A i, j \in 1 .. Len(hold') : hold'[i] = hold'[j] => i = j
    BY <2>2
  <2>5. 0 \in Loc /\ 0 \in 0 .. clock /\ saseq' \in [Loc -> 0 .. clock]
    BY <2>2, VgsaAssumption, SMTT(40), ZenonT(20) DEF Loc, TypeOK
  <2>6. /\ conf' \in [op : ConfOps, arg : {conf'.arg}, seq : 0 .. clock]
        /\ conf'.op = "CNFG_NOP"
        /\ call' \in [what : Commands \cup {"none", "activate"}, arg : {call'.arg}]
        /\ call'.what = "none"
    BY <2>2, <2>5 DEF NoConf, NoCall, ConfOps
  <2>7. stale' \subseteq Ext /\ missing' \subseteq PV /\ away' \subseteq PV
        /\ again' \subseteq Req /\ lost' \in BOOLEAN /\ wheel' \in Loc
        /\ pc' = "stopped" /\ up' = "down" /\ crashes' \in Nat
        /\ UNCHANGED <<used, clock, pvols, failures>>
    BY <2>2, <2>5
  <2>8. conf'.op # "CNFG_PVMISSING" /\ conf'.op # "CNFG_STALEPX" /\ call'.what # "extend"
    BY <2>6
  <2> QED
    BY <2>1, <2>3, <2>4, <2>5, <2>6, <2>7, <2>8 DEF TypeOK
<1>8. CASE Activate
  <2>1. /\ up' = "starting"
        /\ call' = [what |-> "activate", arg |-> {}]
        /\ conf' = [op |-> "CNFG_SYNCWRITE", arg |-> {}, seq |-> 0]
        /\ pc' = "continue"
        /\ UNCHANGED <<used, sync, pb, hold, clock, saseq, disk, again, pvols,
                       lost, failures, crashes>>
    BY <1>8 DEF Activate
  <2>2. PICK Q \in Quorum : \E l \in Newest(Q) :
          /\ stale' = disk[l].stale
          /\ e_state' = [e \in Ext |-> IF e \in used \cap disk[l].stale
                                       THEN {STALE} ELSE {}]
          /\ wheel' = l
          /\ missing' = pvols \ Q /\ away' = pvols \ Q
    BY <1>8 DEF Activate
  <2>3. /\ stale' \subseteq Ext /\ wheel' \in Loc /\ missing' \subseteq PV
        /\ away' \subseteq PV /\ e_state' \in [Ext -> SUBSET {STALE, CHANGING}]
    BY <2>2 DEF Newest, TypeOK
  <2>4. /\ conf' \in [op : ConfOps, arg : {conf'.arg}, seq : 0 .. clock]
        /\ conf'.op = "CNFG_SYNCWRITE"
        /\ call' \in [what : Commands \cup {"none", "activate"}, arg : {call'.arg}]
        /\ call'.what = "activate"
    <3>1. 0 \in 0 .. clock
      BY DEF TypeOK
    <3> QED
      BY <2>1, <3>1 DEF ConfOps
  <2> QED
    BY <2>1, <2>3, <2>4 DEF TypeOK
<1> QED
  BY <1>0, <1>1, <1>2, <1>3, <1>4, <1>5, <1>6, <1>7, <1>8 DEF Next

\* The types hold at first.
LEMMA TypeInit == Init => TypeOK
<1> SUFFICES ASSUME Init PROVE TypeOK
  OBVIOUS
<1>1. missing \in Detached /\ missing \subseteq PV
  BY VgsaAssumption DEF Init
<1>2. /\ pb \in [Req -> Pbuf] /\ e_state \in [Ext -> SUBSET {STALE, CHANGING}]
      /\ sync \in [LX -> [on : BOOLEAN, msk : SUBSET Mirror, err : SUBSET Mirror]]
  BY NoPbIsPbuf DEF NoSync, Init
<1>3. /\ hold \in Seq(Req) /\ \A i \in 1 .. Len(hold) : pb[hold[i]].state = "hold"
      /\ \A i, j \in 1 .. Len(hold) : hold[i] = hold[j] => i = j
  BY DEF Init
<1>4. 0 \in Loc /\ saseq \in [Loc -> 0 .. clock] /\ clock \in Nat \ {0} /\ clock = 2
  BY VgsaAssumption DEF Loc, Init
<1>5. /\ conf \in [op : ConfOps, arg : {conf.arg}, seq : 0 .. clock]
      /\ conf.op = "CNFG_NOP"
      /\ call \in [what : Commands \cup {"none", "activate"}, arg : {call.arg}]
      /\ call.what = "none"
  BY <1>4 DEF NoConf, NoCall, ConfOps, Init
<1>6. disk \in [Loc -> [ts : 0 .. clock, stale : SUBSET Ext]]
  BY <1>4 DEF Init
<1>7. conf.op # "CNFG_PVMISSING" /\ conf.op # "CNFG_STALEPX" /\ call.what # "extend"
  BY <1>5
<1>8. /\ used \subseteq Ext /\ stale \subseteq Ext /\ away \subseteq PV /\ pvols \subseteq PV
      /\ again \subseteq Req /\ lost \in BOOLEAN /\ failures \in Nat /\ crashes \in Nat
      /\ wheel \in Loc /\ pc = "stopped" /\ up = "up"
  BY <1>1, <1>4 DEF Init
<1> QED
  BY <1>1, <1>2, <1>3, <1>4, <1>5, <1>6, <1>7, <1>8 DEF TypeOK

\* Type correctness: at every step of the status area, the scheduler and the commands
\* the state stays one that the code's structures can hold; the hold list has only
\* pbufs that wait for it, each once.
THEOREM TypeCorrect == Spec => []TypeOK
  BY TypeInit, TypeInductive, PTL DEF Spec

-----------------------------------------------------------------------------
(* When the wheel stands still nobody waits for it.                        *)

\* r rides on the wheel.
Riding(r) == pb[r].state \in {"active", "merged"}

\* The wheel rolls as long as there is work: the change of a request that rides has
\* a number that the clock has reached, or will at the end of the hold list.
RollInv ==
    /\ pc = "stopped" => hold = <<>> /\ Active = {} /\ (conf = NoConf \/ lost)
    /\ conf.op = "CNFG_NOP" => conf = NoConf
    /\ \A r \in Req : Riding(r) =>
          \/ pb[r].seq <= clock
          \/ /\ pc = "continue" /\ pb[r].seq = clock + 1
             /\ \E a \in Active : pb[a].seq = clock + 1

\* After the hold list no request that rides is ahead of the clock.
LEMMA NobodyAhead ==
  ASSUME TypeOK, RollInv
  PROVE  \A r \in Req : Riding(r) => pb[r].seq <= NewClock
<1> TAKE r \in Req
<1> HAVE Riding(r)
<1>1. clock \in Nat /\ pb[r].seq \in Nat
  BY DEF TypeOK, Pbuf
<1>2. CASE pb[r].seq <= clock
  BY <1>1, <1>2 DEF NewClock
<1>3. CASE pb[r].seq = clock + 1 /\ \E a \in Active : pb[a].seq = clock + 1
  <2>1. \E a \in Active : pb[a].seq > clock
    BY <1>1, <1>3
  <2> QED
    BY <1>1, <1>3, <2>1 DEF NewClock
<1> QED
  BY <1>2, <1>3 DEF RollInv

\* lv_sa_continue stops the wheel only when the next copy holds everything.
LEMMA TurnKeepsRoll == TypeOK /\ RollInv /\ Turn => RollInv'
<1> SUFFICES ASSUME TypeOK, RollInv, Turn PROVE RollInv'
  OBVIOUS
<1>1. /\ hold = <<>> /\ hold' = hold /\ clock' = NewClock /\ saseq' = saseq
      /\ Refused \/ (\E n \in Loc : Rolled(n)) \/ Spun
  BY TurnEffect
<1>2. /\ NewClock \in Nat /\ clock <= NewClock /\ clock \in Nat
      /\ ConfSeq.op = "CNFG_NOP" => ConfSeq = conf
      /\ ConfSeq.op \in {"CNFG_NOP", "CNFG_INPROGRESS"} /\ ConfSeq.seq \in Nat
  BY ClockStep DEF TypeOK
<1>3. \A r \in Req : Riding(r) => pb[r].seq <= NewClock
  BY NobodyAhead
<1>4. ConfSeq.op = "CNFG_NOP" => ConfSeq = NoConf
  BY <1>2 DEF RollInv
<1>5. CASE Refused
  <2>1. \A r \in Req : ~Riding(r)'
    BY <1>5, NoPbIsPbuf DEF Refused, Riding
  <2> QED
    BY <1>1, <1>4, <1>5, <2>1 DEF RollInv, Refused, Riding, Active
<1>6. CASE Spun
  <2>1. \A r \in Req : Riding(r)' => pb[r]'.seq <= clock'
    BY <1>1, <1>3, <1>6 DEF Spun, Riding
  <2> QED
    BY <1>4, <1>6, <2>1 DEF RollInv, Spun
<1>7. ASSUME NEW n \in Loc, Rolled(n) PROVE RollInv'
  <2>1. saseq[n] \in Nat /\ saseq[n] <= clock
    BY DEF TypeOK
  <2>2. \A r \in Req : \/ LetGo(pb[r], n) /\ pb'[r] = DoneOf(pb[r])
                       \/ ~LetGo(pb[r], n) /\ pb'[r] = pb[r]
    BY <1>7 DEF Rolled
  <2>3. \A r \in Req : Riding(r)' => pb'[r] = pb[r] /\ Riding(r) /\ ~LetGo(pb[r], n)
    <3> TAKE r \in Req
    <3>1. pb[r] \in Pbuf
      BY DEF TypeOK
    <3>2. DoneOf(pb[r]).state = "done"
      BY <3>1, DonePbuf
    <3> QED
      BY <2>2, <3>2 DEF Riding
  <2>4. \A r \in Req : Riding(r)' => pb[r]'.seq <= clock'
    BY <1>1, <1>3, <2>3
  <2>5. conf'.op = "CNFG_NOP" => conf' = NoConf
    BY <1>4, <1>7 DEF Rolled
  <2>6. pc' = "stopped" => Active' = {} /\ conf' = NoConf
    <3> SUFFICES ASSUME pc' = "stopped" PROVE Active' = {} /\ conf' = NoConf
      OBVIOUS
    <3>1. ~(clock' > saseq[n])
      BY <1>7 DEF Rolled
    <3>2. NewClock = clock /\ saseq[n] = clock
      BY <1>1, <1>2, <2>1, <3>1
    <3>3. \A r \in Req : Riding(r) => LetGo(pb[r], n)
      BY <1>3, <3>2 DEF LetGo, Riding
    <3>4. Active' = {}
      BY <2>3, <3>3 DEF Active, Riding
    <3>5. ~ConfPending
      BY <1>2, <3>2 DEF NewClock
    <3>6. ConfSeq = conf /\ conf.seq <= saseq[n]
      BY <3>2, <3>5 DEF ConfSeq, TypeOK
    <3>7. conf' = NoConf
      BY <1>2, <1>4, <1>7, <3>6 DEF Rolled
    <3> QED
      BY <3>4, <3>7
  <2> QED
    BY <1>1, <2>4, <2>5, <2>6 DEF RollInv
<1> QED
  BY <1>1, <1>5, <1>6, <1>7

\* Every other action starts the wheel when it gives it work.
LEMMA RollInductive == TypeOK /\ RollInv /\ [Next]_vars => RollInv'
<1> SUFFICES ASSUME TypeOK, RollInv, [Next]_vars PROVE RollInv'
  OBVIOUS
<1>0. CASE UNCHANGED vars
  BY <1>0 DEF RollInv, Riding, Active, vars, io, area, grp
<1>1. ASSUME NEW r \in Req,
             WriteStart(r) \/ WriteDone(r) \/ SyncStart(r) \/ SyncDone(r) \/ Answer(r)
      PROVE  RollInv'
  <2>1. Scheduled(r)
    BY <1>1, SchedulerEffect
  <2>2. \A q \in Req : q # r => pb'[q] = pb[q]
    BY <2>1 DEF TypeOK, Scheduled, Only
  <2>3. ~Riding(r) /\ ~Riding(r)'
    BY <2>1, NoPbIsPbuf DEF Scheduled, Queued, Riding
  <2>4. Active' = Active /\ r \notin Active
    BY <2>2, <2>3 DEF Active, Riding
  <2>5. UNCHANGED <<clock, conf, lost>>
    BY <2>1 DEF Scheduled, area, grp
  <2>6. pc' = Started \/ (pc' = pc /\ hold' = hold)
    <3>1. \/ Queued(r, "SA_STALEPX") \/ Queued(r, "SA_FRESHPX") \/ UNCHANGED <<hold, pc>>
      BY <2>1 DEF Scheduled
    <3> QED
      BY <3>1 DEF Queued
  <2>7. \A q \in Req : Riding(q)' => Riding(q) /\ pb'[q] = pb[q]
    BY <2>2, <2>3 DEF Riding
  <2>8. \A a \in Active : pb'[a] = pb[a]
    BY <2>2, <2>4 DEF Active
  <2>9. pc' = "stopped" => pc = "stopped" /\ hold' = hold
    BY <2>6 DEF Started
  <2>10. pc = "continue" => pc' = "continue"
    BY <2>6 DEF Started
  <2> QED
    BY <2>4, <2>5, <2>7, <2>8, <2>9, <2>10 DEF RollInv
<1>2. CASE Enter
  <2>1. PICK r \in Req : Taken(r)
    BY <1>2, EnterEffect
  <2>2. pc = "continue" /\ UNCHANGED <<clock, pc, conf, grp>>
    BY <1>2, EnterEffect
  <2>3. \A q \in Req : q # r => pb'[q] = pb[q]
    BY <2>1 DEF TypeOK, Taken, Only
  <2>4. r \notin Active /\ Active \subseteq Active'
    BY <2>1, <2>3 DEF Active, Taken
  <2>5. \A a \in Active : pb'[a] = pb[a]
    BY <2>3, <2>4 DEF Active
  <2>6. Riding(r)' => \/ pb'[r].seq <= clock
                      \/ pb'[r].seq = clock + 1 /\ \E a \in Active' : pb'[a].seq = clock + 1
    <3>1. CASE Entered(r)
      <4>1. r \in Active' /\ pb'[r].seq = clock + 1
        BY <3>1 DEF Entered, Active
      <4> QED
        BY <4>1
    <3>2. CASE Joined(r)
      <4>1. PICK a \in Active : pb'[r].seq = pb[a].seq
        BY <3>2 DEF Joined
      <4>2. pb[a].seq <= clock \/ pb[a].seq = clock + 1
        BY DEF RollInv, Active, Riding
      <4> QED
        BY <2>4, <2>5, <4>1, <4>2
    <3> QED
      BY <2>1, <3>1, <3>2 DEF Taken
  <2>7. \A q \in Req : q # r /\ Riding(q)' =>
            \/ pb'[q].seq <= clock
            \/ pb'[q].seq = clock + 1 /\ \E a \in Active' : pb'[a].seq = clock + 1
    <3> TAKE q \in Req
    <3> HAVE q # r /\ Riding(q)'
    <3>1. Riding(q) /\ pb'[q] = pb[q]
      BY <2>3 DEF Riding
    <3> QED
      BY <2>4, <2>5, <3>1 DEF RollInv
  <2> QED
    BY <2>2, <2>6, <2>7 DEF RollInv
<1>3. CASE Turn
  BY <1>3, TurnKeepsRoll
<1>4. CASE WriteArea
  <2>1. /\ pc = "writing" /\ pc' = "continue" /\ UNCHANGED <<io, conf>>
        /\ clock' = clock \/ clock' = clock + 1
    BY <1>4 DEF WriteArea, AreaWritten, AreaFails
  <2>2. \A r \in Req : Riding(r) => pb[r].seq <= clock /\ pb[r].seq \in Nat
    BY <2>1 DEF RollInv, TypeOK, Pbuf
  <2>3. \A r \in Req : Riding(r) => pb[r].seq <= clock'
    BY <2>1, <2>2 DEF TypeOK
  <2> QED
    BY <2>1, <2>3 DEF RollInv, Riding, io
<1>5. CASE Command
  <2>1. UNCHANGED <<io, hold, clock, lost>>
    BY <1>5 DEF Command, area
  <2>2. \/ lost /\ UNCHANGED <<conf, pc>>
        \/ conf'.op # "CNFG_NOP" /\ pc' = Started
    BY <1>5 DEF Command, SaConfig
  <2>3. pc = "continue" => pc' = "continue"
    BY <2>2 DEF Started
  <2>4. pc' = "stopped" => pc = "stopped" /\ lost /\ conf' = conf
    BY <2>2 DEF Started
  <2>5. conf'.op = "CNFG_NOP" => conf' = conf
    BY <2>2
  <2> QED
    BY <2>1, <2>3, <2>4, <2>5 DEF RollInv, Riding, Active, io
<1>6. CASE ConfigReturn
  <2>1. UNCHANGED <<pb, hold, clock, pc, conf, lost>>
    BY <1>6 DEF ConfigReturn, area
  <2> QED
    BY <2>1 DEF RollInv, Riding, Active
<1>7. CASE Crash
  <2>1. /\ pb' = [r \in Req |-> NoPb] /\ hold' = <<>> /\ conf' = NoConf
    BY <1>7 DEF Crash
  <2>2. \A r \in Req : ~Riding(r)' /\ pb'[r].state # "active"
    BY <2>1, NoPbIsPbuf DEF Riding
  <2> QED
    BY <2>1, <2>2 DEF RollInv, Active
<1>8. CASE Activate
  <2>1. /\ pc' = "continue" /\ conf'.op = "CNFG_SYNCWRITE"
        /\ UNCHANGED <<pb, clock>>
    BY <1>8 DEF Activate
  <2>2. up = "down"
    BY <1>8 DEF Activate
  <2>3. \A r \in Req : Riding(r) => pb[r].seq <= clock \/ \E a \in Active : pb[r].seq = clock + 1 /\ pb[a].seq = clock + 1
    BY DEF RollInv
  <2> QED
    BY <2>1, <2>3 DEF RollInv, Riding, Active
<1> QED
  BY <1>0, <1>1, <1>2, <1>3, <1>4, <1>5, <1>6, <1>7, <1>8 DEF Next

\* At first the wheel stands still and nobody waits.
LEMMA RollInit == Init => RollInv
<1> SUFFICES ASSUME Init PROVE RollInv
  OBVIOUS
<1>1. \A r \in Req : pb[r] = NoPb
  BY DEF Init
<1>2. \A r \in Req : ~Riding(r) /\ pb[r].state # "active"
  BY <1>1, NoPbIsPbuf DEF Riding
<1> QED
  BY <1>2 DEF Init, RollInv, Active

\* lv_sa_start and lv_sa_config start the wheel, lv_sa_continue stops it only when
\* the next copy is up to date: when it stands still nobody waits, unless quorum was
\* lost.
THEOREM NobodyIsForgotten == Spec => []NobodyForgotten
<1>1. Init => RollInv
  BY RollInit
<1>2. RollInv => NobodyForgotten
  BY DEF RollInv, NobodyForgotten
<1> QED
  BY <1>1, <1>2, RollInductive, TypeCorrect, PTL DEF Spec

-----------------------------------------------------------------------------
(* Only stale mirrors are made fresh.                                      *)

\* A mirror in lx_syncmsk stays stale until the end of the resynchronisation, and
\* nothing runs before the volume group is up.
SyncInv ==
    /\ \A lx \in LX : \A m \in sync[lx].msk : STALE \in e_state[lx, m]
    /\ up # "up" => /\ \A lx \in LX : sync[lx].msk = {}
                    /\ \A r \in Req : pb[r].state = "idle"

\* lv_parwrite_done and lv_stalepp do not make a mirror in the mask fresh.
LEMMA SchedulerKeepsSync ==
  ASSUME TypeOK, SyncInv, NEW r \in Req, Scheduled(r), SyncStep(r)
  PROVE  SyncInv'
<1>1. e_state \in [Ext -> SUBSET {STALE, CHANGING}] /\ pb \in [Req -> Pbuf] /\ up' = up
      /\ \A q \in Req : q # r => pb'[q] = pb[q]
  BY DEF TypeOK, Scheduled, Only, grp
<1>2. \A lx \in LX : \A m \in sync[lx].msk : <<lx, m>> \in Ext
  BY DEF TypeOK, Ext
<1>3. up = "up"
  <2>1. pb[r].state = "idle" => up = "up"
    BY DEF Scheduled
  <2> QED
    BY <2>1 DEF SyncInv
<1>4. CASE Queued(r, "SA_FRESHPX") /\ Freshened(r)
  <2>1. \A e \in Ext : STALE \in e_state[e] /\ e[1] # pb[r].lx => STALE \in e_state'[e]
    <3>1. pb'[r].lx = pb[r].lx
      BY <1>4 DEF Queued
    <3>2. \A e \in Ext : e[1] # pb[r].lx => e \notin Marks(pb'[r])
      BY <3>1, MarkIs
    <3> QED
      BY <1>4, <3>2 DEF Freshened
  <2>2. \A lx \in LX : \A m \in sync'[lx].msk : STALE \in e_state'[<<lx, m>>]
    <3> TAKE lx \in LX
    <3> TAKE m \in sync'[lx].msk
    <3>1. lx # pb[r].lx
      BY <1>4 DEF Freshened
    <3>2. CASE m \in sync[lx].msk
      <4>1. <<lx, m>> \in Ext /\ STALE \in e_state[<<lx, m>>] /\ <<lx, m>>[1] = lx
        BY <1>2, <3>2 DEF SyncInv
      <4> QED
        BY <2>1, <3>1, <4>1
    <3>3. CASE STALE \in e_state[<<lx, m>>] /\ e_state' = e_state
      BY <3>3
    <3> QED
      BY <3>2, <3>3 DEF SyncStep
  <2> QED
    BY <1>1, <1>3, <2>2 DEF SyncInv
<1>5. CASE \A e \in Ext : STALE \in e_state[e] => STALE \in e_state'[e]
  <2>1. \A lx \in LX : \A m \in sync'[lx].msk : STALE \in e_state'[<<lx, m>>]
    <3> TAKE lx \in LX
    <3> TAKE m \in sync'[lx].msk
    <3>2. CASE m \in sync[lx].msk
      <4>1. <<lx, m>> \in Ext /\ STALE \in e_state[<<lx, m>>]
        BY <1>2, <3>2 DEF SyncInv
      <4> QED
        BY <1>5, <4>1
    <3>3. CASE STALE \in e_state[<<lx, m>>] /\ e_state' = e_state
      BY <3>3
    <3> QED
      BY <3>2, <3>3 DEF SyncStep
  <2> QED
    BY <1>1, <1>3, <2>1 DEF SyncInv
<1>6. Stamped(r) => \A e \in Ext : STALE \in e_state[e] => STALE \in e_state'[e]
  BY DEF Stamped
<1>7. Settled(r) => \A e \in Ext : STALE \in e_state[e] => STALE \in e_state'[e]
  BY DEF Settled, STALE, CHANGING
<1>8. UNCHANGED e_state => \A e \in Ext : STALE \in e_state[e] => STALE \in e_state'[e]
  OBVIOUS
<1>9. \/ Queued(r, "SA_FRESHPX") /\ Freshened(r)
      \/ Stamped(r) \/ Settled(r) \/ UNCHANGED e_state
  BY DEF Scheduled
<1> QED
  BY <1>4, <1>5, <1>6, <1>7, <1>8, <1>9

\* No action makes a mirror in the mask fresh, but the end of the resynchronisation.
LEMMA SyncInductive == TypeOK /\ SyncInv /\ [Next]_vars => SyncInv'
<1> SUFFICES ASSUME TypeOK, SyncInv, [Next]_vars PROVE SyncInv'
  OBVIOUS
<1>0. CASE UNCHANGED vars
  BY <1>0 DEF SyncInv, vars, io, grp
<1>1. ASSUME NEW r \in Req,
             WriteStart(r) \/ WriteDone(r) \/ SyncStart(r) \/ SyncDone(r) \/ Answer(r)
      PROVE  SyncInv'
  BY <1>1, SchedulerEffect, SchedulerKeepsSync
<1>2. CASE Enter
  <2>1. PICK r \in Req : Taken(r)
    BY <1>2, EnterEffect
  <2>2. UNCHANGED <<e_state, sync, grp>>
    BY <1>2, EnterEffect
  <2>3. up = "up"
    BY <2>1 DEF SyncInv, Taken
  <2> QED
    BY <2>2, <2>3 DEF SyncInv, grp
<1>3. CASE Turn
  <2>1. /\ UNCHANGED <<e_state, sync, up>>
        /\ Refused \/ (\E n \in Loc : Rolled(n)) \/ Spun
    BY <1>3, TurnEffect
  <2>2. \A r \in Req : pb[r].state = "idle" => pb'[r].state = "idle"
    <3>1. CASE Refused
      BY <3>1, NoPbIsPbuf DEF Refused
    <3>2. ASSUME NEW n \in Loc, Rolled(n), NEW r \in Req, pb[r].state = "idle"
          PROVE  pb'[r].state = "idle"
      <4>1. ~LetGo(pb[r], n)
        BY <3>2 DEF LetGo
      <4> QED
        BY <3>2, <4>1 DEF Rolled
    <3>3. CASE Spun
      BY <3>3 DEF Spun
    <3> QED
      BY <2>1, <3>1, <3>2, <3>3
  <2> QED
    BY <2>1, <2>2 DEF SyncInv
<1>4. CASE WriteArea
  BY <1>4 DEF WriteArea, SyncInv, io
<1>5. CASE Command
  BY <1>5 DEF Command, SyncInv, io
<1>6. CASE ConfigReturn
  <2>1. up' = "up" /\ UNCHANGED <<sync, pb>>
    BY <1>6 DEF ConfigReturn
  <2>2. \A e \in Ext : STALE \in e_state[e] => STALE \in e_state'[e]
    BY <1>6 DEF ConfigReturn
  <2>3. \A lx \in LX : \A m \in sync[lx].msk : <<lx, m>> \in Ext
    BY DEF TypeOK, Ext
  <2> QED
    BY <2>1, <2>2, <2>3 DEF SyncInv
<1>7. CASE Crash
  <2>1. pb' = [r \in Req |-> NoPb] /\ sync' = [lx \in LX |-> NoSync] /\ up' = "down"
    BY <1>7 DEF Crash
  <2> QED
    BY <2>1, NoPbIsPbuf DEF SyncInv, NoSync
<1>8. CASE Activate
  BY <1>8 DEF Activate, SyncInv
<1> QED
  BY <1>0, <1>1, <1>2, <1>3, <1>4, <1>5, <1>6, <1>7, <1>8 DEF Next

\* It holds at first: nothing runs.
LEMMA SyncInit == Init => SyncInv
<1>1. NoSync.msk = {}
  BY DEF NoSync
<1> QED
  BY <1>1 DEF Init, SyncInv

\* lv_stalepp: the mirrors that the end of a resynchronisation makes fresh are stale
\* until then, however many writes fail meanwhile: the panic "sync not stale" does
\* not happen.
THEOREM OnlyStaleIsSynced == Spec => SyncNotStale
<1> DEFINE Fresh(r) ==
      /\ pb[r].type = "SA_FRESHPX" /\ pb[r].state = "io"
      /\ pb'[r].type = "SA_FRESHPX" /\ pb'[r].state = "hold"
<1>1. Init => SyncInv
  BY SyncInit
<1>2. ASSUME TypeOK, SyncInv, [Next]_vars, NEW r \in Req, Fresh(r)
      PROVE  \A e \in Marks(pb'[r]) : STALE \in e_state[e]
  <2>1. PICK q \in Req :
          WriteStart(q) \/ WriteDone(q) \/ SyncStart(q) \/ SyncDone(q) \/ Answer(q)
    <3>1. pb'[r] # pb[r]
      BY <1>2
    <3>2. CASE Enter
      <4>1. PICK q \in Req : Taken(q)
        BY <1>2, <3>2, EnterEffect
      <4>2. q # r
        BY <1>2, <4>1 DEF Taken
      <4> QED
        BY <3>1, <4>1, <4>2, <1>2 DEF Taken, Only, TypeOK
    <3>3. CASE Turn
      <4>1. Refused \/ (\E n \in Loc : Rolled(n)) \/ Spun
        BY <1>2, <3>3, TurnEffect
      <4>2. ~Refused
        BY <1>2, <3>1 DEF Refused
      <4>3. ~Spun
        BY <3>1 DEF Spun
      <4>4. ASSUME NEW n \in Loc, Rolled(n) PROVE FALSE
        <5>1. ~LetGo(pb[r], n)
          BY <1>2 DEF LetGo
        <5> QED
          BY <3>1, <4>4, <5>1 DEF Rolled
      <4> QED
        BY <4>1, <4>2, <4>3, <4>4
    <3>4. CASE WriteArea \/ Command \/ ConfigReturn \/ Activate \/ UNCHANGED vars
      BY <3>1, <3>4 DEF WriteArea, Command, ConfigReturn, Activate, vars, io
    <3>5. CASE Crash
      BY <1>2, <3>5, NoPbIsPbuf DEF Crash
    <3> QED
      BY <1>2, <3>2, <3>3, <3>4, <3>5 DEF Next
  <2>2. Scheduled(q)
    BY <1>2, <2>1, SchedulerEffect
  <2>3. q = r
    BY <1>2, <2>2 DEF Scheduled, Only, TypeOK
  <2>4. Queued(r, "SA_FRESHPX") /\ Freshened(r)
    BY <1>2, <2>2, <2>3, NoPbIsPbuf DEF Scheduled, Queued
  <2>5. pb'[r].lx = pb[r].lx /\ pb'[r].fresh \subseteq sync[pb[r].lx].msk /\ pb[r].lx \in LX
    BY <1>2, <2>4 DEF Queued, Freshened, TypeOK, Pbuf
  <2>6. Marks(pb'[r]) = {<<pb[r].lx, m>> : m \in pb'[r].fresh}
    BY <1>2, <2>5 DEF Marks
  <2> QED
    BY <1>2, <2>5, <2>6 DEF SyncInv
<1>3. TypeOK /\ SyncInv /\ [Next]_vars =>
        [\A r \in Req : pb[r].type = "SA_FRESHPX" /\ pb[r].state = "io"
            /\ pb'[r].type = "SA_FRESHPX" /\ pb'[r].state = "hold"
            => \A e \in Marks(pb'[r]) : STALE \in e_state[e]]_vars
  BY <1>2
<1> QED
  BY <1>1, <1>3, SyncInductive, TypeCorrect, PTL DEF Spec, SyncNotStale

-----------------------------------------------------------------------------
(* The next copy is the oldest.                                            *)

\* From c on, the copies are the older the sooner the wheel comes to them.
Ordered(c) ==
    \A k, l \in Usable : Distance(c, k) <= Distance(c, l) => saseq[k] <= saseq[l]

\* As long as no PV comes back (lv_attachpv) the copies stay in the order in which
\* the wheel wrote them.
OrderInv ==
    /\ pc = "writing" => /\ ~lost /\ Ordered(wheel - 1)
                         /\ \A l \in Usable : saseq[wheel] <= saseq[l]
    /\ pc = "continue" /\ ~lost => Ordered(wheel)
    /\ pc = "stopped" /\ ~lost => \A l \in Usable : saseq[l] = saseq[wheel]
    /\ up = "down" => pc = "stopped" /\ ~lost /\ \A l \in Loc : saseq[l] = 0

\* Distances from the copy n, when the wheel, coming from c, finds n first.
LEMMA SameOrderFrom ==
  ASSUME NEW c \in Loc, NEW n \in Loc, NEW k \in Loc, NEW l \in Loc,
         Distance(c, n) <= Distance(c, k), Distance(c, n) <= Distance(c, l),
         Distance(n - 1, k) <= Distance(n - 1, l)
  PROVE  Distance(c, k) <= Distance(c, l)
  BY VgsaAssumption DEF Distance, Loc

\* Once c is written it comes last, and the order of the others is the same.
LEMMA WrittenIsLast ==
  ASSUME NEW c \in Loc, NEW k \in Loc, NEW l \in Loc, Distance(c, k) <= Distance(c, l)
  PROVE  k = c => l = c
  BY VgsaAssumption DEF Distance, Loc
LEMMA OthersStay ==
  ASSUME NEW c \in Loc, NEW k \in Loc, NEW l \in Loc, k # c, l # c,
         Distance(c, k) <= Distance(c, l)
  PROVE  Distance(c - 1, k) <= Distance(c - 1, l)
  BY VgsaAssumption DEF Distance, Loc

\* The copy that the wheel finds first is the oldest.
LEMMA FirstIsOldest ==
  ASSUME TypeOK, Ordered(wheel), NEW S \in SUBSET Usable, NEW n \in S,
         \A k \in S : Distance(wheel, n) <= Distance(wheel, k)
  PROVE  /\ \A l \in S : saseq[n] <= saseq[l]
         /\ \A k, l \in S : Distance(n - 1, k) <= Distance(n - 1, l) => saseq[k] <= saseq[l]
<1>1. S \subseteq Loc /\ S \subseteq Usable /\ wheel \in Loc
  BY DEF Usable, TypeOK
<1>2. \A l \in S : saseq[n] <= saseq[l]
  BY <1>1 DEF Ordered
<1>3. ASSUME NEW k \in S, NEW l \in S, Distance(n - 1, k) <= Distance(n - 1, l)
      PROVE  saseq[k] <= saseq[l]
  <2>1. Distance(wheel, k) <= Distance(wheel, l)
    BY <1>1, <1>3, SameOrderFrom
  <2> QED
    BY <1>1, <2>1 DEF Ordered
<1> QED
  BY <1>2, <1>3

\* lv_sa_continue turns to the oldest copy.
LEMMA TurnKeepsOrder == TypeOK /\ OrderInv /\ Turn => OrderInv'
<1> SUFFICES ASSUME TypeOK, OrderInv, Turn PROVE OrderInv'
  OBVIOUS
<1>1. /\ pc = "continue" /\ clock' = NewClock /\ missing \subseteq missing'
      /\ UNCHANGED <<saseq, pvols, up>>
      /\ Refused \/ (\E n \in Loc : Rolled(n)) \/ Spun
  BY TurnEffect
<1>2. Usable' \subseteq Usable
  BY <1>1 DEF Usable
<1>3. up' # "down"
  BY <1>1 DEF OrderInv
<1>4. CASE Refused
  BY <1>3, <1>4 DEF Refused, OrderInv
<1>5. CASE Spun
  BY <1>3, <1>5 DEF Spun, OrderInv
<1>6. ASSUME NEW n \in Loc, Rolled(n) PROVE OrderInv'
  <2>1. /\ ~lost /\ lost' = lost /\ wheel' = n /\ n \in Usable'
        /\ \A k \in Usable' : Distance(wheel, n) <= Distance(wheel, k)
        /\ pc' = IF clock' > saseq[n] THEN "writing" ELSE "stopped"
    BY <1>6 DEF Rolled
  <2>2. Ordered(wheel)
    BY <1>1, <2>1 DEF OrderInv
  <2>3. /\ \A l \in Usable' : saseq[n] <= saseq[l]
        /\ \A k, l \in Usable' : Distance(n - 1, k) <= Distance(n - 1, l)
                                    => saseq[k] <= saseq[l]
    BY <1>2, <2>1, <2>2, FirstIsOldest
  <2>4. Ordered(wheel - 1)' /\ \A l \in Usable' : saseq'[wheel'] <= saseq'[l]
    BY <1>1, <2>1, <2>3 DEF Ordered, Distance
  <2>5. pc' = "stopped" => \A l \in Usable' : saseq'[l] = saseq'[wheel']
    <3> SUFFICES ASSUME pc' = "stopped", NEW l \in Usable' PROVE saseq[l] = saseq[n]
      BY <1>1, <2>1
    <3>1. clock \in Nat /\ NewClock \in Nat /\ clock <= NewClock
      BY ClockStep DEF TypeOK
    <3>2. l \in Loc /\ saseq[l] \in 0 .. clock /\ saseq[n] \in 0 .. clock
      BY <1>2 DEF Usable, TypeOK
    <3>3. ~(NewClock > saseq[n]) /\ saseq[n] <= saseq[l]
      BY <1>1, <2>1, <2>3
    <3> QED
      BY <3>1, <3>2, <3>3
  <2> QED
    BY <1>3, <2>1, <2>4, <2>5 DEF OrderInv
<1> QED
  BY <1>1, <1>4, <1>5, <1>6

\* A copy that is written becomes the newest; one that fails drops out.
LEMMA WriteKeepsOrder == TypeOK /\ OrderInv /\ WriteArea => OrderInv'
<1> SUFFICES ASSUME TypeOK, OrderInv, WriteArea PROVE OrderInv'
  OBVIOUS
<1>1. /\ pc = "writing" /\ pc' = "continue" /\ UNCHANGED <<wheel, pvols, up, lost>>
      /\ AreaWritten \/ AreaFails
  BY DEF WriteArea
<1>2. Ordered(wheel - 1) /\ ~lost /\ wheel \in Loc /\ clock \in Nat
      /\ up # "down" /\ saseq \in [Loc -> 0 .. clock]
  BY <1>1 DEF OrderInv, TypeOK
<1>3. \A k, l \in Usable : k # wheel /\ l # wheel /\ Distance(wheel, k) <= Distance(wheel, l)
          => saseq[k] <= saseq[l]
  BY <1>2, OthersStay DEF Ordered, Usable
<1>4. CASE AreaWritten
  <2>1. Usable' = Usable /\ saseq' = [saseq EXCEPT ![wheel] = clock]
    BY <1>1, <1>4 DEF AreaWritten, Usable
  <2>2. ASSUME NEW k \in Usable, NEW l \in Usable, Distance(wheel, k) <= Distance(wheel, l)
        PROVE  saseq'[k] <= saseq'[l]
    <3>1. k \in Loc /\ l \in Loc
      BY DEF Usable
    <3>2. CASE l = wheel
      BY <1>2, <2>1, <3>1, <3>2
    <3>3. CASE l # wheel
      <4>1. k # wheel
        BY <1>2, <2>2, <3>1, <3>3, WrittenIsLast
      <4> QED
        BY <1>2, <1>3, <2>1, <2>2, <3>1, <3>3, <4>1
    <3> QED
      BY <3>2, <3>3
  <2>3. Ordered(wheel)'
    BY <1>1, <2>1, <2>2 DEF Ordered, Distance
  <2> QED
    BY <1>1, <1>2, <2>3 DEF OrderInv
<1>5. CASE AreaFails
  <2>1. saseq' = saseq /\ \A l \in Usable' : l \in Usable /\ l # wheel
    BY <1>1, <1>5 DEF AreaFails, Usable
  <2>2. Ordered(wheel)'
    BY <1>1, <1>3, <2>1 DEF Ordered, Distance
  <2> QED
    BY <1>1, <1>2, <2>2 DEF OrderInv
<1> QED
  BY <1>1, <1>4, <1>5

\* When all copies have the same number any order is right.
LEMMA EvenIsOrdered ==
  ASSUME TypeOK, OrderInv, pc = "stopped", ~lost
  PROVE  \A k, l \in Usable : saseq[k] <= saseq[l]
<1>1. \A l \in Usable : saseq[l] = saseq[wheel] /\ saseq[l] \in Nat
  BY DEF OrderInv, Usable, TypeOK
<1> QED
  BY <1>1

\* The other actions leave the copies, and add no PV.
LEMMA OrderInductive ==
  ASSUME "attach" \notin Commands
  PROVE  TypeOK /\ SyncInv /\ OrderInv /\ [Next]_vars => OrderInv'
<1> SUFFICES ASSUME TypeOK, SyncInv, OrderInv, [Next]_vars PROVE OrderInv'
  OBVIOUS
<1>0. CASE UNCHANGED vars
  BY <1>0 DEF OrderInv, Ordered, Usable, Distance, vars, area, grp
\* The wheel may be started, and PVs may be deleted.
<1>1. ASSUME UNCHANGED <<saseq, wheel, lost, missing>>, pvols' \subseteq pvols,
             pc' = pc \/ (pc' = Started /\ up = "up"), up' = up \/ up' = "up"
      PROVE  OrderInv'
  <2>1. Usable' \subseteq Usable
    BY <1>1 DEF Usable
  <2>3. pc = "stopped" /\ ~lost => Ordered(wheel)'
    <3>1. pc = "stopped" /\ ~lost => \A k, l \in Usable : saseq[k] <= saseq[l]
      BY EvenIsOrdered
    <3> QED
      BY <1>1, <2>1, <3>1 DEF Ordered
  <2>4. pc' = "writing" => pc = "writing"
    BY <1>1 DEF Started
  <2>5. pc' = "continue" => pc = "continue" \/ pc = "stopped"
    BY <1>1 DEF Started
  <2>6. pc' = "stopped" => pc = "stopped"
    BY <1>1 DEF Started
  <2>7. pc = "writing" => Ordered(wheel - 1)'
    <3>1. Ordered(wheel - 1) => \A k, l \in Usable' :
            Distance(wheel - 1, k) <= Distance(wheel - 1, l) => saseq[k] <= saseq[l]
      BY <2>1 DEF Ordered
    <3> QED
      BY <1>1, <3>1 DEF Ordered, Distance, OrderInv
  <2>8. pc = "continue" /\ ~lost => Ordered(wheel)'
    <3>1. Ordered(wheel) => \A k, l \in Usable' :
            Distance(wheel, k) <= Distance(wheel, l) => saseq[k] <= saseq[l]
      BY <2>1 DEF Ordered
    <3> QED
      BY <1>1, <3>1 DEF Ordered, Distance, OrderInv
  <2>9. up' = "down" => up = "down" /\ pc' = pc
    BY <1>1
  <2> QED
    BY <1>1, <2>1, <2>3, <2>4, <2>5, <2>6, <2>7, <2>8, <2>9 DEF OrderInv
<1>2. ASSUME NEW r \in Req,
             WriteStart(r) \/ WriteDone(r) \/ SyncStart(r) \/ SyncDone(r) \/ Answer(r)
      PROVE  OrderInv'
  <2>1. Scheduled(r)
    BY <1>2, SchedulerEffect
  <2>2. pc' = pc \/ pc' = Started
    <3>1. \/ Queued(r, "SA_STALEPX") \/ Queued(r, "SA_FRESHPX") \/ UNCHANGED <<hold, pc>>
      BY <2>1 DEF Scheduled
    <3> QED
      BY <3>1 DEF Queued
  <2>3. pb[r].state = "idle" => up = "up"
    BY <2>1 DEF Scheduled
  <2>4. up = "up"
    BY <2>3 DEF SyncInv
  <2> QED
    BY <1>1, <2>1, <2>2, <2>4 DEF Scheduled, area, grp
<1>3. CASE Enter
  <2>1. UNCHANGED <<saseq, wheel, lost, missing, pvols, pc, up>>
    BY <1>3, EnterEffect DEF grp
  <2> QED
    BY <1>1, <2>1
<1>4. CASE Turn
  BY <1>4, TurnKeepsOrder
<1>5. CASE WriteArea
  BY <1>5, WriteKeepsOrder
<1>6. CASE Command
  <2>1. UNCHANGED <<saseq, wheel, lost, missing, pvols, up>> /\ up = "up"
    BY <1>6 DEF Command, area
  <2>2. pc' = pc \/ pc' = Started
    BY <1>6 DEF Command, SaConfig
  <2> QED
    BY <1>1, <2>1, <2>2
<1>7. CASE ConfigReturn
  <2>1. call.what # "attach"
    BY <1>7 DEF TypeOK
  <2>2. UNCHANGED <<saseq, wheel, lost, missing, pc>> /\ pvols' \subseteq pvols /\ up' = "up"
    BY <1>7, <2>1 DEF ConfigReturn, area
  <2> QED
    BY <1>1, <2>2
<1>8. CASE Crash
  <2>1. saseq' = [l \in Loc |-> 0] /\ pc' = "stopped" /\ lost' = FALSE /\ wheel' = 0
    BY <1>8 DEF Crash
  <2>2. 0 \in Loc /\ \A l \in Usable' : l \in Loc
    BY VgsaAssumption DEF Usable, Loc
  <2> QED
    BY <2>1, <2>2 DEF OrderInv
<1>9. CASE Activate
  <2>1. saseq' = saseq /\ pc' = "continue" /\ up' = "starting" /\ \A l \in Loc : saseq[l] = 0
    BY <1>9 DEF Activate, OrderInv
  <2>2. Ordered(wheel)'
    BY <2>1 DEF Ordered, Usable
  <2> QED
    BY <2>1, <2>2 DEF OrderInv
<1> QED
  BY <1>0, <1>2, <1>3, <1>4, <1>5, <1>6, <1>7, <1>8, <1>9 DEF Next

\* At first no copy is newer than another.
LEMMA OrderInit == Init => OrderInv
<1>1. Init => /\ saseq = [l \in Loc |-> 0] /\ pc = "stopped" /\ wheel = 0 /\ up = "up"
  BY DEF Init
<1>2. 0 \in Loc /\ \A l \in Usable : l \in Loc
  BY VgsaAssumption DEF Usable, Loc
<1> QED
  BY <1>1, <1>2 DEF OrderInv

\* lv_sa_continue looks at the next copy only: as long as no PV is attached again this
\* one is the oldest of all that can be written.
THEOREM NextCopyIsOldest ==
  ASSUME "attach" \notin Commands
  PROVE  Spec => []NextIsOldest
<1>1. Init => OrderInv
  BY OrderInit
<1>2. TypeOK /\ OrderInv => NextIsOldest
  <2> SUFFICES ASSUME TypeOK, OrderInv PROVE NextIsOldest
    OBVIOUS
  <2>1. saseq[wheel] \in Nat
    BY DEF TypeOK
  <2> QED
    BY <2>1 DEF OrderInv, NextIsOldest
<1>3. TypeOK /\ SyncInv /\ OrderInv /\ [Next]_vars => OrderInv'
  BY OrderInductive
<1>4. Init => SyncInv
  BY SyncInit
<1> QED
  BY <1>1, <1>2, <1>3, <1>4, SyncInductive, TypeCorrect, PTL DEF Spec

-----------------------------------------------------------------------------
(* What is stale stays stale on disk.                                      *)

\* A number and extents that are stale in memory and on all copies written since the
\* clock had the number.
Carried ==
    {c \in (Nat \ {0}) \X SUBSET Ext :
        /\ c[2] \subseteq stale
        /\ \A l \in Loc : c[1] <= disk[l].ts => c[2] \subseteq disk[l].stale}

\* The numbers that have been on all copies that can be written now, and of which
\* half of the PVs still have a copy at least as new.
Spread ==
    {s \in 1 .. clock :
        /\ \A l \in Usable : s <= disk[l].ts
        /\ \E U \in SUBSET PV :
              /\ 2 * Cardinality(U) >= NPV
              /\ \A p \in U : \E l \in Loc : l \div 2 = p /\ s <= disk[l].ts}

\* Extents that are stale on disk for good.
Kept == {E \in SUBSET Ext : \E s \in Spread : <<s, E>> \in Carried}

\* A part of what is carried is carried.
LEMMA PartCarried ==
  ASSUME NEW s, NEW E, NEW F \in SUBSET E, <<s, E>> \in Carried
  PROVE  <<s, F>> \in Carried
<1>1. /\ s \in Nat \ {0} /\ E \in SUBSET Ext /\ E \subseteq stale
      /\ \A l \in Loc : s <= disk[l].ts => E \subseteq disk[l].stale
  BY DEF Carried
<1>2. <<s, F>> \in (Nat \ {0}) \X SUBSET Ext
  BY <1>1
<1> QED
  BY <1>1, <1>2 DEF Carried

\* When what is carried is spread it is kept.
LEMMA WhatIsKept ==
  /\ Carried \subseteq Carried' /\ Spread \subseteq Spread' => Kept \subseteq Kept'
  /\ \A s, E : s \in Spread /\ <<s, E>> \in Carried => E \in Kept
  /\ \A E \in Kept : \A F \in SUBSET E : F \in Kept
<1>1. Carried \subseteq Carried' /\ Spread \subseteq Spread' => Kept \subseteq Kept'
  BY DEF Kept
<1>2. \A s, E : <<s, E>> \in Carried => E \in SUBSET Ext
  BY DEF Carried
<1>3. \A E \in Kept : \A F \in SUBSET E : F \in Kept
  <2> TAKE E \in Kept
  <2> TAKE F \in SUBSET E
  <2>1. PICK s \in Spread : <<s, E>> \in Carried
    BY DEF Kept
  <2>2. <<s, F>> \in Carried
    BY <2>1, PartCarried
  <2> QED
    BY <1>2, <2>1, <2>2 DEF Kept
<1> QED
  BY <1>1, <1>2, <1>3 DEF Kept

\* Any majority of the PVs has one of the half, and so finds the extents stale.
LEMMA KeptIsDurable ==
  ASSUME TypeOK, pvols = PV, NEW E \in Kept, NEW e \in E
  PROVE  Durable(e)
<1> SUFFICES ASSUME NEW Q \in Quorum, NEW l \in Newest(Q) PROVE e \in disk[l].stale
  BY DEF Durable
<1>1. PICK s \in Spread : <<s, E>> \in Carried
  BY DEF Kept
<1>2. PICK U \in SUBSET PV :
          /\ 2 * Cardinality(U) >= NPV
          /\ \A p \in U : \E k \in Loc : k \div 2 = p /\ s <= disk[k].ts
  BY <1>1 DEF Spread
<1>3. IsFiniteSet(PV) /\ Cardinality(PV) = NPV /\ NPV \in Nat
  BY VgsaAssumption, FS_Interval DEF PV
<1>4. Q \in SUBSET PV /\ 2 * Cardinality(Q) > NPV
  BY <1>3 DEF Quorum
<1>5. Q \cap U # {}
  <2>1. Cardinality(Q) \in Nat /\ Cardinality(U) \in Nat
    BY <1>3, <1>4, FS_Subset, FS_CardinalityType
  <2>2. Cardinality(Q) + Cardinality(U) > Cardinality(PV)
    BY <1>2, <1>3, <1>4, <2>1
  <2> QED
    BY <1>3, <1>4, <2>2, FS_MajoritiesIntersect
<1>6. PICK k \in Loc : k \div 2 \in Q /\ s <= disk[k].ts
  BY <1>2, <1>5
<1>7. s \in Nat \ {0} /\ l \in Loc /\ disk[k].ts \in Nat /\ disk[l].ts \in Nat
  BY <1>1 DEF Spread, Newest, TypeOK
<1>8. disk[k].ts <= disk[l].ts
  BY <1>6, <1>7 DEF Newest
<1>9. s <= disk[l].ts
  BY <1>6, <1>7, <1>8
<1> QED
  BY <1>1, <1>7, <1>9 DEF Carried

\* A step that leaves the disks alone keeps what does not become fresh.
LEMMA DisksStay ==
  ASSUME TypeOK, disk' = disk, Usable' \subseteq Usable, clock' \in Nat, clock <= clock'
  PROVE  /\ \A c \in Carried : c[2] \subseteq stale' => c \in Carried'
         /\ Spread \subseteq Spread'
<1>1. \A c \in Carried : c[2] \subseteq stale' => c \in Carried'
  BY DEF Carried
<1>2. 1 .. clock \subseteq 1 .. clock'
  BY DEF TypeOK
<1> QED
  BY <1>1, <1>2 DEF Spread

\* lv_sa_iodone: a copy that is written holds what is stale, and a torn one leaves
\* the other copy of its PV.
LEMMA WriteKeeps ==
  ASSUME TypeOK, WriteArea, wheel \in Usable
  PROVE  Carried \subseteq Carried' /\ Spread \subseteq Spread' /\ Kept \subseteq Kept'
<1>1. /\ stale' = stale /\ wheel' = wheel /\ pvols' = pvols /\ wheel \in Loc
      /\ disk \in [Loc -> [ts : 0 .. clock, stale : SUBSET Ext]] /\ clock \in Nat \ {0}
      /\ \/ AreaWritten /\ disk' = [disk EXCEPT ![wheel] = Current]
         \/ AreaFails /\ disk' \in {disk, [disk EXCEPT ![wheel] = Torn]}
  BY DEF WriteArea, TypeOK
<1>2. \A l \in Loc : l # wheel => disk'[l] = disk[l]
  BY <1>1
<1>3. \/ disk'[wheel] = disk[wheel] \/ disk'[wheel] = Current \/ disk'[wheel] = Torn
  BY <1>1
<1>4. Current.ts = clock /\ Current.stale = stale /\ Torn.ts = 0
  BY DEF Current, Torn
<1>5. Carried \subseteq Carried'
  <2> SUFFICES ASSUME NEW c \in Carried PROVE c \in Carried'
    OBVIOUS
  <2>1. /\ c \in (Nat \ {0}) \X SUBSET Ext /\ c[2] \subseteq stale /\ c[1] \in Nat \ {0}
        /\ \A l \in Loc : c[1] <= disk[l].ts => c[2] \subseteq disk[l].stale
    BY DEF Carried
  <2>2. \A l \in Loc : c[1] <= disk'[l].ts => c[2] \subseteq disk'[l].stale
    BY <1>1, <1>2, <1>3, <1>4, <2>1
  <2> QED
    BY <1>1, <2>1, <2>2 DEF Carried
<1>6. Spread \subseteq Spread'
  <2> SUFFICES ASSUME NEW s \in Spread PROVE s \in Spread'
    OBVIOUS
  <2>1. s \in 1 .. clock /\ \A l \in Usable : s <= disk[l].ts
    BY DEF Spread
  <2>2. PICK U \in SUBSET PV :
          /\ 2 * Cardinality(U) >= NPV
          /\ \A p \in U : \E k \in Loc : k \div 2 = p /\ s <= disk[k].ts
    BY DEF Spread
  <2>3. CASE AreaWritten /\ disk' = [disk EXCEPT ![wheel] = Current]
    <3>1. Usable' = Usable /\ clock' = clock /\ disk'[wheel] = Current
      BY <1>1, <2>3 DEF AreaWritten, Usable
    <3>2. \A l \in Loc : s <= disk[l].ts => s <= disk'[l].ts
      BY <1>1, <1>2, <1>4, <2>1, <3>1
    <3>3. \A l \in Usable' : s <= disk'[l].ts
      BY <2>1, <3>1, <3>2 DEF Usable
    <3>4. \A p \in U : \E k \in Loc : k \div 2 = p /\ s <= disk'[k].ts
      BY <2>2, <3>2
    <3> QED
      BY <2>1, <2>2, <3>1, <3>3, <3>4 DEF Spread
  <2>4. CASE AreaFails
    <3>1. /\ clock' = clock + 1
          /\ \A l \in Usable' : l \in Usable /\ l \in Loc /\ l # wheel
      BY <1>1, <2>4 DEF AreaFails, Usable
    <3>2. \A l \in Usable' : s <= disk'[l].ts
      BY <1>2, <2>1, <3>1
    <3>3. PICK o \in Loc : o # wheel /\ o \div 2 = wheel \div 2
      <4> DEFINE p == wheel \div 2
                 o == 4 * p + 1 - wheel
      <4>1. wheel \in Nat /\ wheel <= 2 * NPV - 1 /\ NPV \in Nat
        BY <1>1, VgsaAssumption DEF Loc
      <4>2. p \in Nat /\ 2 * p <= wheel /\ wheel <= 2 * p + 1
        BY <4>1
      <4> HIDE DEF p
      <4>3. o \in Nat /\ o <= 2 * NPV - 1 /\ o # wheel /\ o \div 2 = p
        BY <4>1, <4>2
      <4>4. o \in Loc
        BY <4>1, <4>3 DEF Loc
      <4> QED
        BY <4>3, <4>4 DEF p
    <3>4. s <= disk'[o].ts
      <4>1. o \in Usable
        BY <3>3 DEF Usable
      <4> QED
        BY <1>2, <2>1, <3>3, <4>1
    <3>5. \A p \in U : \E k \in Loc : k \div 2 = p /\ s <= disk'[k].ts
      <4> TAKE p \in U
      <4>1. PICK k \in Loc : k \div 2 = p /\ s <= disk[k].ts
        BY <2>2
      <4>2. CASE k = wheel
        BY <3>3, <3>4, <4>1, <4>2
      <4>3. CASE k # wheel
        BY <1>2, <4>1, <4>3
      <4> QED
        BY <4>2, <4>3
    <3>6. s \in 1 .. clock'
      BY <1>1, <2>1, <3>1
    <3> QED
      BY <2>2, <3>2, <3>5, <3>6 DEF Spread
  <2> QED
    BY <1>1, <2>3, <2>4
<1> QED
  BY <1>5, <1>6, WhatIsKept

\* The wheel as long as the volume group keeps its PVs.
AreaInv ==
    /\ pvols = PV /\ conf.op # "CNFG_PVMISSING"
    /\ pc = "writing" => wheel \in Usable
    /\ \A l \in Usable : saseq[l] > 0 => disk[l].ts = saseq[l]

\* Activation, the commands and the wheel keep to it.
LEMMA AreaInductive ==
  ASSUME Commands \subseteq {"extend"}
  PROVE  TypeOK /\ OrderInv /\ AreaInv /\ [Next]_vars => AreaInv'
<1> SUFFICES ASSUME TypeOK, OrderInv, AreaInv, [Next]_vars PROVE AreaInv'
  OBVIOUS
<1>0. CASE UNCHANGED vars
  BY <1>0 DEF AreaInv, Usable, vars, area, grp
<1>1. ASSUME UNCHANGED <<pvols, missing, saseq, disk, wheel>>,
             pc' = "writing" => pc = "writing",
             conf'.op # "CNFG_PVMISSING"
      PROVE  AreaInv'
  BY <1>1 DEF AreaInv, Usable
<1>2. ASSUME NEW r \in Req,
             WriteStart(r) \/ WriteDone(r) \/ SyncStart(r) \/ SyncDone(r) \/ Answer(r)
      PROVE  AreaInv'
  <2>1. Scheduled(r)
    BY <1>2, SchedulerEffect
  <2>2. pc' = pc \/ pc' = Started
    <3>1. \/ Queued(r, "SA_STALEPX") \/ Queued(r, "SA_FRESHPX") \/ UNCHANGED <<hold, pc>>
      BY <2>1 DEF Scheduled
    <3> QED
      BY <3>1 DEF Queued
  <2>3. pc' = "writing" => pc = "writing"
    BY <2>2 DEF Started
  <2>4. UNCHANGED <<pvols, missing, saseq, disk, wheel, conf>>
    BY <2>1 DEF Scheduled, area, grp
  <2> QED
    BY <1>1, <2>3, <2>4 DEF AreaInv
<1>3. CASE Enter
  <2>1. UNCHANGED <<pvols, missing, saseq, disk, wheel, pc, conf>>
    BY <1>3, EnterEffect DEF grp
  <2> QED
    BY <1>1, <2>1 DEF AreaInv
<1>4. CASE Turn
  <2>1. /\ UNCHANGED <<saseq, disk, pvols>> /\ missing \subseteq missing'
        /\ Refused \/ (\E n \in Loc : Rolled(n)) \/ Spun
    BY <1>4, TurnEffect
  <2>2. Usable' \subseteq Usable
    BY <2>1 DEF Usable
  <2>3. conf'.op # "CNFG_PVMISSING"
    <3>1. ConfSeq.op # "CNFG_PVMISSING" /\ NoConf.op # "CNFG_PVMISSING"
      BY ClockStep DEF NoConf
    <3> QED
      BY <2>1, <3>1 DEF Refused, Rolled, Spun
  <2>4. pc' = "writing" => wheel' \in Usable'
    BY <2>1 DEF Refused, Rolled, Spun
  <2> QED
    BY <2>1, <2>2, <2>3, <2>4 DEF AreaInv
<1>5. CASE WriteArea
  <2>1. /\ pc' = "continue" /\ UNCHANGED <<wheel, pvols, conf>> /\ wheel \in Loc
        /\ \/ AreaWritten /\ disk' = [disk EXCEPT ![wheel] = Current]
           \/ AreaFails /\ disk' \in {disk, [disk EXCEPT ![wheel] = Torn]}
        /\ disk \in [Loc -> [ts : 0 .. clock, stale : SUBSET Ext]]
        /\ saseq \in [Loc -> 0 .. clock]
    BY <1>5 DEF WriteArea, TypeOK
  <2>2. \A l \in Usable' : saseq'[l] > 0 => disk'[l].ts = saseq'[l]
    <3>1. CASE AreaWritten /\ disk' = [disk EXCEPT ![wheel] = Current]
      <4>1. Usable' = Usable /\ saseq' = [saseq EXCEPT ![wheel] = clock]
        BY <2>1, <3>1 DEF AreaWritten, Usable
      <4>2. disk'[wheel].ts = clock /\ saseq'[wheel] = clock
        BY <2>1, <3>1, <4>1 DEF Current
      <4> QED
        BY <2>1, <3>1, <4>1, <4>2 DEF AreaInv, Usable
    <3>2. CASE AreaFails /\ disk' \in {disk, [disk EXCEPT ![wheel] = Torn]}
      <4>1. saseq' = saseq /\ \A l \in Usable' : l \in Usable /\ l \in Loc /\ l # wheel
        BY <2>1, <3>2 DEF AreaFails, Usable
      <4>2. \A l \in Loc : l # wheel => disk'[l] = disk[l]
        BY <2>1, <3>2
      <4> QED
        BY <4>1, <4>2 DEF AreaInv
    <3> QED
      BY <2>1, <3>1, <3>2
  <2> QED
    BY <2>1, <2>2 DEF AreaInv
<1>6. CASE Command
  <2>1. UNCHANGED <<pvols, missing, saseq, disk, wheel>>
    BY <1>6 DEF Command, area
  <2>2. /\ pc' = pc \/ pc' = Started
        /\ conf' = conf \/ conf'.op = "CNFG_STALEPX"
    BY <1>6 DEF Command, SaConfig
  <2>3. pc' = "writing" => pc = "writing"
    BY <2>2 DEF Started
  <2> QED
    BY <1>1, <2>1, <2>2, <2>3 DEF AreaInv
<1>7. CASE ConfigReturn
  <2>1. call.what \notin {"attach", "delete"}
    BY DEF TypeOK
  <2>2. UNCHANGED <<pvols, missing, saseq, disk, wheel, pc, conf>>
    BY <1>7, <2>1 DEF ConfigReturn, area
  <2> QED
    BY <1>1, <2>2 DEF AreaInv
<1>8. CASE Crash
  <2>1. saseq' = [l \in Loc |-> 0] /\ pc' = "stopped" /\ pvols' = pvols /\ conf' = NoConf
    BY <1>8 DEF Crash
  <2> QED
    BY <2>1 DEF AreaInv, Usable, NoConf
<1>9. CASE Activate
  <2>1. saseq' = saseq /\ pc' = "continue" /\ pvols' = pvols
        /\ conf'.op = "CNFG_SYNCWRITE" /\ \A l \in Loc : saseq[l] = 0
    BY <1>9 DEF Activate, OrderInv
  <2> QED
    BY <2>1 DEF AreaInv, Usable
<1> QED
  BY <1>0, <1>2, <1>3, <1>4, <1>5, <1>6, <1>7, <1>8, <1>9 DEF Next

\* At first nothing is written.
LEMMA AreaInit == Init => AreaInv
<1>1. Init => /\ saseq = [l \in Loc |-> 0] /\ pc = "stopped" /\ pvols = PV /\ conf = NoConf
  BY DEF Init
<1> QED
  BY <1>1 DEF AreaInv, Usable, NoConf

\* lv_sa_continue lets go what the next copy holds: this is on all copies.
LEMMA LetGoIsSpread ==
  ASSUME TypeOK, OrderInv, AreaInv, Turn, NEW n \in Loc, Rolled(n)
  PROVE  \A s \in 1 .. saseq[n] : s \in Spread'
<1> TAKE s \in 1 .. saseq[n]
<1>1. /\ pc = "continue" /\ clock' = NewClock /\ UNCHANGED <<saseq, disk, pvols>>
      /\ missing' = missing
  <2>1. missing' = missing
    BY DEF Turn, AreaInv
  <2> QED
    BY <2>1, TurnEffect
<1>2. Usable' = Usable
  BY <1>1 DEF Usable
<1>3. /\ ~lost /\ ~LosesQuorum /\ n \in Usable
      /\ \A k \in Usable : Distance(wheel, n) <= Distance(wheel, k)
  BY <1>2 DEF Rolled
<1>4. Ordered(wheel)
  BY <1>1, <1>3 DEF OrderInv
<1>5. \A l \in Usable : saseq[n] <= saseq[l]
  BY <1>3, <1>4, FirstIsOldest
<1>6. saseq[n] \in Nat /\ saseq[n] <= clock /\ clock \in Nat
      /\ \A l \in Usable : l \in Loc /\ saseq[l] \in Nat
  BY DEF TypeOK, Usable
<1>7. \A l \in Usable : s <= disk[l].ts
  <2> TAKE l \in Usable
  <2>1. s <= saseq[l] /\ saseq[l] > 0
    BY <1>5, <1>6
  <2> QED
    BY <2>1 DEF AreaInv
<1> DEFINE U == pvols \ missing
<1>8. U \in SUBSET PV /\ 2 * Cardinality(U) >= NPV
  <2>1. IsFiniteSet(PV) /\ Cardinality(PV) = NPV /\ NPV \in Nat
    BY VgsaAssumption, FS_Interval DEF PV
  <2>2. Cardinality(U) \in Nat
    BY <2>1, FS_Subset, FS_CardinalityType DEF AreaInv
  <2>3. ~(Cardinality(U) < (NPV + 1) \div 2)
    BY <1>3, <2>1 DEF LosesQuorum, AreaInv
  <2> HIDE DEF U
  <2>4. 2 * Cardinality(U) >= NPV
    BY <2>1, <2>2, <2>3
  <2> QED
    BY <2>4 DEF U, AreaInv
<1>9. \A p \in U : \E l \in Loc : l \div 2 = p /\ s <= disk[l].ts
  <2> TAKE p \in U
  <2>1. p \in 0 .. NPV - 1 /\ NPV \in Nat
    BY VgsaAssumption DEF AreaInv, PV
  <2>2. 2 * p \in Loc /\ (2 * p) \div 2 = p
    BY <2>1 DEF Loc
  <2>3. 2 * p \in Usable
    BY <2>2 DEF Usable
  <2> QED
    BY <1>7, <2>2, <2>3
<1>10. clock <= clock' /\ clock' \in Nat
  BY <1>1, ClockStep DEF TypeOK
<1>11. s \in 1 .. clock'
  BY <1>6, <1>10
<1> HIDE DEF U
<1>12. /\ \A l \in Usable' : s <= disk'[l].ts
       /\ \A p \in U : \E l \in Loc : l \div 2 = p /\ s <= disk'[l].ts
  BY <1>1, <1>2, <1>7, <1>9
<1> QED
  BY <1>8, <1>11, <1>12 DEF Spread

-----------------------------------------------------------------------------
(* A write is let go only when its mirrors are stale on disk.              *)

\* The physical blocks of a request tell its logical extent.
BlocksTellExtents == \A e, f \in Ext : BlkExt[e] = BlkExt[f] => e[1] = f[1]

\* What the disks hold of the extents that a write r has marked.
Recorded(r) ==
    /\ pb[r].state \notin {"idle", "io"} => \E m \in Mirror : pb[r].blk = BlkExt[pb[r].lx, m]
    /\ pb[r].type = "SA_STALEPX" =>
          /\ Riding(r) => <<pb[r].seq, Marks(pb[r])>> \in Carried
          /\ pb[r].state = "done" => Marks(pb[r]) \in Kept

PbInv == \A r \in Req : Recorded(r)

\* The end of a resynchronisation does not make fresh what a write marks that rides,
\* is let go or comes before it on the hold list.
FreshInv ==
    \A i \in 1 .. Len(hold) : pb[hold[i]].type # "SA_STALEPX" =>
        \A q \in Req :
            /\ pb[q].type = "SA_STALEPX"
            /\ \/ pb[q].state \in {"active", "merged", "done"}
               \/ \E j \in 1 .. i - 1 : hold[j] = q
            => Marks(pb[q]) \cap Marks(pb[hold[i]]) = {}

\* lv_stalepp puts a pbuf at the end of the hold list.
LEMMA SchedulerKeepsFresh ==
  ASSUME TypeOK, FreshInv, NEW r \in Req, Scheduled(r)
  PROVE  FreshInv'
<1>1. /\ pb \in [Req -> Pbuf] /\ Only(r) /\ hold \in Seq(Req)
      /\ \A q \in Req : q # r => pb'[q] = pb[q]
      /\ \A i \in 1 .. Len(hold) : hold[i] \in Req /\ pb[hold[i]].state = "hold"
  BY DEF TypeOK, Scheduled, Only
<1>2. pb[r].state \in {"idle", "io", "done"} /\ \A i \in 1 .. Len(hold) : hold[i] # r
  BY <1>1 DEF Scheduled
<1>3. \A i \in 1 .. Len(hold) : pb'[hold[i]] = pb[hold[i]]
  BY <1>1, <1>2
\* The pbufs that wait already: r does not come before them.
<1>4. ASSUME NEW i \in 1 .. Len(hold), pb[hold[i]].type # "SA_STALEPX", NEW q \in Req,
             pb'[q].type = "SA_STALEPX", pb'[r].state \notin {"active", "merged", "done"},
             \/ pb'[q].state \in {"active", "merged", "done"}
             \/ \E j \in 1 .. i - 1 : hold[j] = q
      PROVE  Marks(pb'[q]) \cap Marks(pb'[hold[i]]) = {}
  <2>1. q # r
    BY <1>1, <1>2, <1>4
  <2>2. pb'[q] = pb[q]
    BY <1>1, <2>1
  <2> QED
    BY <1>3, <1>4, <2>2 DEF FreshInv
<1>5. pb'[r].state \notin {"active", "merged", "done"}
  BY NoPbIsPbuf DEF Scheduled, Queued
<1>6. CASE hold' = hold
  BY <1>3, <1>4, <1>5, <1>6 DEF FreshInv
<1>7. CASE hold' = Append(hold, r) /\ Queued(r, "SA_STALEPX")
  <2>1. /\ Len(hold') = Len(hold) + 1
        /\ \A i \in 1 .. Len(hold') : hold'[i] = IF i <= Len(hold) THEN hold[i] ELSE r
    BY <1>1, <1>7
  <2>2. pb'[r].type = "SA_STALEPX"
    BY <1>7 DEF Queued
  <2> SUFFICES ASSUME NEW i \in 1 .. Len(hold'), pb'[hold'[i]].type # "SA_STALEPX",
                      NEW q \in Req, pb'[q].type = "SA_STALEPX",
                      \/ pb'[q].state \in {"active", "merged", "done"}
                      \/ \E j \in 1 .. i - 1 : hold'[j] = q
               PROVE  Marks(pb'[q]) \cap Marks(pb'[hold'[i]]) = {}
    BY Zenon DEF FreshInv
  <2>3. i \in 1 .. Len(hold) /\ hold'[i] = hold[i]
    BY <2>1, <2>2
  <2>4. \A j \in 1 .. i - 1 : hold'[j] = hold[j]
    BY <2>1, <2>3
  <2>5. pb[hold[i]].type # "SA_STALEPX"
    BY <1>3, <2>3
  <2> QED
    BY <1>4, <1>5, <2>3, <2>4, <2>5
<1>8. CASE hold' = Append(hold, r) /\ Queued(r, "SA_FRESHPX") /\ Freshened(r)
  <2>1. /\ Len(hold') = Len(hold) + 1 /\ Len(hold) \in Nat
        /\ \A i \in 1 .. Len(hold') : hold'[i] = IF i <= Len(hold) THEN hold[i] ELSE r
    BY <1>1, <1>8
  <2>2. pb'[r].type = "SA_FRESHPX" /\ pb'[r].lx = pb[r].lx
    BY <1>8 DEF Queued
  <2> SUFFICES ASSUME NEW i \in 1 .. Len(hold'), pb'[hold'[i]].type # "SA_STALEPX",
                      NEW q \in Req, pb'[q].type = "SA_STALEPX",
                      \/ pb'[q].state \in {"active", "merged", "done"}
                      \/ \E j \in 1 .. i - 1 : hold'[j] = q
               PROVE  Marks(pb'[q]) \cap Marks(pb'[hold'[i]]) = {}
    BY Zenon DEF FreshInv
  <2>3. CASE i <= Len(hold)
    <3>1. i \in 1 .. Len(hold) /\ hold'[i] = hold[i]
      BY <2>1, <2>3
    <3>2. \A j \in 1 .. i - 1 : hold'[j] = hold[j]
      BY <2>1, <3>1
    <3>3. pb[hold[i]].type # "SA_STALEPX"
      BY <1>3, <3>1
    <3> QED
      BY <1>4, <1>5, <3>1, <3>2, <3>3
  <2>4. CASE ~(i <= Len(hold))
    <3>1. hold'[i] = r /\ q # r
      BY <2>1, <2>2, <2>4
    <3>2. pb'[q] = pb[q] /\ pb[q].type = "SA_STALEPX" /\ pb[q] \in Pbuf
      BY <1>1, <3>1
    <3>3. pb[q].state # "io"
      <4>1. i - 1 = Len(hold)
        BY <2>1, <2>4
      <4>2. \A j \in 1 .. i - 1 : hold'[j] = hold[j] /\ pb[hold[j]].state = "hold"
        BY <1>1, <2>1, <4>1
      <4> QED
        BY <3>2, <4>2
    <3>4. pb[q].lx = pb[r].lx => pb[q].bad \cap pb'[r].fresh = {}
      BY <1>8, <3>2, <3>3 DEF Freshened, Passed
    <3>5. pb'[r] \in Pbuf
      BY <1>1 DEF Only
    <3>6. Marks(pb[q]) \in SUBSET Ext /\ Marks(pb'[r]) \in SUBSET Ext
      BY <3>2, <3>5, MarksType
    <3>7. \A e \in Ext : e \in Marks(pb[q]) => e[1] = pb[q].lx /\ e[2] \in pb[q].bad
      BY <3>2, MarkIs
    <3>8. \A e \in Ext : e \in Marks(pb'[r]) => e[1] = pb[r].lx /\ e[2] \in pb'[r].fresh
      BY <2>2, MarkIs
    <3> QED
      BY <3>1, <3>2, <3>4, <3>6, <3>7, <3>8
  <2> QED
    BY <2>3, <2>4
<1> QED
  BY <1>6, <1>7, <1>8 DEF Scheduled, Queued

\* lv_sa_continue takes the first of the hold list, which was before all others.
LEMMA EnterKeepsFresh ==
  ASSUME TypeOK, FreshInv, Enter
  PROVE  FreshInv'
<1>1. PICK r \in Req : Taken(r)
  BY EnterEffect
<1>2. /\ hold \in Seq(Req) /\ hold # <<>> /\ hold' = Tail(hold) /\ r = hold[1]
      /\ \A i, j \in 1 .. Len(hold) : hold[i] = hold[j] => i = j
  BY <1>1, EnterEffect DEF TypeOK, Taken
<1>3. /\ Len(hold') = Len(hold) - 1 /\ Len(hold) \in Nat
      /\ \A i \in 1 .. Len(hold') : hold'[i] = hold[i + 1] /\ i + 1 \in 1 .. Len(hold)
      /\ 1 \in 1 .. Len(hold) /\ \A i \in 1 .. Len(hold) : hold[i] \in Req
  BY <1>2
<1>4. \A q \in Req : q # r => pb'[q] = pb[q]
  BY <1>1 DEF Taken, Only, TypeOK
<1>5. pb'[r].type = pb[r].type /\ Marks(pb'[r]) = Marks(pb[r])
  BY <1>1 DEF Taken, Marks
<1> SUFFICES ASSUME NEW i \in 1 .. Len(hold'), pb'[hold'[i]].type # "SA_STALEPX",
                    NEW q \in Req, pb'[q].type = "SA_STALEPX",
                    \/ pb'[q].state \in {"active", "merged", "done"}
                    \/ \E j \in 1 .. i - 1 : hold'[j] = q
             PROVE  Marks(pb'[q]) \cap Marks(pb'[hold'[i]]) = {}
  BY Zenon DEF FreshInv
<1>6. i + 1 \in 1 .. Len(hold) /\ hold'[i] = hold[i + 1] /\ hold'[i] # r /\ i \in Nat
      /\ i + 1 - 1 = i /\ 1 \in 1 .. i
  <2>1. i + 1 # 1
    OBVIOUS
  <2> QED
    BY <1>2, <1>3, <2>1
<1>7. pb'[hold[i + 1]] = pb[hold[i + 1]] /\ pb[hold[i + 1]].type # "SA_STALEPX"
  BY <1>3, <1>4, <1>6
<1>8. pb[q].type = "SA_STALEPX" /\ Marks(pb'[q]) = Marks(pb[q])
  BY <1>4, <1>5
<1>9. \/ pb[q].state \in {"active", "merged", "done"}
      \/ \E j \in 1 .. i : hold[j] = q
  <2>1. CASE q = r
    BY <1>2, <1>6, <2>1
  <2>2. CASE q # r /\ pb'[q].state \in {"active", "merged", "done"}
    BY <1>4, <2>2
  <2>3. CASE \E j \in 1 .. i - 1 : hold'[j] = q
    <3>1. PICK j \in 1 .. i - 1 : hold'[j] = q
      BY <2>3
    <3>2. j + 1 \in 1 .. i /\ hold[j + 1] = q
      BY <1>3, <1>6, <3>1
    <3> QED
      BY <3>2
  <2> QED
    BY <2>1, <2>2, <2>3
<1>10. Marks(pb[q]) \cap Marks(pb[hold[i + 1]]) = {}
  BY <1>6, <1>7, <1>8, <1>9, SMTT(30) DEF FreshInv
<1> QED
  BY <1>6, <1>7, <1>8, <1>10

\* A request whose place did not change is still recorded.
LEMMA StillRecorded ==
  ASSUME NEW r \in Req, Recorded(r), pb'[r] = pb[r],
         Carried \subseteq Carried', Kept \subseteq Kept'
  PROVE  Recorded(r)'
<1>1. Riding(r)' <=> Riding(r)
  BY DEF Riding
<1>2. Marks(pb'[r]) = Marks(pb[r])
  BY DEF Marks
<1> QED
  BY <1>1, <1>2 DEF Recorded

\* A request that waits for nothing yet, or no longer, has nothing recorded.
LEMMA NothingRecorded ==
  ASSUME NEW r \in Req, pb'[r].state \in {"idle", "io"} \/ Queued(r, "SA_STALEPX")
                          \/ Queued(r, "SA_FRESHPX")
  PROVE  Recorded(r)'
<1>1. ~Riding(r)' /\ pb'[r].state # "done"
  BY DEF Queued, Riding
<1>2. pb'[r].state \notin {"idle", "io"} => \E m \in Mirror : pb'[r].blk = BlkExt[pb'[r].lx, m]
  BY DEF Queued
<1> QED
  BY <1>1, <1>2 DEF Recorded

\* The scheduler does not touch the area.
LEMMA SchedulerKeepsPb ==
  ASSUME TypeOK, PbInv, NEW r \in Req, Scheduled(r)
  PROVE  PbInv'
<1>1. Carried' = Carried /\ Spread' = Spread
  BY DEF Scheduled, area, grp, Carried, Spread, Usable
<1>2. Carried \subseteq Carried' /\ Kept \subseteq Kept'
  BY <1>1, WhatIsKept
<1>3. \A q \in Req : q # r => pb'[q] = pb[q]
  BY DEF TypeOK, Scheduled, Only
<1>4. \A q \in Req : q # r => Recorded(q)'
  BY <1>2, <1>3, StillRecorded DEF PbInv
<1>5. \/ pb'[r].state \in {"idle", "io"}
      \/ Queued(r, "SA_STALEPX") \/ Queued(r, "SA_FRESHPX")
  BY NoPbIsPbuf DEF Scheduled
<1>6. Recorded(r)'
  BY <1>5, NothingRecorded
<1> QED
  BY <1>4, <1>6 DEF PbInv

\* lv_sa_continue: r is recorded when it rides, by itself or by the request that it
\* joins.
LEMMA EnterKeepsPb ==
  ASSUME BlocksTellExtents, TypeOK, FreshInv, PbInv, Enter
  PROVE  PbInv'
<1>1. PICK r \in Req : Taken(r)
  BY EnterEffect
<1>2. /\ hold # <<>> /\ hold \in Seq(Req) /\ r = hold[1]
      /\ UNCHANGED <<clock, saseq, disk, missing, grp>>
  BY <1>1, EnterEffect DEF TypeOK, Taken
<1>3. /\ \A q \in Req : q # r => pb'[q] = pb[q]
      /\ pb'[r].type = pb[r].type /\ Marks(pb'[r]) = Marks(pb[r]) /\ pb[r] \in Pbuf
      /\ pb[r].state = "hold" /\ pb'[r].state \in {"active", "merged"}
  BY <1>1 DEF Taken, Only, TypeOK, Marks, Joined, Entered
<1>4. Marks(pb[r]) \in SUBSET Ext
  BY <1>3, MarksType
<1>5. /\ \A c \in Carried : c[2] \subseteq stale' => c \in Carried'
      /\ Spread \subseteq Spread'
  <2>1. Usable' = Usable /\ clock' \in Nat /\ clock <= clock' /\ disk' = disk
    BY <1>2 DEF Usable, grp, TypeOK
  <2> QED
    BY <2>1, DisksStay
<1>6. \/ stale \subseteq stale'
      \/ pb[r].type # "SA_STALEPX" /\ stale' = stale \ Marks(pb[r])
  BY <1>1 DEF Taken, Joined, Entered
\* What r makes fresh is not what q has recorded.
<1>7. ASSUME NEW q \in Req, pb[q].type = "SA_STALEPX",
             pb[q].state \in {"active", "merged", "done"}, NEW s, <<s, Marks(pb[q])>> \in Carried
      PROVE  <<s, Marks(pb[q])>> \in Carried'
  <2> DEFINE E == Marks(pb[q])
  <2>1. E \subseteq stale /\ <<s, E>>[2] = E
    BY <1>7 DEF Carried
  <2>2. CASE stale \subseteq stale'
    BY <1>5, <1>7, <2>1, <2>2
  <2>3. CASE pb[r].type # "SA_STALEPX" /\ stale' = stale \ Marks(pb[r])
    <3>1. 1 \in 1 .. Len(hold)
      BY <1>2
    <3>2. E \cap Marks(pb[r]) = {}
      BY <1>2, <1>7, <2>3, <3>1 DEF FreshInv
    <3>3. E \subseteq stale'
      BY <2>1, <2>3, <3>2
    <3> QED
      BY <1>5, <1>7, <2>1, <3>3
  <2> QED
    BY <1>6, <2>2, <2>3
<1>8. ASSUME NEW q \in Req, q # r PROVE Recorded(q)'
  <2>1. pb'[q] = pb[q] /\ Recorded(q)
    BY <1>3, <1>8 DEF PbInv
  <2>2. pb[q].type = "SA_STALEPX" /\ Riding(q) => <<pb[q].seq, Marks(pb[q])>> \in Carried'
    BY <1>7, <2>1 DEF Recorded, Riding
  <2>3. pb[q].type = "SA_STALEPX" /\ pb[q].state = "done" => Marks(pb[q]) \in Kept'
    <3> SUFFICES ASSUME pb[q].type = "SA_STALEPX", pb[q].state = "done"
                 PROVE  Marks(pb[q]) \in Kept'
      OBVIOUS
    <3>1. Marks(pb[q]) \in Kept
      BY <2>1 DEF Recorded
    <3>2. PICK s \in Spread : <<s, Marks(pb[q])>> \in Carried
      BY <3>1 DEF Kept
    <3>3. <<s, Marks(pb[q])>> \in Carried'
      BY <1>7, <3>2
    <3>4. s \in Spread'
      BY <1>5, <3>2
    <3>5. Marks(pb[q]) \in SUBSET Ext
      BY <3>1 DEF Kept
    <3> QED
      BY <3>3, <3>4, <3>5 DEF Kept
  <2> QED
    BY <2>1, <2>2, <2>3 DEF Recorded, Riding
<1>9. Recorded(r)'
  <2>1. \E m \in Mirror : pb'[r].blk = BlkExt[pb'[r].lx, m]
    <3>1. pb'[r].blk = pb[r].blk /\ pb'[r].lx = pb[r].lx
      BY <1>1 DEF Taken
    <3> QED
      BY <1>3, <3>1 DEF PbInv, Recorded
  <2>2. pb[r].type = "SA_STALEPX" => <<pb'[r].seq, Marks(pb[r])>> \in Carried'
    <3> SUFFICES ASSUME pb[r].type = "SA_STALEPX"
                 PROVE  <<pb'[r].seq, Marks(pb[r])>> \in Carried'
      OBVIOUS
    <3>1. CASE Entered(r)
      <4>1. pb'[r].seq = clock + 1 /\ stale' = stale \cup Marks(pb[r])
        BY <3>1 DEF Entered
      <4>2. clock \in Nat /\ \A l \in Loc : disk[l].ts \in 0 .. clock
        BY DEF TypeOK
      <4>3. \A l \in Loc : ~(clock + 1 <= disk[l].ts)
        BY <4>2
      <4>4. <<clock + 1, Marks(pb[r])>> \in (Nat \ {0}) \X SUBSET Ext
        BY <1>4, <4>2
      <4> QED
        BY <1>2, <4>1, <4>3, <4>4 DEF Carried
    <3>2. CASE Joined(r)
      <4>1. PICK a \in Active : Same(pb[a], pb[r]) /\ pb'[r].seq = pb[a].seq
        BY <3>2 DEF Joined
      <4>2. /\ a \in Req /\ pb[a].state = "active" /\ pb[a].type = "SA_STALEPX"
            /\ pb[a].blk = pb[r].blk /\ pb[r].bad \subseteq pb[a].bad /\ pb[a] \in Pbuf
        BY <4>1 DEF Active, Same, TypeOK
      <4>3. pb[a].lx = pb[r].lx
        <5>1. PICK m \in Mirror : pb[a].blk = BlkExt[pb[a].lx, m]
          BY <4>2 DEF PbInv, Recorded
        <5>2. PICK k \in Mirror : pb[r].blk = BlkExt[pb[r].lx, k]
          BY <1>3 DEF PbInv, Recorded
        <5>3. <<pb[a].lx, m>> \in Ext /\ <<pb[r].lx, k>> \in Ext
          BY <1>3, <4>2 DEF Pbuf, Ext
        <5>4. BlkExt[<<pb[a].lx, m>>] = BlkExt[<<pb[r].lx, k>>]
          BY <4>2, <5>1, <5>2
        <5>5. <<pb[a].lx, m>>[1] = <<pb[r].lx, k>>[1]
          BY <5>3, <5>4 DEF BlocksTellExtents
        <5> QED
          BY <5>5
      <4>4. Marks(pb[r]) \in SUBSET Marks(pb[a])
        BY <4>2, <4>3 DEF Marks
      <4>5. <<pb[a].seq, Marks(pb[a])>> \in Carried
        BY <4>2 DEF PbInv, Recorded, Riding
      <4>6. <<pb[a].seq, Marks(pb[a])>> \in Carried'
        BY <1>7, <4>2, <4>5
      <4>7. <<pb[a].seq, Marks(pb[r])>> \in Carried
        BY <4>4, <4>5, PartCarried
      <4>8. Marks(pb[a]) \subseteq stale'
        BY <4>6 DEF Carried
      <4>9. <<pb[a].seq, Marks(pb[r])>>[2] \subseteq stale'
        BY <4>4, <4>8
      <4> QED
        BY <1>5, <4>1, <4>7, <4>9
    <3> QED
      BY <1>1, <3>1, <3>2 DEF Taken
  <2> QED
    BY <1>3, <2>1, <2>2 DEF Recorded, Riding
<1> QED
  BY <1>8, <1>9 DEF PbInv

\* lv_sa_continue: what the next copy holds is kept.
LEMMA TurnKeepsPb ==
  ASSUME TypeOK, OrderInv, AreaInv, PbInv, Turn
  PROVE  /\ PbInv' /\ Carried \subseteq Carried' /\ Spread \subseteq Spread'
         /\ Kept \subseteq Kept'
<1>1. /\ clock' = NewClock /\ disk' = disk /\ stale \subseteq stale'
      /\ missing \subseteq missing' /\ pvols' = pvols
      /\ Refused \/ (\E n \in Loc : Rolled(n)) \/ Spun
  BY TurnEffect
<1>2. Usable' \subseteq Usable /\ clock' \in Nat /\ clock <= clock'
  BY <1>1, ClockStep DEF Usable
<1>3. \A c \in Carried : c[2] \subseteq stale'
  BY <1>1 DEF Carried
<1>4. Carried \subseteq Carried' /\ Spread \subseteq Spread'
  BY <1>1, <1>2, <1>3, DisksStay
<1>5. Kept \subseteq Kept'
  BY <1>4, WhatIsKept
<1>6. \A r \in Req : pb'[r] = pb[r] => Recorded(r)'
  BY <1>4, <1>5, StillRecorded DEF PbInv
<1>7. \A r \in Req : pb'[r] = NoPb => Recorded(r)'
  BY NothingRecorded, NoPbIsPbuf
<1>8. CASE Refused
  <2>1. \A r \in Req : pb'[r] = NoPb \/ pb'[r] = pb[r]
    BY <1>8 DEF Refused
  <2> QED
    BY <1>4, <1>5, <1>6, <1>7, <2>1 DEF PbInv
<1>9. CASE Spun
  BY <1>4, <1>5, <1>6, <1>9 DEF PbInv, Spun
<1>10. ASSUME NEW n \in Loc, Rolled(n) PROVE PbInv'
  <2>1. \A r \in Req : ~LetGo(pb[r], n) => Recorded(r)'
    <3>1. \A r \in Req : ~LetGo(pb[r], n) => pb'[r] = pb[r]
      BY <1>10 DEF Rolled
    <3> QED
      BY <1>6, <3>1
  <2>2. ASSUME NEW r \in Req, LetGo(pb[r], n) PROVE Recorded(r)'
    <3>1. pb[r] \in Pbuf /\ pb'[r] = DoneOf(pb[r])
      BY <1>10, <2>2 DEF Rolled, TypeOK
    <3>2. /\ pb'[r].state = "done" /\ pb'[r].type = pb[r].type /\ pb'[r].lx = pb[r].lx
          /\ pb'[r].bad = pb[r].bad /\ pb'[r].fresh = pb[r].fresh /\ pb'[r].blk = pb[r].blk
      BY <3>1, DonePbuf
    <3>3. Marks(pb'[r]) = Marks(pb[r])
      BY <3>2 DEF Marks
    <3>4. Riding(r) /\ pb[r].seq <= saseq[n] /\ pb[r].state \notin {"idle", "io"}
      BY <2>2 DEF LetGo, Riding
    <3>5. pb[r].type = "SA_STALEPX" => Marks(pb[r]) \in Kept'
      <4> SUFFICES ASSUME pb[r].type = "SA_STALEPX" PROVE Marks(pb[r]) \in Kept'
        OBVIOUS
      <4>1. <<pb[r].seq, Marks(pb[r])>> \in Carried
        BY <3>4 DEF PbInv, Recorded
      <4>2. pb[r].seq \in Nat \ {0} /\ Marks(pb[r]) \in SUBSET Ext
        BY <4>1 DEF Carried
      <4>3. saseq[n] \in Nat
        BY DEF TypeOK
      <4>4. pb[r].seq \in 1 .. saseq[n]
        BY <3>4, <4>2, <4>3
      <4>5. pb[r].seq \in Spread'
        BY <1>10, <4>4, LetGoIsSpread
      <4> QED
        BY <1>4, <4>1, <4>2, <4>5 DEF Kept
    <3>6. \E m \in Mirror : pb'[r].blk = BlkExt[pb'[r].lx, m]
      BY <3>2, <3>4 DEF PbInv, Recorded
    <3>7. ~Riding(r)'
      BY <3>2 DEF Riding
    <3> QED
      BY <3>2, <3>3, <3>5, <3>6, <3>7 DEF Recorded
  <2> QED
    BY <2>1, <2>2 DEF PbInv
<1> QED
  BY <1>1, <1>4, <1>5, <1>8, <1>9, <1>10

\* Every action keeps what is recorded, and the hold list in its order.
LEMMA PbInductive ==
  ASSUME BlocksTellExtents, Commands \subseteq {"extend"}
  PROVE  TypeOK /\ SyncInv /\ OrderInv /\ AreaInv /\ FreshInv /\ PbInv /\ [Next]_vars
            => FreshInv' /\ PbInv'
<1> SUFFICES ASSUME TypeOK, SyncInv, OrderInv, AreaInv, FreshInv, PbInv, [Next]_vars
             PROVE  FreshInv' /\ PbInv'
  OBVIOUS
\* Neither the pbufs nor the area change.
<1>1. ASSUME UNCHANGED <<pb, hold, stale, clock, disk, missing, pvols>>
      PROVE  FreshInv' /\ PbInv'
  <2>1. Carried' = Carried /\ Spread' = Spread
    BY <1>1 DEF Carried, Spread, Usable
  <2>2. Carried \subseteq Carried' /\ Kept \subseteq Kept'
    BY <2>1, WhatIsKept
  <2>3. PbInv'
    BY <1>1, <2>2, StillRecorded DEF PbInv
  <2>4. FreshInv'
    BY <1>1 DEF FreshInv
  <2> QED
    BY <2>3, <2>4
\* Nothing runs.
<1>2. ASSUME \A r \in Req : pb'[r].state = "idle", hold' = hold \/ hold' = <<>>,
             pb' = pb \/ hold' = <<>>
      PROVE  FreshInv' /\ PbInv'
  <2>1. PbInv'
    BY <1>2, NothingRecorded DEF PbInv
  <2>2. FreshInv'
    <3>1. CASE hold' = <<>>
      BY <3>1 DEF FreshInv
    <3>2. CASE hold' = hold /\ pb' = pb
      BY <3>2 DEF FreshInv
    <3> QED
      BY <1>2, <3>1, <3>2
  <2> QED
    BY <2>1, <2>2
<1>3. CASE UNCHANGED vars
  BY <1>1, <1>3 DEF vars, io, area, grp
<1>4. ASSUME NEW r \in Req,
             WriteStart(r) \/ WriteDone(r) \/ SyncStart(r) \/ SyncDone(r) \/ Answer(r)
      PROVE  FreshInv' /\ PbInv'
  BY <1>4, SchedulerEffect, SchedulerKeepsFresh, SchedulerKeepsPb
<1>5. CASE Enter
  BY <1>5, EnterKeepsFresh, EnterKeepsPb
<1>6. CASE Turn
  <2>1. hold' = <<>>
    BY <1>6, TurnEffect
  <2>2. FreshInv'
    BY <2>1 DEF FreshInv
  <2> QED
    BY <1>6, <2>2, TurnKeepsPb
<1>7. CASE WriteArea
  <2>1. wheel \in Usable /\ pb' = pb /\ hold' = hold
    BY <1>7 DEF WriteArea, AreaInv, io
  <2>2. PbInv'
    BY <1>7, <2>1, WriteKeeps, StillRecorded DEF PbInv
  <2>3. FreshInv'
    BY <2>1 DEF FreshInv
  <2> QED
    BY <2>2, <2>3
<1>8. CASE Command
  BY <1>1, <1>8 DEF Command, io, area
<1>9. CASE ConfigReturn
  <2>1. /\ UNCHANGED <<pb, hold, stale, clock, disk>>
        /\ call.what \notin {"attach", "delete"}
    BY <1>9 DEF ConfigReturn, area, TypeOK
  <2>2. UNCHANGED <<missing, pvols>>
    BY <1>9, <2>1 DEF ConfigReturn
  <2> QED
    BY <1>1, <2>1, <2>2
<1>10. CASE Crash
  <2>1. pb' = [r \in Req |-> NoPb] /\ hold' = <<>>
    BY <1>10 DEF Crash
  <2> QED
    BY <1>2, <2>1, NoPbIsPbuf
<1>11. CASE Activate
  <2>1. pb' = pb /\ hold' = hold /\ up = "down"
    BY <1>11 DEF Activate
  <2>2. \A r \in Req : pb'[r].state = "idle"
    BY <2>1 DEF SyncInv
  <2> QED
    BY <1>2, <2>1, <2>2
<1> QED
  BY <1>3, <1>4, <1>5, <1>6, <1>7, <1>8, <1>9, <1>10, <1>11 DEF Next

\* Whoever activates the volume group finds stale what is kept.
KeptLasts == \A E \in Kept : \A e \in E : Durable(e)

\* That follows from the invariants.
LEMMA KeptAreDurable == TypeOK /\ AreaInv => KeptLasts
  BY KeptIsDurable DEF AreaInv, KeptLasts

\* Only lv_sa_continue lets requests go, which keep their marks.
LEMMA OnlyTurnLetsGo ==
  ASSUME TypeOK, [Next]_vars, NEW r \in Req, Riding(r), pb'[r].state = "done"
  PROVE  pb'[r].type = pb[r].type /\ Marks(pb'[r]) = Marks(pb[r])
<1>1. pb'[r] # pb[r]
  BY DEF Riding
<1>2. ASSUME NEW q \in Req,
             WriteStart(q) \/ WriteDone(q) \/ SyncStart(q) \/ SyncDone(q) \/ Answer(q)
      PROVE  FALSE
  <2>1. Scheduled(q)
    BY <1>2, SchedulerEffect
  <2>2. q = r
    BY <1>1, <2>1 DEF Scheduled, Only, TypeOK
  <2> QED
    BY <2>1, <2>2 DEF Scheduled, Riding
<1>3. CASE Enter
  <2>1. PICK q \in Req : Taken(q)
    BY <1>3, EnterEffect
  <2>2. q = r
    BY <1>1, <2>1 DEF Taken, Only, TypeOK
  <2> QED
    BY <2>1, <2>2 DEF Taken, Riding
<1>4. CASE Turn
  <2>1. Refused \/ (\E n \in Loc : Rolled(n)) \/ Spun
    BY <1>4, TurnEffect
  <2>2. ~Refused
    BY NoPbIsPbuf DEF Refused, Riding
  <2>3. ~Spun
    BY <1>1 DEF Spun
  <2>4. PICK n \in Loc : Rolled(n)
    BY <2>1, <2>2, <2>3
  <2>5. pb'[r] = DoneOf(pb[r]) /\ pb[r] \in Pbuf
    BY <1>1, <2>4 DEF Rolled, TypeOK
  <2> QED
    BY <2>5, DonePbuf DEF Marks
<1>5. CASE WriteArea \/ Command \/ ConfigReturn \/ Activate \/ UNCHANGED vars
  BY <1>1, <1>5 DEF WriteArea, Command, ConfigReturn, Activate, vars, io
<1>6. CASE Crash
  BY <1>6, NoPbIsPbuf DEF Crash
<1> QED
  BY <1>2, <1>3, <1>4, <1>5, <1>6 DEF Next

\* At first no request is on its way.
LEMMA PbInit == Init => FreshInv /\ PbInv
<1> SUFFICES ASSUME Init PROVE FreshInv /\ PbInv
  OBVIOUS
<1>1. hold = <<>> /\ \A r \in Req : pb[r] = NoPb
  BY DEF Init
<1>2. \A r \in Req : ~Riding(r) /\ pb[r].state = "idle"
  BY <1>1, NoPbIsPbuf DEF Riding
<1>3. FreshInv
  BY <1>1 DEF FreshInv
<1>4. PbInv
  BY <1>1, <1>2, NoPbIsPbuf DEF PbInv, Recorded
<1> QED
  BY <1>3, <1>4

\* lv_sa_done with ESUCCESS: the mirrors that a write did not reach are stale on the
\* disks, so that every majority of the PVs tells so, whatever PVs fail and wherever
\* the system crashes.  It needs that no PV is attached or deleted meanwhile and that
\* the blocks of a request tell its logical extent.
THEOREM AnswersAreDurable ==
  ASSUME BlocksTellExtents, Commands \subseteq {"extend"}
  PROVE  Spec => AckIsDurable
<1>1. Init => FreshInv /\ PbInv
  BY PbInit
<1>2. TypeOK /\ SyncInv /\ OrderInv /\ AreaInv /\ FreshInv /\ PbInv /\ [Next]_vars
            => FreshInv' /\ PbInv'
  BY PbInductive
<1>3. TypeOK /\ OrderInv /\ AreaInv /\ [Next]_vars => AreaInv'
  BY AreaInductive
<1>4. TypeOK /\ SyncInv /\ OrderInv /\ [Next]_vars => OrderInv'
  BY OrderInductive
<1>5. ASSUME TypeOK, TypeOK', AreaInv', PbInv', [Next]_vars, NEW r \in Req,
             pb[r].state \in {"active", "merged"}, pb[r].type = "SA_STALEPX",
             pb'[r].state = "done"
      PROVE  \A e \in Marks(pb[r]) : Durable(e)'
  <2>1. pb'[r].type = pb[r].type /\ Marks(pb'[r]) = Marks(pb[r])
    BY <1>5, OnlyTurnLetsGo DEF Riding
  <2>2. Marks(pb[r]) \in Kept'
    <3>1. Recorded(r)'
      BY <1>5 DEF PbInv
    <3> QED
      BY <1>5, <2>1, <3>1 DEF Recorded
  <2>3. TypeOK' /\ AreaInv' => KeptLasts'
    BY KeptAreDurable, PTL
  <2> QED
    BY <1>5, <2>2, <2>3 DEF KeptLasts
<1>6. TypeOK /\ TypeOK' /\ AreaInv' /\ PbInv' /\ [Next]_vars =>
        [\A r \in Req :
           /\ pb[r].state \in {"active", "merged"} /\ pb[r].type = "SA_STALEPX"
           /\ pb'[r].state = "done"
           => \A e \in Marks(pb[r]) : Durable(e)']_vars
  BY <1>5
<1> QED
  BY <1>1, <1>2, <1>3, <1>4, <1>6, AreaInit, OrderInit, SyncInit, SyncInductive, TypeCorrect,
     PTL DEF Spec, AckIsDurable

-----------------------------------------------------------------------------
(* What is taken for stale on disk is.                                     *)

\* An extent that is stale and not changing is kept, from the end of activation on;
\* activation first spreads the area that it read.
StateInv ==
    /\ \A r \in Req : pb[r].state # "idle" => pb[r].type = "SA_STALEPX"
    /\ up = "down" => call = NoCall
    /\ conf.op # "CNFG_STALEPX"
    /\ up = "up" \/ (up = "starting" /\ conf = NoConf) =>
          \A e \in Ext : e_state[e] = {STALE} => {e} \in Kept
    /\ up = "starting" => \A e \in Ext : e_state[e] = {STALE} => e \in stale
    /\ up = "starting" /\ conf.op = "CNFG_INPROGRESS" => <<conf.seq, stale>> \in Carried

\* lv_stalepp_done: when the mirrors are no longer changing they are stale on disk.
LEMMA SchedulerKeepsState ==
  ASSUME ~MaySync, TypeOK, SyncInv, PbInv, StateInv, NEW r \in Req,
         WriteStart(r) \/ WriteDone(r) \/ SyncStart(r) \/ SyncDone(r) \/ Answer(r)
  PROVE  StateInv'
<1>1. Scheduled(r)
  BY SchedulerEffect
<1>2. /\ UNCHANGED <<stale, clock, disk, missing, pvols, up, conf, call>>
      /\ pb \in [Req -> Pbuf] /\ e_state \in [Ext -> SUBSET {STALE, CHANGING}]
      /\ \A q \in Req : q # r => pb'[q] = pb[q]
  BY <1>1 DEF Scheduled, Only, area, grp, TypeOK
<1>3. Kept' = Kept
  BY <1>2 DEF Kept, Carried, Spread, Usable
<1>4. up = "up"
  <2>1. pb[r].state = "idle" => up = "up"
    BY <1>1 DEF Scheduled
  <2> QED
    BY <2>1 DEF SyncInv
<1>5. pb'[r].state # "idle" => pb'[r].type = "SA_STALEPX"
  <2>1. CASE pb[r].state = "idle"
    <3>1. pb'[r].state = "io"
      BY <1>1, <2>1, NoPbIsPbuf DEF Scheduled
    <3>2. WriteStart(r)
      BY <2>1 DEF SyncStart, WriteDone, SyncDone, Answer
    <3>3. PICK lx \in LX : pb' = [pb EXCEPT ![r] = [NoPb EXCEPT !.state = "io", !.lx = lx,
                        !.type = "SA_STALEPX", !.act = MirrorsOf(lx) \ Missing(lx),
                        !.avoid = Missing(lx)]]
      BY <3>2 DEF WriteStart
    <3>4. Missing(lx) \in SUBSET Mirror /\ MirrorsOf(lx) \ Missing(lx) \in SUBSET Mirror
      BY DEF Missing, MirrorsOf
    <3> DEFINE q == IoOf("SA_STALEPX", lx, MirrorsOf(lx) \ Missing(lx), Missing(lx))
    <3>5. q.type = "SA_STALEPX"
      BY <3>4, IoPbuf
    <3>6. pb' = [pb EXCEPT ![r] = q]
      BY <3>3 DEF IoOf
    <3> HIDE DEF q
    <3> QED
      BY <1>2, <3>5, <3>6
  <2>2. CASE pb[r].state # "idle"
    <3>1. pb[r].type # "SA_FRESHPX"
      BY <2>2 DEF StateInv
    <3> QED
      BY <1>1, <2>2, <3>1, NoPbIsPbuf DEF Scheduled, Queued
  <2> QED
    BY <2>1, <2>2
<1>6. \A e \in Ext : e_state'[e] = {STALE} => {e} \in Kept
  <2> TAKE e \in Ext
  <2> HAVE e_state'[e] = {STALE}
  <2>1. CASE e_state'[e] = e_state[e]
    BY <1>4, <2>1 DEF StateInv
  <2>2. CASE Stamped(r) /\ e_state'[e] # e_state[e]
    <3>1. e_state'[e] = {STALE, CHANGING}
      BY <2>2 DEF Stamped
    <3> QED
      BY <3>1 DEF STALE, CHANGING
  <2>3. CASE pb[r].state = "done" /\ Settled(r) /\ e_state'[e] # e_state[e]
    <3>1. e[1] = pb[r].lx /\ e[2] \in pb[r].bad
      BY <2>3 DEF Settled
    <3>2. pb[r].type = "SA_STALEPX"
      BY <2>3 DEF StateInv
    <3>3. e \in Marks(pb[r])
      BY <3>1, <3>2, MarkIs
    <3>4. Marks(pb[r]) \in Kept
      BY <2>3, <3>2 DEF PbInv, Recorded
    <3>5. {e} \in SUBSET Marks(pb[r])
      BY <3>3
    <3> QED
      BY <3>4, <3>5, WhatIsKept
  <2>4. ~(pb[r].state = "io" /\ pb[r].type = "SA_FRESHPX")
    BY DEF StateInv
  <2>5. Stamped(r) \/ (pb[r].state = "done" /\ Settled(r)) \/ e_state' = e_state
    BY <1>1, <2>4 DEF Scheduled
  <2> QED
    BY <2>1, <2>2, <2>3, <2>5
<1> QED
  BY <1>2, <1>3, <1>4, <1>5, <1>6 DEF StateInv

\* lv_sa_continue: the write of all copies at activation returns when they hold what
\* was read.
LEMMA TurnKeepsState ==
  ASSUME TypeOK, RollInv, OrderInv, AreaInv, PbInv, StateInv, Turn
  PROVE  StateInv'
<1>1. /\ clock' = NewClock /\ UNCHANGED <<e_state, disk, up, call>>
      /\ Refused \/ (\E n \in Loc : Rolled(n)) \/ Spun
  BY TurnEffect
<1>2. stale' = stale /\ stale \in SUBSET Ext
  BY DEF Turn, StateInv, TypeOK
<1>3. Carried \subseteq Carried' /\ Kept \subseteq Kept'
  BY TurnKeepsPb
<1>4. /\ NewClock \in Nat \ {0} /\ clock \in Nat /\ ConfSeq.op \in {"CNFG_NOP", "CNFG_INPROGRESS"}
      /\ ConfSeq.op = "CNFG_NOP" => ConfSeq = conf
  BY ClockStep DEF TypeOK
<1>5. \A r \in Req : pb'[r].state # "idle" => pb'[r].type = "SA_STALEPX"
  <2>1. CASE Refused
    BY <2>1, NoPbIsPbuf DEF Refused, StateInv
  <2>2. CASE Spun
    BY <2>2 DEF Spun, StateInv
  <2>3. ASSUME NEW n \in Loc, Rolled(n), NEW r \in Req
        PROVE  pb'[r].state # "idle" => pb'[r].type = "SA_STALEPX"
    <3>1. pb[r] \in Pbuf
      BY DEF TypeOK
    <3>2. CASE LetGo(pb[r], n)
      <4>1. pb'[r] = DoneOf(pb[r]) /\ pb[r].state # "idle"
        BY <2>3, <3>2 DEF Rolled, LetGo
      <4> QED
        BY <3>1, <4>1, DonePbuf DEF StateInv
    <3>3. CASE ~LetGo(pb[r], n)
      BY <2>3, <3>3 DEF Rolled, StateInv
    <3> QED
      BY <3>2, <3>3
  <2> QED
    BY <1>1, <2>1, <2>2, <2>3
<1>6. conf'.op # "CNFG_STALEPX"
  <2>1. ConfSeq.op # "CNFG_STALEPX" /\ NoConf.op # "CNFG_STALEPX"
    BY <1>4 DEF NoConf
  <2> QED
    BY <1>1, <2>1 DEF Refused, Rolled, Spun
<1>7. up = "starting" /\ ConfSeq.op = "CNFG_INPROGRESS" => <<ConfSeq.seq, stale>> \in Carried'
  <2>1. CASE ConfPending
    <3>1. ConfSeq.seq = clock + 1
      BY <2>1 DEF ConfSeq, NewClock, TypeOK
    <3>2. \A l \in Loc : ~(clock + 1 <= disk[l].ts)
      <4>1. \A l \in Loc : disk[l].ts \in 0 .. clock
        BY DEF TypeOK
      <4> QED
        BY <1>4, <4>1
    <3>3. <<clock + 1, stale>> \in (Nat \ {0}) \X SUBSET Ext
      BY <1>2, <1>4
    <3> QED
      BY <1>1, <1>2, <3>1, <3>2, <3>3 DEF Carried
  <2>2. CASE ~ConfPending
    BY <1>3, <2>2 DEF ConfSeq, StateInv
  <2> QED
    BY <2>1, <2>2
<1>8. conf'.op = "CNFG_INPROGRESS" => conf' = ConfSeq
  <2>1. NoConf.op # "CNFG_INPROGRESS"
    BY DEF NoConf
  <2> QED
    BY <1>1, <2>1 DEF Refused, Rolled, Spun
<1>9. up = "starting" /\ conf' = NoConf => \A e \in Ext : e_state[e] = {STALE} => {e} \in Kept'
  <2> SUFFICES ASSUME up = "starting", conf' = NoConf, NEW e \in Ext, e_state[e] = {STALE}
               PROVE  {e} \in Kept'
    OBVIOUS
  <2>1. e \in stale
    BY DEF StateInv
  <2>2. CASE ConfSeq = NoConf
    <3>1. conf = NoConf
      BY <1>4, <2>2 DEF NoConf
    <3> QED
      BY <1>3, <3>1 DEF StateInv
  <2>3. CASE ConfSeq # NoConf
    <3>1. PICK n \in Loc : Rolled(n)
      BY <1>1, <2>3 DEF Refused, Spun
    <3>2. ConfSeq.op = "CNFG_INPROGRESS" /\ ConfSeq.seq <= saseq[n]
      BY <2>3, <3>1 DEF Rolled
    <3>3. saseq[n] \in Nat /\ saseq[n] <= clock
      BY DEF TypeOK
    <3>4. <<ConfSeq.seq, stale>> \in Carried'
      BY <1>7, <3>2
    <3>5. ConfSeq.seq \in Nat \ {0}
      BY <3>4 DEF Carried
    <3>6. ConfSeq.seq \in 1 .. saseq[n]
      BY <3>2, <3>3, <3>5
    <3>7. ConfSeq.seq \in Spread'
      BY <3>1, <3>6, LetGoIsSpread
    <3>8. {e} \subseteq stale' /\ \A l \in Loc : ConfSeq.seq <= disk'[l].ts => {e} \subseteq disk'[l].stale
      BY <1>2, <2>1, <3>4 DEF Carried
    <3>9. <<ConfSeq.seq, {e}>> \in (Nat \ {0}) \X SUBSET Ext
      BY <3>5
    <3>10. <<ConfSeq.seq, {e}>> \in Carried'
      BY <3>8, <3>9 DEF Carried
    <3> QED
      BY <3>7, <3>10 DEF Kept
  <2> QED
    BY <2>2, <2>3
<1>10. up = "up" => \A e \in Ext : e_state[e] = {STALE} => {e} \in Kept'
  BY <1>3 DEF StateInv
<1> QED
  BY <1>1, <1>2, <1>5, <1>6, <1>7, <1>8, <1>9, <1>10 DEF StateInv

\* Every action keeps the states of the extents true to the disks.
LEMMA StateInductive ==
  ASSUME ~MaySync, Commands = {}
  PROVE  TypeOK /\ SyncInv /\ RollInv /\ OrderInv /\ AreaInv /\ PbInv /\ StateInv
            /\ [Next]_vars => StateInv'
<1> SUFFICES ASSUME TypeOK, SyncInv, RollInv, OrderInv, AreaInv, PbInv, StateInv, [Next]_vars
             PROVE  StateInv'
  OBVIOUS
<1>1. CASE UNCHANGED vars
  <2>1. UNCHANGED <<pb, e_state, up, conf, call, stale, clock, disk, missing, pvols>>
    BY <1>1 DEF vars, io, area, grp
  <2>2. Carried' = Carried /\ Kept' = Kept
    BY <2>1 DEF Carried, Kept, Spread, Usable
  <2> QED
    BY <2>1, <2>2 DEF StateInv
<1>2. ASSUME NEW r \in Req,
             WriteStart(r) \/ WriteDone(r) \/ SyncStart(r) \/ SyncDone(r) \/ Answer(r)
      PROVE  StateInv'
  BY <1>2, SchedulerKeepsState
<1>3. CASE Enter
  <2>1. PICK r \in Req : Taken(r)
    BY <1>3, EnterEffect
  <2>2. UNCHANGED <<e_state, clock, saseq, disk, missing, conf, call, grp>>
    BY <1>3, EnterEffect
  <2>3. pb[r].type = "SA_STALEPX" /\ up = "up" /\ pb'[r].type = pb[r].type
        /\ \A q \in Req : q # r => pb'[q] = pb[q]
    BY <2>1 DEF Taken, Only, StateInv, SyncInv, TypeOK
  <2>4. stale \subseteq stale'
    BY <2>1, <2>3 DEF Taken, Joined, Entered
  <2>5. Kept \subseteq Kept'
    <3>1. Usable' = Usable /\ clock' \in Nat /\ clock <= clock' /\ disk' = disk
      BY <2>2 DEF Usable, grp, TypeOK
    <3>2. \A c \in Carried : c[2] \subseteq stale'
      BY <2>4 DEF Carried
    <3>3. Carried \subseteq Carried' /\ Spread \subseteq Spread'
      BY <3>1, <3>2, DisksStay
    <3> QED
      BY <3>3, WhatIsKept
  <2>6. \A q \in Req : pb'[q].state # "idle" => pb'[q].type = "SA_STALEPX"
    BY <2>3 DEF StateInv
  <2> QED
    BY <2>2, <2>3, <2>5, <2>6 DEF StateInv, grp
<1>4. CASE Turn
  BY <1>4, TurnKeepsState
<1>5. CASE WriteArea
  <2>1. wheel \in Usable /\ UNCHANGED <<pb, e_state, stale, conf, call, up>>
    BY <1>5 DEF WriteArea, AreaInv, io
  <2>2. Carried \subseteq Carried' /\ Kept \subseteq Kept'
    BY <1>5, <2>1, WriteKeeps
  <2> QED
    BY <2>1, <2>2 DEF StateInv
<1>6. CASE Command
  BY <1>6 DEF Command, SaConfig
<1>7. CASE ConfigReturn
  <2>1. call.what \notin {"attach", "delete", "extend"} /\ call # NoCall /\ conf = NoConf
    BY <1>7 DEF ConfigReturn, TypeOK
  <2>2. /\ UNCHANGED <<pb, stale, clock, disk, missing, pvols, conf>> /\ up' = "up"
        /\ \A e \in Ext : e_state'[e] = e_state[e]
    BY <1>7, <2>1 DEF ConfigReturn, area
  <2>3. Kept' = Kept
    BY <2>2 DEF Carried, Kept, Spread, Usable
  <2>4. up = "up" \/ up = "starting"
    BY <2>1 DEF StateInv, TypeOK
  <2>5. \A e \in Ext : e_state[e] = {STALE} => {e} \in Kept
    BY <2>1, <2>4 DEF StateInv
  <2> QED
    BY <2>2, <2>3, <2>5 DEF StateInv
<1>8. CASE Crash
  <2>1. pb' = [r \in Req |-> NoPb] /\ up' = "down" /\ conf' = NoConf /\ call' = NoCall
    BY <1>8 DEF Crash
  <2>2. NoConf.op = "CNFG_NOP"
    BY DEF NoConf
  <2> QED
    BY <2>1, <2>2, NoPbIsPbuf DEF StateInv
<1>9. CASE Activate
  <2>1. up' = "starting" /\ conf'.op = "CNFG_SYNCWRITE" /\ pb' = pb
    BY <1>9 DEF Activate
  <2>2. conf' # NoConf
    BY <2>1 DEF NoConf
  <2>3. \A e \in Ext : e_state'[e] = {STALE} => e \in stale'
    BY <1>9 DEF Activate
  <2>4. \A r \in Req : pb'[r].state # "idle" => pb'[r].type = "SA_STALEPX"
    BY <2>1 DEF StateInv
  <2> QED
    BY <2>1, <2>2, <2>3, <2>4 DEF StateInv
<1> QED
  BY <1>1, <1>2, <1>3, <1>4, <1>5, <1>6, <1>7, <1>8, <1>9 DEF Next

\* lv_stalepp does not wait for a mirror that is stale and not changing: without
\* resynchronisations and commands such a mirror is stale on the disks, whatever PVs
\* fail and wherever the system crashes.
THEOREM StaleStaysDurable ==
  ASSUME BlocksTellExtents, Commands = {}, ~MaySync
  PROVE  Spec => []StaleIsDurable
<1>0. Commands \subseteq {"extend"} /\ "attach" \notin Commands
  OBVIOUS
<1>1. Init => StateInv
  <2>1. NoConf.op = "CNFG_NOP"
    BY DEF NoConf
  <2>2. Init => /\ \A r \in Req : pb[r].state = "idle"
                /\ up = "up" /\ conf = NoConf
                /\ \A e \in Ext : e_state[e] = {}
    BY NoPbIsPbuf DEF Init
  <2>3. Init => \A e \in Ext : e_state[e] # {STALE}
    BY <2>2
  <2> QED
    BY <2>1, <2>2, <2>3 DEF StateInv
<1>2. TypeOK /\ SyncInv /\ OrderInv /\ AreaInv /\ FreshInv /\ PbInv /\ [Next]_vars
            => FreshInv' /\ PbInv'
  BY <1>0, PbInductive
<1>3. TypeOK /\ OrderInv /\ AreaInv /\ [Next]_vars => AreaInv'
  BY <1>0, AreaInductive
<1>4. TypeOK /\ SyncInv /\ OrderInv /\ [Next]_vars => OrderInv'
  BY <1>0, OrderInductive
<1>5. TypeOK /\ SyncInv /\ RollInv /\ OrderInv /\ AreaInv /\ PbInv /\ StateInv
            /\ [Next]_vars => StateInv'
  BY StateInductive
<1>6. TypeOK /\ AreaInv /\ StateInv => StaleIsDurable
  <2> SUFFICES ASSUME TypeOK, AreaInv, StateInv, up = "up", NEW e \in used,
                      e_state[e] = {STALE}
               PROVE  Durable(e)
    BY DEF StaleIsDurable
  <2>1. e \in Ext /\ e \in {e}
    BY DEF TypeOK
  <2>2. {e} \in Kept
    BY <2>1 DEF StateInv
  <2> QED
    BY <2>1, <2>2, KeptIsDurable DEF AreaInv
<1> QED
  BY <1>1, <1>2, <1>3, <1>4, <1>5, <1>6, AreaInit, OrderInit, SyncInit, SyncInductive,
     RollInit, RollInductive, PbInit, TypeCorrect, PTL DEF Spec
====
