-------------------------- MODULE LvStrategyProofs --------------------------
(***************************************************************************)
(* Proofs about LvStrategy, for any number of requests, threads, pages,    *)
(* extents and hash chains: type correctness, and that overlapping         *)
(* requests are served one at a time and in order of arrival, that a       *)
(* paused volume is quiet, that lv_complcnt is exact, that nobody is left  *)
(* on the queue, that resynchronisations keep their place, and that        *)
(* LvStrategy implements LvPageLocks.                                      *)
(***************************************************************************)
EXTENDS LvStrategy, FiniteSetTheorems, SequenceTheorems, TLAPS

-----------------------------------------------------------------------------
(* Arithmetic of track groups, and the sets the counts are about.          *)

\* The size of the volume is a natural number.
LEMMA LvSizeType == LvSize \in Nat
  BY StrategyAssumption DEF LvSize

\* LV_HASH of any block of the volume selects a chain of work_Q.
LEMMA HashType == \A l \in LTGs : Hash(l) \in Chains
  BY StrategyAssumption, LvSizeType DEF Hash, LTGs, Chains

\* A track of an extent is an LTG of the volume (lv_syncx).
LEMMA TrackType ==
  \A x \in Exts, t \in Trks : x * TrksPerExt + t \in LTGs
<1> SUFFICES ASSUME NEW x \in Exts, NEW t \in Trks
             PROVE  x * TrksPerExt + t \in 0 .. NumExts * TrksPerExt
  BY DEF LTGs, LvSize
<1>1. /\ x \in Nat /\ t \in Nat /\ NumExts \in Nat /\ TrksPerExt \in Nat
      /\ x + 1 <= NumExts /\ t <= TrksPerExt
  BY StrategyAssumption DEF Exts, Trks
<1>2. PICK d \in Nat : NumExts = x + 1 + d
  <2>1. NumExts - (x + 1) \in Nat
    BY <1>1
  <2> QED
    BY <1>1, <2>1
<1>3. NumExts * TrksPerExt = x * TrksPerExt + TrksPerExt + d * TrksPerExt
  BY <1>1, <1>2
<1>4. x * TrksPerExt \in Nat /\ d * TrksPerExt \in Nat
  BY <1>1, <1>2
<1> QED
  BY <1>1, <1>3, <1>4

\* Finitely many requests are in progress.
LEMMA InProgressFinite ==
  /\ IsFiniteSet(InProgress)
  /\ Cardinality(InProgress) \in Nat
  /\ Cardinality(InProgress) = 0 <=> InProgress = {}
<1>1. IsFiniteSet(Reqs)
  BY FS_AddElement, StrategyAssumption DEF Reqs
<1>2. IsFiniteSet(InProgress)
  BY <1>1, FS_Subset DEF InProgress
<1> QED
  BY <1>2, FS_CardinalityType, FS_EmptySet

\* What lv_unblock's unlinking does to a chain: the entries behind move up.
LEMMA RemoveAtDef ==
  ASSUME NEW S, NEW s \in Seq(S), NEW i \in 1 .. Len(s)
  PROVE  /\ RemoveAt(s, i) \in Seq(S)
         /\ Len(RemoveAt(s, i)) = Len(s) - 1
         /\ \A k \in 1 .. Len(s) - 1 :
               RemoveAt(s, i)[k] = IF k < i THEN s[k] ELSE s[k + 1]
<1>1. Len(s) \in Nat
  BY LenProperties
<1>2. /\ SubSeq(s, 1, i - 1) \in Seq(S)
      /\ Len(SubSeq(s, 1, i - 1)) = i - 1
      /\ \A k \in 1 .. i - 1 : SubSeq(s, 1, i - 1)[k] = s[k]
  BY <1>1
<1>3. /\ SubSeq(s, i + 1, Len(s)) \in Seq(S)
      /\ Len(SubSeq(s, i + 1, Len(s))) = Len(s) - i
      /\ \A k \in 1 .. Len(s) - i : SubSeq(s, i + 1, Len(s))[k] = s[i + k]
  BY <1>1
<1>4. PICK a, b, c : /\ a = SubSeq(s, 1, i - 1)
                     /\ b = SubSeq(s, i + 1, Len(s))
                     /\ c = a \o b
  OBVIOUS
<1>5. a \in Seq(S) /\ b \in Seq(S)
  BY <1>2, <1>3, <1>4, Zenon
<1>6. /\ c \in Seq(S)
      /\ Len(c) = Len(a) + Len(b)
      /\ \A k \in 1 .. Len(a) + Len(b) :
            c[k] = IF k <= Len(a) THEN a[k] ELSE b[k - Len(a)]
  BY <1>4, <1>5, ConcatProperties, Zenon
<1>7. /\ Len(a) = i - 1 /\ Len(b) = Len(s) - i
      /\ \A k \in 1 .. i - 1 : a[k] = s[k]
      /\ \A k \in 1 .. Len(s) - i : b[k] = s[i + k]
  BY <1>2, <1>3, <1>4, Zenon
<1>8. RemoveAt(s, i) = c
  BY <1>4 DEF RemoveAt
<1>9. \A k \in 1 .. Len(s) - 1 : c[k] = IF k < i THEN s[k] ELSE s[k + 1]
  <2> SUFFICES ASSUME NEW k \in 1 .. Len(s) - 1
               PROVE  c[k] = IF k < i THEN s[k] ELSE s[k + 1]
    OBVIOUS
  <2>1. c[k] = IF k <= i - 1 THEN a[k] ELSE b[k - (i - 1)]
    BY <1>1, <1>6, <1>7
  <2>2. CASE k < i
    BY <1>1, <1>7, <2>1, <2>2
  <2>3. CASE ~(k < i)
    <3>1. k - (i - 1) \in 1 .. Len(s) - i /\ i + (k - (i - 1)) = k + 1
      BY <1>1, <2>3
    <3> QED
      BY <1>1, <1>7, <2>1, <2>3, <3>1
  <2> QED
    BY <2>2, <2>3
<1> QED
  BY <1>1, <1>6, <1>7, <1>8, <1>9

-----------------------------------------------------------------------------
(* The inductive invariant.                                                *)

\* Where the administrator's command is goes with the status of the volume.
CommandOK ==
    /\ lvStatus = "open" <=> cfg \in {"idle", "copied"}
    /\ lvStatus = "pausing" <=> cfg \in {"asleep", "awake"}

\* The chains say who came first; the count and the status say who may go on.
OrderInv == Chained /\ NoOvertaking /\ BlockedForCause
PauseInv == PausedIsQuiet /\ PauseCount /\ CommandOK

IInv == TypeOK /\ OrderInv /\ PauseInv

-----------------------------------------------------------------------------
(* The effect of lv_block and lv_complete on chains and phases.            *)

\* lv_block: the new request is last on its chain, and the rest is as it was.
LEMMA BlockEffect ==
  ASSUME TypeOK, NEW r \in Reqs, NEW a \in Request, phase[r] = "free",
         Block(r, a)
  PROVE  \E c \in Chains, n \in Nat :
         /\ c = Hash(a.ltg) /\ n = Len(workQ[c]) + 1
         /\ workQ' \in [Chains -> Seq(Reqs)]
         /\ \A d \in Chains \ {c} : workQ'[d] = workQ[d]
         /\ Len(workQ'[c]) = n
         /\ \A k \in 1 .. Len(workQ[c]) : workQ'[c][k] = workQ[c][k]
         /\ workQ'[c][n] = r
         /\ buf' \in [Reqs -> Request] /\ buf'[r] = a
         /\ phase' \in [Reqs -> Phases] /\ phase'[r] \in {"blocked", "ready"}
         /\ phase'[r] = "blocked" <=> lvStatus # "open" \/ Conflicts(workQ[c], n, a)
         /\ \A x \in Reqs \ {r} : phase'[x] = phase[x] /\ buf'[x] = buf[x]
<1> DEFINE c == Hash(a.ltg)
           q == workQ[c]
<1>1. c \in Chains
  BY HashType DEF Request
<1>2. q \in Seq(Reqs)
  BY <1>1 DEF TypeOK
<1>3. /\ workQ' = [workQ EXCEPT ![c] = Append(q, r)]
      /\ buf' = [buf EXCEPT ![r] = a]
      /\ phase' = [phase EXCEPT ![r] =
            IF lvStatus # "open" \/ Conflicts(q, Len(q) + 1, a)
            THEN "blocked" ELSE "ready"]
  BY DEF Block
<1>4. workQ \in [Chains -> Seq(Reqs)] /\ buf \in [Reqs -> Request]
      /\ phase \in [Reqs -> Phases]
  BY DEF TypeOK
<1>5. /\ Append(q, r) \in Seq(Reqs)
      /\ Len(Append(q, r)) = Len(q) + 1
      /\ \A k \in 1 .. Len(q) : Append(q, r)[k] = q[k]
      /\ Append(q, r)[Len(q) + 1] = r
  BY <1>2, AppendProperties
<1>6. \A d \in Chains : workQ'[d] = IF d = c THEN Append(q, r) ELSE workQ[d]
  BY <1>1, <1>3, <1>4
<1>7. workQ' \in [Chains -> Seq(Reqs)]
  BY <1>3, <1>4, <1>5
<1> HIDE DEF c, q
<1>8. /\ buf' \in [Reqs -> Request] /\ buf'[r] = a
      /\ \A x \in Reqs \ {r} : buf'[x] = buf[x]
  BY <1>3, <1>4
<1>9. /\ phase' \in [Reqs -> Phases]
      /\ phase'[r] = IF lvStatus # "open" \/ Conflicts(q, Len(q) + 1, a)
                     THEN "blocked" ELSE "ready"
      /\ \A x \in Reqs \ {r} : phase'[x] = phase[x]
  BY <1>3, <1>4 DEF Phases
<1>10. \A d \in Chains \ {c} : workQ'[d] = workQ[d]
  BY <1>6
<1>11. workQ'[c] = Append(q, r)
  BY <1>1, <1>6
<1>12. PICK n \in Nat : n = Len(q) + 1
  BY <1>2
<1>13. phase'[r] \in {"blocked", "ready"}
       /\ (phase'[r] = "blocked" <=> lvStatus # "open" \/ Conflicts(q, n, a))
  BY <1>9, <1>12
<1>14. /\ Len(workQ'[c]) = n
       /\ \A k \in 1 .. Len(q) : workQ'[c][k] = q[k]
       /\ workQ'[c][n] = r
  BY <1>5, <1>11, <1>12
<1> QED
  BY <1>1, <1>7, <1>8, <1>9, <1>10, <1>12, <1>13, <1>14, Zenon DEF c, q

\* The requests lv_unblock releases were blocked, are behind the place of the
\* finished one, and conflict with nothing in front of them.
LEMMA CompleteEffect ==
  ASSUME TypeOK, Chained, NEW r \in Reqs, phase[r] # "free", Complete(r)
  PROVE  \E c \in Chains, i \in Nat, q \in Seq(Reqs) :
         /\ i \in 1 .. Len(workQ[c])
         /\ c = Hash(buf[r].ltg) /\ workQ[c][i] = r
         /\ Len(q) = Len(workQ[c]) - 1
         /\ \A k \in 1 .. Len(q) :
               q[k] = IF k < i THEN workQ[c][k] ELSE workQ[c][k + 1]
         /\ workQ' = [workQ EXCEPT ![c] = q]
         /\ buf' = [buf EXCEPT ![r] = NoRequest]
         /\ phase' = [x \in Reqs |->
               IF x = r THEN "free"
               ELSE IF x \in (IF lvStatus = "pausing" THEN {} ELSE Unblocked(q, i))
                    THEN "ready" ELSE phase[x]]
<1> DEFINE c == Hash(buf[r].ltg)
           i == CHOOSE k \in DOMAIN workQ[c] : workQ[c][k] = r
<1>1. c \in Chains
  BY HashType DEF TypeOK, Request
<1>2. workQ[c] \in Seq(Reqs)
  BY <1>1 DEF TypeOK
<1>3. \E k \in DOMAIN workQ[c] : workQ[c][k] = r
  BY DEF Chained
<1>4. i \in DOMAIN workQ[c] /\ workQ[c][i] = r
  BY <1>3
<1>5. i \in 1 .. Len(workQ[c])
  BY <1>2, <1>4
<1> DEFINE q == RemoveAt(workQ[c], i)
<1>6. /\ workQ' = [workQ EXCEPT ![c] = q]
      /\ buf' = [buf EXCEPT ![r] = NoRequest]
      /\ phase' = [x \in Reqs |->
            IF x = r THEN "free"
            ELSE IF x \in (IF lvStatus = "pausing" THEN {} ELSE Unblocked(q, i))
                 THEN "ready" ELSE phase[x]]
  BY Zenon DEF Complete, Released
<1> HIDE DEF c, i
<1>7. /\ q \in Seq(Reqs) /\ Len(q) = Len(workQ[c]) - 1
      /\ \A k \in 1 .. Len(workQ[c]) - 1 :
            q[k] = IF k < i THEN workQ[c][k] ELSE workQ[c][k + 1]
  BY <1>2, <1>5, RemoveAtDef
<1> HIDE DEF q
<1>8. c = Hash(buf[r].ltg)
  BY DEF c
<1>9. \A k \in 1 .. Len(q) :
         q[k] = IF k < i THEN workQ[c][k] ELSE workQ[c][k + 1]
  BY <1>7, Zenon
<1>10. i \in Nat
  BY <1>5
<1> QED
  BY <1>1, <1>4, <1>5, <1>6, <1>7, <1>8, <1>9, <1>10, Zenon

-----------------------------------------------------------------------------
(* The order on the chains.                                                *)

\* A request whose position on its chain, pages and phase class do not change
\* keeps its place in the order.
LEMMA OrderFrame ==
  ASSUME TypeOK, TypeOK', OrderInv, workQ' = workQ,
         \A x \in Reqs : /\ buf'[x].ltg = buf[x].ltg
                         /\ buf'[x].pages = buf[x].pages
                         /\ phase'[x] = "free" <=> phase[x] = "free"
                         /\ phase'[x] = "blocked" => phase[x] = "blocked"
                         /\ phase[x] = "blocked" => phase'[x] = "blocked",
         lvStatus' = "open" => lvStatus = "open"
  PROVE  OrderInv'
<1> USE DEF OrderInv
<1>1. \A c \in Chains : workQ[c] \in Seq(Reqs)
  BY DEF TypeOK
<1>2. \A c \in Chains : \A j \in DOMAIN workQ[c] : workQ[c][j] \in Reqs
  BY <1>1
<1>3. Chained'
  <2>1. \A r \in Reqs : Hash(buf'[r].ltg) = Hash(buf[r].ltg)
    OBVIOUS
  <2> QED
    BY <1>2, <2>1 DEF Chained
<1>4. \A c \in Chains : \A j \in DOMAIN workQ[c] :
         Conflicts(workQ[c], j, buf[workQ[c][j]])'
            <=> Conflicts(workQ[c], j, buf[workQ[c][j]])
  <2> SUFFICES ASSUME NEW c \in Chains, NEW j \in DOMAIN workQ[c]
               PROVE  Conflicts(workQ[c], j, buf[workQ[c][j]])'
                         <=> Conflicts(workQ[c], j, buf[workQ[c][j]])
    OBVIOUS
  <2>1. \A k \in 1 .. j - 1 : workQ[c][k] \in Reqs
    BY <1>1
  <2> QED
    BY <1>2, <2>1 DEF Conflicts, Overlap
<1>5. NoOvertaking'
  BY <1>2, <1>4 DEF NoOvertaking, InProgress
<1>6. BlockedForCause'
  BY <1>2, <1>4 DEF BlockedForCause
<1> QED
  BY <1>3, <1>5, <1>6

\* A request that lv_block links is last, and is held back if it must be.
LEMMA BlockOrder ==
  ASSUME TypeOK, OrderInv, NEW r \in Reqs, NEW a \in Request,
         phase[r] = "free", Block(r, a), lvStatus' = lvStatus
  PROVE  OrderInv'
<1> USE DEF OrderInv
<1>1. PICK c \in Chains, n \in Nat :
      /\ c = Hash(a.ltg) /\ n = Len(workQ[c]) + 1
      /\ workQ' \in [Chains -> Seq(Reqs)]
      /\ \A d \in Chains \ {c} : workQ'[d] = workQ[d]
      /\ Len(workQ'[c]) = n
      /\ \A k \in 1 .. Len(workQ[c]) : workQ'[c][k] = workQ[c][k]
      /\ workQ'[c][n] = r
      /\ buf' \in [Reqs -> Request] /\ buf'[r] = a
      /\ phase' \in [Reqs -> Phases] /\ phase'[r] \in {"blocked", "ready"}
      /\ phase'[r] = "blocked" <=> lvStatus # "open" \/ Conflicts(workQ[c], n, a)
      /\ \A x \in Reqs \ {r} : phase'[x] = phase[x] /\ buf'[x] = buf[x]
  BY BlockEffect
<1>2. \A d \in Chains : workQ[d] \in Seq(Reqs) /\ Len(workQ[d]) \in Nat
                        /\ DOMAIN workQ[d] = 1 .. Len(workQ[d])
  BY DEF TypeOK
<1>3. \A d \in Chains : DOMAIN workQ'[d] = 1 .. Len(workQ'[d])
  BY <1>1
<1>4. \A d \in Chains : \A j \in 1 .. Len(workQ[d]) :
         /\ workQ[d][j] \in Reqs \ {r}
         /\ j \in 1 .. Len(workQ'[d]) /\ workQ'[d][j] = workQ[d][j]
  <2>1. \A d \in Chains : \A j \in 1 .. Len(workQ[d]) : workQ[d][j] \in Reqs
    BY <1>2
  <2>2. \A d \in Chains : \A j \in 1 .. Len(workQ[d]) : workQ[d][j] # r
    BY <1>2 DEF Chained
  <2>3. \A d \in Chains : \A j \in 1 .. Len(workQ[d]) :
           j \in 1 .. Len(workQ'[d]) /\ workQ'[d][j] = workQ[d][j]
    <3> SUFFICES ASSUME NEW d \in Chains, NEW j \in 1 .. Len(workQ[d])
                 PROVE  j \in 1 .. Len(workQ'[d]) /\ workQ'[d][j] = workQ[d][j]
      OBVIOUS
    <3>1. CASE d = c
      BY <1>1, <1>2, <3>1
    <3>2. CASE d # c
      BY <1>1, <1>2, <3>2
    <3> QED
      BY <3>1, <3>2
  <2> QED
    BY <2>1, <2>2, <2>3
<1>5. \A x \in Reqs \ {r} : phase'[x] = phase[x] /\ buf'[x] = buf[x]
  BY <1>1, Zenon
<1>6. \A d \in Chains : \A j \in 1 .. Len(workQ'[d]) :
         j \in 1 .. Len(workQ[d]) \/ (d = c /\ j = n)
  BY <1>1, <1>2
<1>7. n \in Nat /\ n \notin 1 .. Len(workQ[c]) /\ n \in 1 .. Len(workQ'[c])
  BY <1>1, <1>2
<1>8. Chained'
  <2>1. ASSUME NEW x \in Reqs, phase'[x] # "free"
        PROVE  \E j \in DOMAIN workQ'[Hash(buf'[x].ltg)] :
                  workQ'[Hash(buf'[x].ltg)][j] = x
    <3>1. CASE x = r
      BY <1>1, <1>3, <1>7, <3>1
    <3>2. CASE x # r
      <4>1. phase[x] # "free" /\ buf'[x] = buf[x]
        BY <1>1, <2>1, <3>2
      <4>2. Hash(buf[x].ltg) \in Chains
        BY HashType DEF TypeOK, Request
      <4>3. PICK d \in Chains : d = Hash(buf[x].ltg)
        BY <4>2
      <4>4. PICK j \in 1 .. Len(workQ[d]) : workQ[d][j] = x
        BY <1>2, <4>1, <4>3 DEF Chained
      <4>5. j \in DOMAIN workQ'[d] /\ workQ'[d][j] = x
        BY <1>3, <1>4, <4>4
      <4> QED
        BY <4>1, <4>3, <4>5
    <3> QED
      BY <3>1, <3>2
  <2>2. ASSUME NEW d \in Chains, NEW j \in DOMAIN workQ'[d]
        PROVE  /\ phase'[workQ'[d][j]] # "free"
               /\ Hash(buf'[workQ'[d][j]].ltg) = d
               /\ \A k \in DOMAIN workQ'[d] : workQ'[d][k] = workQ'[d][j] => k = j
    <3>1. CASE j \in 1 .. Len(workQ[d])
      <4>1. /\ workQ'[d][j] = workQ[d][j] /\ workQ[d][j] \in Reqs \ {r}
            /\ j \in DOMAIN workQ[d]
        BY <1>2, <1>4, <3>1
      <4>2. phase'[workQ'[d][j]] # "free" /\ Hash(buf'[workQ'[d][j]].ltg) = d
        BY <1>1, <4>1, SMTT(30) DEF Chained
      <4>3. ASSUME NEW k \in DOMAIN workQ'[d], workQ'[d][k] = workQ'[d][j]
            PROVE  k = j
        <5>1. k \in 1 .. Len(workQ[d])
          BY <1>1, <1>3, <1>6, <4>1, <4>3
        <5>2. workQ[d][k] = workQ[d][j] /\ k \in DOMAIN workQ[d]
          BY <1>2, <1>4, <4>1, <4>3, <5>1
        <5> QED
          BY <4>1, <5>2 DEF Chained
      <4> QED
        BY <4>2, <4>3
    <3>2. CASE d = c /\ j = n
      <4>1. workQ'[d][j] = r
        BY <1>1, <3>2
      <4>2. phase'[r] # "free" /\ Hash(buf'[r].ltg) = d
        BY <1>1, <3>2
      <4>3. ASSUME NEW k \in DOMAIN workQ'[d], workQ'[d][k] = r
            PROVE  k = j
        BY <1>3, <1>4, <1>6, <3>2, <4>3
      <4> QED
        BY <4>1, <4>2, <4>3
    <3> QED
      BY <1>3, <1>6, <2>2, <3>1, <3>2
  <2> QED
    BY <2>1, <2>2 DEF Chained
<1>9. ASSUME NEW d \in Chains, NEW j \in 1 .. Len(workQ[d])
      PROVE  Conflicts(workQ[d], j, buf[workQ[d][j]])'
                <=> Conflicts(workQ[d], j, buf[workQ[d][j]])
  <2>1. \A k \in 1 .. j - 1 : k \in 1 .. Len(workQ[d])
    BY <1>2
  <2>2. \A k \in 1 .. j - 1 : /\ workQ'[d][k] = workQ[d][k]
                             /\ buf'[workQ'[d][k]] = buf[workQ[d][k]]
    BY <1>4, <1>5, <2>1
  <2>3. workQ'[d][j] = workQ[d][j] /\ buf'[workQ'[d][j]] = buf[workQ[d][j]]
    BY <1>4, <1>5
  <2> QED
    BY <2>2, <2>3 DEF Conflicts
<1>10. Conflicts(workQ[c], n, buf[workQ[c][n]])' <=> Conflicts(workQ[c], n, a)
  <2>1. \A k \in 1 .. n - 1 : k \in 1 .. Len(workQ[c])
    BY <1>1, <1>2
  <2>2. \A k \in 1 .. n - 1 : /\ workQ'[c][k] = workQ[c][k]
                             /\ buf'[workQ'[c][k]] = buf[workQ[c][k]]
    BY <1>4, <1>5, <2>1
  <2>3. buf'[workQ'[c][n]] = a
    BY <1>1
  <2> QED
    BY <2>2, <2>3 DEF Conflicts
<1>11. NoOvertaking'
  <2> SUFFICES ASSUME NEW d \in Chains, NEW j \in 1 .. Len(workQ'[d]),
                      workQ'[d][j] \in InProgress'
               PROVE  ~Conflicts(workQ[d], j, buf[workQ[d][j]])'
    BY <1>3 DEF NoOvertaking
  <2>1. CASE j \in 1 .. Len(workQ[d])
    <3>1. /\ workQ'[d][j] = workQ[d][j] /\ workQ[d][j] \in Reqs \ {r}
          /\ j \in DOMAIN workQ[d]
      BY <1>2, <1>4, <2>1
    <3>2. workQ[d][j] \in InProgress
      BY <1>1, <3>1 DEF InProgress
    <3> QED
      BY <1>9, <2>1, <3>1, <3>2 DEF NoOvertaking
  <2>2. CASE d = c /\ j = n
    BY <1>1, <1>10, <2>2 DEF InProgress
  <2> QED
    BY <1>6, <2>1, <2>2
<1>12. BlockedForCause'
  <2> SUFFICES ASSUME lvStatus = "open",
                      NEW d \in Chains, NEW j \in 1 .. Len(workQ'[d]),
                      phase'[workQ'[d][j]] = "blocked"
               PROVE  Conflicts(workQ[d], j, buf[workQ[d][j]])'
    BY <1>3 DEF BlockedForCause
  <2>1. CASE j \in 1 .. Len(workQ[d])
    <3>1. /\ workQ'[d][j] = workQ[d][j] /\ workQ[d][j] \in Reqs \ {r}
          /\ j \in DOMAIN workQ[d]
      BY <1>2, <1>4, <2>1
    <3>2. phase[workQ[d][j]] = "blocked"
      BY <1>1, <3>1
    <3> QED
      BY <1>9, <2>1, <3>1, <3>2 DEF BlockedForCause
  <2>2. CASE d = c /\ j = n
    BY <1>1, <1>10, <2>2
  <2> QED
    BY <1>6, <2>1, <2>2
<1> QED
  BY <1>8, <1>11, <1>12

\* When a request is unlinked, those behind it on its chain move up, and
\* while the volume runs, those it alone held back are released.
LEMMA CompleteOrder ==
  ASSUME TypeOK, OrderInv, NEW r \in Reqs, phase[r] # "free", Complete(r),
         lvStatus' = lvStatus
  PROVE  OrderInv'
<1> USE DEF OrderInv
<1>1. PICK c \in Chains, i \in Nat, q \in Seq(Reqs) :
      /\ i \in 1 .. Len(workQ[c])
      /\ c = Hash(buf[r].ltg) /\ workQ[c][i] = r
      /\ Len(q) = Len(workQ[c]) - 1
      /\ \A k \in 1 .. Len(q) :
            q[k] = IF k < i THEN workQ[c][k] ELSE workQ[c][k + 1]
      /\ workQ' = [workQ EXCEPT ![c] = q]
      /\ buf' = [buf EXCEPT ![r] = NoRequest]
      /\ phase' = [x \in Reqs |->
            IF x = r THEN "free"
            ELSE IF x \in (IF lvStatus = "pausing" THEN {} ELSE Unblocked(q, i))
                 THEN "ready" ELSE phase[x]]
  BY CompleteEffect
<1> DEFINE At(k) == IF k < i THEN k ELSE k + 1
           released == IF lvStatus = "pausing" THEN {} ELSE Unblocked(q, i)
<1>2. /\ \A d \in Chains : /\ workQ[d] \in Seq(Reqs) /\ Len(workQ[d]) \in Nat
                           /\ DOMAIN workQ[d] = 1 .. Len(workQ[d])
      /\ DOMAIN q = 1 .. Len(q) /\ Len(q) \in Nat
  BY DEF TypeOK
<1>3. /\ workQ'[c] = q
      /\ \A d \in Chains \ {c} : workQ'[d] = workQ[d]
  BY <1>1 DEF TypeOK
<1>4. \A k \in 1 .. Len(q) : /\ At(k) \in 1 .. Len(workQ[c])
                            /\ q[k] = workQ[c][At(k)]
                            /\ At(k) # i
  BY <1>1, <1>2, SMTT(40), ZenonT(20)
<1>5. \A k \in 1 .. Len(q) : q[k] \in Reqs \ {r}
  <2>1. \A k \in 1 .. Len(workQ[c]) : workQ[c][k] = r => k = i
    BY <1>1, <1>2 DEF Chained
  <2>2. \A k \in 1 .. Len(q) : q[k] \in Reqs
    BY <1>2
  <2> QED
    BY <1>4, <2>1, <2>2
<1>6. \A d \in Chains \ {c} : \A k \in 1 .. Len(workQ[d]) : workQ[d][k] \in Reqs \ {r}
  <2>1. \A d \in Chains : \A k \in 1 .. Len(workQ[d]) : workQ[d][k] \in Reqs
    BY <1>2
  <2> QED
    BY <1>1, <1>2, <2>1 DEF Chained
<1>7. \A x \in Reqs \ {r} :
         /\ buf'[x] = buf[x]
         /\ phase'[x] = IF x \in released THEN "ready" ELSE phase[x]
  BY <1>1 DEF TypeOK
<1>8. \A x \in released : /\ phase[x] = "blocked"
                         /\ \E k \in 1 .. Len(q) : q[k] = x /\ ~Conflicts(q, k, buf[x])
  BY <1>1, <1>2 DEF Unblocked
<1> HIDE DEF released
<1>9. \A j \in 1 .. Len(q), k \in 1 .. Len(q) : q[k] = q[j] => k = j
  <2> SUFFICES ASSUME NEW j \in 1 .. Len(q), NEW k \in 1 .. Len(q), q[k] = q[j]
               PROVE  k = j
    OBVIOUS
  <2>1. PICK m \in DOMAIN workQ[c] : m = At(j) /\ workQ[c][m] = q[j]
    BY <1>2, <1>4
  <2>2. PICK n \in DOMAIN workQ[c] : n = At(k) /\ workQ[c][n] = q[k]
    BY <1>2, <1>4
  <2>3. m = n
    BY <2>1, <2>2 DEF Chained
  <2>4. At(j) = At(k)
    BY <2>1, <2>2, <2>3
  <2> QED
    BY <1>1, <1>2, <2>4
<1>10. \A x \in released : Hash(buf[x].ltg) = c
  <2> SUFFICES ASSUME NEW x \in released PROVE Hash(buf[x].ltg) = c
    OBVIOUS
  <2>1. PICK k \in 1 .. Len(q) : q[k] = x
    BY <1>8
  <2>2. PICK m \in DOMAIN workQ[c] : workQ[c][m] = x
    BY <1>2, <1>4, <2>1
  <2> QED
    BY <2>2 DEF Chained
<1>11. Chained'
  <2>1. ASSUME NEW x \in Reqs, phase'[x] # "free"
        PROVE  \E j \in DOMAIN workQ'[Hash(buf'[x].ltg)] :
                  workQ'[Hash(buf'[x].ltg)][j] = x
    <3>1. x # r
      BY <1>1, <2>1
    <3>2. phase[x] # "free" /\ buf'[x] = buf[x]
      BY <1>7, <1>8, <2>1, <3>1
    <3>3. PICK d \in Chains : d = Hash(buf[x].ltg)
      BY HashType DEF TypeOK, Request
    <3>4. PICK j \in 1 .. Len(workQ[d]) : workQ[d][j] = x
      BY <1>2, <3>2, <3>3 DEF Chained
    <3>5. CASE d # c
      BY <1>2, <1>3, <3>2, <3>3, <3>4, <3>5
    <3>6. CASE d = c
      <4>1. j # i
        BY <1>1, <3>1, <3>4, <3>6
      <4>2. PICK k \in 1 .. Len(q) : At(k) = j
        <5>1. CASE j < i
          BY <1>1, <1>2, <3>4, <3>6, <5>1
        <5>2. CASE j > i
          <6>1. j - 1 \in 1 .. Len(q) /\ At(j - 1) = j
            BY <1>1, <1>2, <3>4, <3>6, <5>2
          <6> QED
            BY <6>1
        <5> QED
          BY <1>2, <3>6, <4>1, <5>1, <5>2
      <4>3. q[k] = x
        BY <1>4, <3>4, <3>6, <4>2
      <4> QED
        BY <1>2, <1>3, <3>2, <3>3, <3>6, <4>3
    <3> QED
      BY <3>5, <3>6
  <2>2. ASSUME NEW d \in Chains, NEW j \in DOMAIN workQ'[d]
        PROVE  /\ phase'[workQ'[d][j]] # "free"
               /\ Hash(buf'[workQ'[d][j]].ltg) = d
               /\ \A k \in DOMAIN workQ'[d] : workQ'[d][k] = workQ'[d][j] => k = j
    <3>1. CASE d # c
      BY <1>2, <1>3, <1>6, <1>7, <2>2, <3>1, SMTT(40), ZenonT(20) DEF Chained
    <3>2. CASE d = c
      <4>1. j \in 1 .. Len(q) /\ q[j] \in Reqs \ {r}
        BY <1>2, <1>3, <1>5, <2>2, <3>2
      <4>2. q[j] = workQ[c][At(j)] /\ At(j) \in DOMAIN workQ[c]
        BY <1>2, <1>4, <4>1
      <4>3. phase'[q[j]] # "free" /\ Hash(buf'[q[j]].ltg) = c
        BY <1>7, <4>1, <4>2 DEF Chained
      <4>4. ASSUME NEW k \in 1 .. Len(q), q[k] = q[j] PROVE k = j
        BY <1>9, <4>1, <4>4
      <4> QED
        BY <1>2, <1>3, <3>2, <4>3, <4>4
    <3> QED
      BY <3>1, <3>2
  <2> QED
    BY <2>1, <2>2 DEF Chained
<1>12. \A d \in Chains \ {c} : \A j \in 1 .. Len(workQ[d]) :
          Conflicts(workQ[d], j, buf[workQ[d][j]])'
             <=> Conflicts(workQ[d], j, buf[workQ[d][j]])
  <2> SUFFICES ASSUME NEW d \in Chains \ {c}, NEW j \in 1 .. Len(workQ[d])
               PROVE  Conflicts(workQ[d], j, buf[workQ[d][j]])'
                         <=> Conflicts(workQ[d], j, buf[workQ[d][j]])
    OBVIOUS
  <2>1. \A k \in 1 .. j - 1 : k \in 1 .. Len(workQ[d])
    BY <1>2
  <2>2. \A k \in 1 .. j - 1 : buf'[workQ[d][k]] = buf[workQ[d][k]]
    BY <1>6, <1>7, <2>1
  <2> QED
    BY <1>3, <1>6, <1>7, <2>2 DEF Conflicts
<1>13. \A j \in 1 .. Len(q) :
          Conflicts(workQ[c], j, buf[workQ[c][j]])' <=> Conflicts(q, j, buf[q[j]])
  <2> SUFFICES ASSUME NEW j \in 1 .. Len(q)
               PROVE  Conflicts(workQ[c], j, buf[workQ[c][j]])'
                         <=> Conflicts(q, j, buf[q[j]])
    OBVIOUS
  <2>1. \A k \in 1 .. j - 1 : k \in 1 .. Len(q)
    BY <1>2
  <2>2. \A k \in 1 .. j - 1 : buf'[q[k]] = buf[q[k]]
    BY <1>5, <1>7, <2>1
  <2> QED
    BY <1>3, <1>5, <1>7, <2>2 DEF Conflicts
\* Unlinking the finished request can only remove a conflict.
<1>14. \A j \in 1 .. Len(q) :
          Conflicts(q, j, buf[q[j]]) => Conflicts(workQ[c], At(j), buf[q[j]])
  <2> SUFFICES ASSUME NEW j \in 1 .. Len(q), NEW k \in 1 .. j - 1,
                      Overlap(buf[q[k]], buf[q[j]])
               PROVE  \E l \in 1 .. At(j) - 1 :
                         Overlap(buf[workQ[c][l]], buf[q[j]])
    BY DEF Conflicts
  <2>1. k \in 1 .. Len(q) /\ At(k) \in 1 .. At(j) - 1
    BY <1>1, <1>2
  <2> QED
    BY <1>4, <2>1
\* In front of its place nothing has changed.
<1>15. \A j \in 1 .. Len(q) : j < i =>
          (Conflicts(q, j, buf[q[j]]) <=> Conflicts(workQ[c], j, buf[workQ[c][j]]))
  <2> SUFFICES ASSUME NEW j \in 1 .. Len(q), j < i
               PROVE  Conflicts(q, j, buf[q[j]])
                         <=> Conflicts(workQ[c], j, buf[workQ[c][j]])
    OBVIOUS
  <2>1. q[j] = workQ[c][j] /\ \A k \in 1 .. j - 1 : q[k] = workQ[c][k]
    <3>1. \A k \in 1 .. j : k \in 1 .. Len(q) /\ k < i
      BY <1>1, <1>2
    <3>2. \A k \in 1 .. j : q[k] = workQ[c][k]
      BY <1>1, <3>1
    <3>3. j \in 1 .. j /\ \A k \in 1 .. j - 1 : k \in 1 .. j
      BY <1>2
    <3> QED
      BY <3>2, <3>3
  <2> QED
    BY <2>1 DEF Conflicts
<1>16. NoOvertaking'
  <2> SUFFICES ASSUME NEW d \in Chains, NEW j \in 1 .. Len(workQ'[d]),
                      workQ'[d][j] \in InProgress'
               PROVE  ~Conflicts(workQ[d], j, buf[workQ[d][j]])'
    BY <1>2, <1>3 DEF NoOvertaking
  <2>1. CASE d # c
    <3>1. j \in 1 .. Len(workQ[d]) /\ workQ'[d][j] = workQ[d][j]
      BY <1>3, <2>1
    <3>2. workQ[d][j] \notin released
      BY <1>2, <1>10, <2>1, <3>1, SMTT(40), ZenonT(20) DEF Chained
    <3>3. workQ[d][j] \in InProgress
      BY <1>6, <1>7, <2>1, <3>1, <3>2 DEF InProgress
    <3> QED
      BY <1>2, <1>12, <2>1, <3>1, <3>3 DEF NoOvertaking
  <2>2. CASE d = c
    <3>1. j \in 1 .. Len(q) /\ workQ'[d][j] = q[j] /\ q[j] \in Reqs \ {r}
      BY <1>3, <1>5, <2>2
    <3>2. CASE q[j] \in released
      <4>1. PICK k \in 1 .. Len(q) : q[k] = q[j] /\ ~Conflicts(q, k, buf[q[j]])
        BY <1>8, <3>2
      <4>2. k = j
        BY <1>9, <3>1, <4>1
      <4> QED
        BY <1>13, <2>2, <3>1, <4>1, <4>2
    <3>3. CASE q[j] \notin released
      <4>1. q[j] \in InProgress
        BY <1>7, <3>1, <3>3 DEF InProgress
      <4>2. ~Conflicts(workQ[c], At(j), buf[q[j]])
        BY <1>2, <1>4, <3>1, <4>1 DEF NoOvertaking
      <4> QED
        BY <1>13, <1>14, <2>2, <3>1, <4>2
    <3> QED
      BY <3>2, <3>3
  <2> QED
    BY <2>1, <2>2
<1>17. BlockedForCause'
  <2> SUFFICES ASSUME lvStatus = "open",
                      NEW d \in Chains, NEW j \in 1 .. Len(workQ'[d]),
                      phase'[workQ'[d][j]] = "blocked"
               PROVE  Conflicts(workQ[d], j, buf[workQ[d][j]])'
    BY <1>2, <1>3 DEF BlockedForCause
  <2>1. CASE d # c
    <3>1. /\ j \in 1 .. Len(workQ[d]) /\ workQ'[d][j] = workQ[d][j]
          /\ workQ[d][j] \in Reqs \ {r}
      BY <1>3, <1>6, <2>1
    <3>2. phase[workQ[d][j]] = "blocked"
      BY <1>7, <3>1
    <3> QED
      BY <1>2, <1>12, <2>1, <3>1, <3>2 DEF BlockedForCause
  <2>2. CASE d = c
    <3>1. j \in 1 .. Len(q) /\ workQ'[d][j] = q[j] /\ q[j] \in Reqs \ {r}
      BY <1>3, <1>5, <2>2
    <3>2. phase[q[j]] = "blocked" /\ q[j] \notin released
      BY <1>7, <3>1
    <3>3. CASE j < i
      <4>1. Conflicts(workQ[c], j, buf[workQ[c][j]])
        <5>1. q[j] = workQ[c][j] /\ j \in DOMAIN workQ[c]
          BY <1>1, <1>2, <3>1, <3>3
        <5> QED
          BY <3>2, <5>1 DEF BlockedForCause
      <4> QED
        BY <1>13, <1>15, <2>2, <3>1, <3>3, <4>1
    <3>4. CASE ~(j < i)
      <4>1. j \in i .. Len(q)
        BY <1>2, <3>1, <3>4
      <4>2. Conflicts(q, j, buf[q[j]])
        BY <3>1, <3>2, <4>1 DEF released, Unblocked
      <4> QED
        BY <1>13, <2>2, <3>1, <4>2
    <3> QED
      BY <3>3, <3>4
  <2> QED
    BY <2>1, <2>2
<1> QED
  BY <1>11, <1>16, <1>17

\* lv_continue links the requests of every chain afresh in the same order.
LEMMA ContinueOrder == TypeOK /\ OrderInv /\ Continue => OrderInv'
<1> SUFFICES ASSUME TypeOK, OrderInv, Continue PROVE OrderInv'
  OBVIOUS
<1> USE DEF OrderInv
<1>1. /\ workQ' = workQ /\ buf' = buf
      /\ phase' = [r \in Reqs |->
           IF phase[r] = "free" THEN "free"
           ELSE IF \E j \in DOMAIN workQ[Hash(buf[r].ltg)] :
                      /\ workQ[Hash(buf[r].ltg)][j] = r
                      /\ Conflicts(workQ[Hash(buf[r].ltg)], j, buf[r])
                THEN "blocked" ELSE "ready"]
  BY Zenon DEF Continue
<1>2. \A c \in Chains : \A j \in DOMAIN workQ[c] : workQ[c][j] \in Reqs
  BY DEF TypeOK
<1>3. ASSUME NEW c \in Chains, NEW j \in DOMAIN workQ[c]
      PROVE  phase'[workQ[c][j]] =
                IF Conflicts(workQ[c], j, buf[workQ[c][j]]) THEN "blocked" ELSE "ready"
  <2>1. PICK r \in Reqs : r = workQ[c][j]
    BY <1>2, <1>3
  <2>2. phase[r] # "free" /\ Hash(buf[r].ltg) = c
    BY <1>3, <2>1 DEF Chained
  <2>3. \A k \in DOMAIN workQ[c] : workQ[c][k] = r => k = j
    BY <1>3, <2>1 DEF Chained
  <2> QED
    BY <1>1, <1>3, <2>1, <2>2, <2>3
<1>4. \A r \in Reqs : phase'[r] = "free" <=> phase[r] = "free"
  BY <1>1
<1>5. Chained'
  BY <1>1, <1>2, <1>4 DEF Chained
<1>6. \A c \in Chains : \A j \in DOMAIN workQ[c] :
         Conflicts(workQ[c], j, buf[workQ[c][j]])'
            <=> Conflicts(workQ[c], j, buf[workQ[c][j]])
  BY <1>1 DEF Conflicts
<1>7. NoOvertaking'
  BY <1>1, <1>2, <1>3, <1>6 DEF NoOvertaking, InProgress
<1>8. BlockedForCause'
  BY <1>1, <1>2, <1>3, <1>6 DEF BlockedForCause
<1> QED
  BY <1>5, <1>7, <1>8

-----------------------------------------------------------------------------
(* The count lv_pause waits for.                                           *)

\* lv_block puts nothing in progress unless the volume runs, when nobody
\* counts.
LEMMA BlockPause ==
  ASSUME TypeOK, PauseInv, NEW r \in Reqs, NEW a \in Request,
         phase[r] = "free", Block(r, a),
         lvStatus' = lvStatus, complcnt' = complcnt, cfg' = cfg
  PROVE  PauseInv'
<1> USE DEF PauseInv
<1>1. /\ phase'[r] \in {"blocked", "ready"}
      /\ lvStatus # "open" => phase'[r] = "blocked"
      /\ \A x \in Reqs \ {r} : phase'[x] = phase[x]
  BY BlockEffect
<1>2. lvStatus # "open" => InProgress' = InProgress
  BY <1>1 DEF InProgress
<1> QED
  BY <1>2 DEF PausedIsQuiet, PauseCount, CommandOK, TypeOK

\* lv_complete takes one request out of progress, and counts it if lv_pause
\* waits; the last one finds the sleeper.
LEMMA CompletePause ==
  ASSUME TypeOK, OrderInv, PauseInv, NEW r \in InProgress, Complete(r),
         lvStatus' = lvStatus
  PROVE  PauseInv' /\ complcnt' \in Nat /\ cfg' \in Cfgs
<1> USE DEF PauseInv
<1>1. r \in Reqs /\ phase[r] # "free"
  BY DEF InProgress
<1>2. PICK c \in Chains, i \in Nat, q \in Seq(Reqs) :
      /\ i \in 1 .. Len(workQ[c])
      /\ c = Hash(buf[r].ltg) /\ workQ[c][i] = r
      /\ Len(q) = Len(workQ[c]) - 1
      /\ \A k \in 1 .. Len(q) :
            q[k] = IF k < i THEN workQ[c][k] ELSE workQ[c][k + 1]
      /\ workQ' = [workQ EXCEPT ![c] = q]
      /\ buf' = [buf EXCEPT ![r] = NoRequest]
      /\ phase' = [x \in Reqs |->
            IF x = r THEN "free"
            ELSE IF x \in (IF lvStatus = "pausing" THEN {} ELSE Unblocked(q, i))
                 THEN "ready" ELSE phase[x]]
  BY <1>1, CompleteEffect DEF OrderInv
<1>3. IF lvStatus = "pausing"
      THEN /\ complcnt' = complcnt - 1
           /\ cfg' = IF complcnt = 1 /\ cfg = "asleep" THEN "awake" ELSE cfg
      ELSE complcnt' = complcnt /\ cfg' = cfg
  BY DEF Complete
<1>4. lvStatus # "paused"
  BY DEF PausedIsQuiet
<1>5. CASE lvStatus = "pausing"
  <2>1. InProgress' = InProgress \ {r}
    BY <1>2, <1>5 DEF InProgress
  <2>2. /\ Cardinality(InProgress) \in Nat \ {0}
        /\ Cardinality(InProgress') = Cardinality(InProgress) - 1
    BY <2>1, InProgressFinite, FS_RemoveElement
  <2>3. complcnt = Cardinality(InProgress)
    BY <1>5 DEF PauseCount
  <2> QED
    BY <1>3, <1>5, <2>2, <2>3
       DEF PausedIsQuiet, PauseCount, CommandOK, TypeOK, Cfgs
<1>6. CASE lvStatus = "open"
  BY <1>3, <1>6 DEF PausedIsQuiet, PauseCount, CommandOK, TypeOK
<1> QED
  BY <1>4, <1>5, <1>6 DEF TypeOK

\* lv_pause counts what is in progress, and sleeps unless that is nothing.
LEMMA AdministerPause ==
  TypeOK /\ PauseInv /\ Administer => PauseInv' /\ complcnt' \in Nat
<1> SUFFICES ASSUME TypeOK, PauseInv, Administer
             PROVE  PauseInv' /\ complcnt' \in Nat
  OBVIOUS
<1> USE DEF PauseInv
<1>1. CASE CopyMaps
  BY <1>1 DEF CopyMaps, PausedIsQuiet, PauseCount, CommandOK, InProgress, TypeOK
<1>2. CASE Pause
  <2>1. InProgress' = InProgress
    BY <1>2 DEF Pause, InProgress
  <2>2. lvStatus = "open" /\ complcnt = 0
    BY <1>2 DEF Pause, CommandOK, PauseCount
  <2> QED
    BY <1>2, <2>1, <2>2, InProgressFinite
       DEF Pause, PausedIsQuiet, PauseCount, CommandOK
<1>3. CASE PauseWake
  <2>1. InProgress' = InProgress /\ lvStatus = "pausing"
    BY <1>3 DEF PauseWake, InProgress, CommandOK
  <2> QED
    BY <1>3, <2>1, InProgressFinite
       DEF PauseWake, PausedIsQuiet, PauseCount, CommandOK
<1>4. CASE Reconfigure
  BY <1>4 DEF Reconfigure, PausedIsQuiet, PauseCount, CommandOK, InProgress, TypeOK
<1>5. CASE Continue
  BY <1>5 DEF Continue, PausedIsQuiet, PauseCount, CommandOK, TypeOK
<1> QED
  BY <1>1, <1>2, <1>3, <1>4, <1>5 DEF Administer

\* Whoever starts and ends no request, and commands nothing, disturbs no pause.
LEMMA PauseFrame ==
  ASSUME PauseInv, lvStatus' = lvStatus, complcnt' = complcnt, cfg' = cfg,
         \A x \in Reqs : phase'[x] \in {"free", "blocked"}
                            <=> phase[x] \in {"free", "blocked"}
  PROVE  PauseInv'
<1>1. InProgress' = InProgress
  BY DEF InProgress
<1> QED
  BY <1>1 DEF PauseInv, PausedIsQuiet, PauseCount, CommandOK

-----------------------------------------------------------------------------
(* Type correctness.                                                       *)

\* lv_complete keeps the types of the queue, the bufs and their phases.
LEMMA CompleteType ==
  ASSUME TypeOK, Chained, NEW r \in Reqs, phase[r] # "free", Complete(r)
  PROVE  /\ workQ' \in [Chains -> Seq(Reqs)]
         /\ buf' \in [Reqs -> Request]
         /\ phase' \in [Reqs -> Phases]
<1>1. PICK c \in Chains, i \in Nat, q \in Seq(Reqs) :
      /\ i \in 1 .. Len(workQ[c])
      /\ c = Hash(buf[r].ltg) /\ workQ[c][i] = r
      /\ Len(q) = Len(workQ[c]) - 1
      /\ \A k \in 1 .. Len(q) :
            q[k] = IF k < i THEN workQ[c][k] ELSE workQ[c][k + 1]
      /\ workQ' = [workQ EXCEPT ![c] = q]
      /\ buf' = [buf EXCEPT ![r] = NoRequest]
      /\ phase' = [x \in Reqs |->
            IF x = r THEN "free"
            ELSE IF x \in (IF lvStatus = "pausing" THEN {} ELSE Unblocked(q, i))
                 THEN "ready" ELSE phase[x]]
  BY CompleteEffect
<1>2. NoRequest \in Request
  BY LvSizeType DEF NoRequest, Request, LTGs
<1> QED
  BY <1>1, <1>2 DEF TypeOK, Phases

\* lv_initiate sets lx_synctrk to a track of the extent, or to -1.
LEMMA SyncInitiateType ==
  ASSUME TypeOK, NEW taken, NEW m \in BOOLEAN, SyncInitiate(taken, m)
  PROVE  /\ synctrk' \in [Exts -> {NoTrk} \cup Trks]
         /\ syncmsk' \in [Exts -> BOOLEAN]
<1> DEFINE t == TrkOf(buf[RawBuf].ltg)
<1>1. t \in Trks
  BY StrategyAssumption, LvSizeType DEF TypeOK, Reqs, Request, LTGs, TrkOf, Trks
<1>2. \/ UNCHANGED <<synctrk, syncmsk>>
      \/ \E x, y : /\ y \in {NoTrk, t}
                  /\ syncmsk' = [syncmsk EXCEPT ![x] = m]
                  /\ synctrk' = [synctrk EXCEPT ![x] = y]
  BY Zenon DEF SyncInitiate
<1> HIDE DEF t
<1>3. CASE UNCHANGED <<synctrk, syncmsk>>
  BY <1>3 DEF TypeOK
<1>4. CASE \E x, y : /\ y \in {NoTrk, t}
                    /\ syncmsk' = [syncmsk EXCEPT ![x] = m]
                    /\ synctrk' = [synctrk EXCEPT ![x] = y]
  <2>1. PICK x, y : /\ y \in {NoTrk} \cup Trks
                    /\ syncmsk' = [syncmsk EXCEPT ![x] = m]
                    /\ synctrk' = [synctrk EXCEPT ![x] = y]
    BY <1>1, <1>4, Zenon
  <2> QED
    BY <2>1 DEF TypeOK
<1> QED
  BY <1>2, <1>3, <1>4

\* Every action keeps the types.
LEMMA TypeInductive == IInv /\ [Next]_vars => TypeOK'
<1> SUFFICES ASSUME IInv, [Next]_vars PROVE TypeOK'
  OBVIOUS
<1> USE DEF IInv
<1>1. ASSUME NEW p \in Procs, NEW r \in Reqs, NEW a \in Request,
             Strategy(p, r, a), rs' \in Resync
      PROVE  TypeOK'
  <2>1. /\ workQ' \in [Chains -> Seq(Reqs)]
        /\ buf' \in [Reqs -> Request] /\ phase' \in [Reqs -> Phases]
    BY <1>1, BlockEffect DEF Strategy
  <2> QED
    BY <1>1, <2>1 DEF Strategy, TypeOK, PCs
<1>2. ASSUME NEW p \in Callers, UserRequest(p) PROVE TypeOK'
  BY <1>1, <1>2, StrategyAssumption DEF UserRequest, TypeOK, Procs, Reqs
<1>3. ASSUME NEW p \in Procs, Check(p) PROVE TypeOK'
  BY <1>3 DEF Check, TypeOK, PCs
<1>4. ASSUME NEW p \in Procs, InitiateAll(p) PROVE TypeOK'
  <2>1. /\ synctrk' \in [Exts -> {NoTrk} \cup Trks]
        /\ syncmsk' \in [Exts -> BOOLEAN]
    BY <1>4, SyncInitiateType DEF InitiateAll
  <2> QED
    BY <1>4, <2>1 DEF InitiateAll, TypeOK, PCs, Phases, Resync
<1>5. ASSUME NEW p \in Procs, InitiateSome(p) PROVE TypeOK'
  <2>1. PICK taken \in SUBSET Ready, done \in Ready :
           /\ SyncInitiate(taken \cup {done}, done # RawBuf \/ Refused(done))
           /\ phase' = [r \in Reqs |-> IF r = done THEN "own"
                                       ELSE IF r \in taken THEN "pending"
                                       ELSE phase[r]]
           /\ holder' = [r \in Reqs |-> IF r \in taken \cup {done} THEN p
                                                                  ELSE holder[r]]
           /\ rs' = IF done = RawBuf THEN [rs EXCEPT !.error = Refused(done)]
                                     ELSE rs
    BY <1>5 DEF InitiateSome
  <2>2. Refused(done) \in BOOLEAN
    BY DEF Refused, TypeOK
  <2>3. (done # RawBuf \/ Refused(done)) \in BOOLEAN
    BY <2>2
  <2>4. /\ synctrk' \in [Exts -> {NoTrk} \cup Trks]
        /\ syncmsk' \in [Exts -> BOOLEAN]
    BY <2>1, <2>3, SyncInitiateType
  <2>5. rs' \in Resync
    BY <2>1, <2>2 DEF TypeOK, Resync
  <2> QED
    BY <1>5, <2>1, <2>4, <2>5 DEF InitiateSome, TypeOK, PCs, Phases
<1>6. ASSUME NEW p \in Procs, InitiateComplete(p) PROVE TypeOK'
  <2>1. PICK r \in Reqs :
           /\ phase[r] = "own" /\ Complete(r)
           /\ holder' = [holder EXCEPT ![r] = NoProc]
           /\ pc' = [pc EXCEPT ![p] = "start"]
           /\ UNCHANGED <<lvStatus, called, kicks, rdonly, synctrk, syncmsk,
                          snap, rs>>
    BY <1>6 DEF InitiateComplete
  <2>2. r \in InProgress
    BY <2>1 DEF InProgress
  <2>3. complcnt' \in Nat /\ cfg' \in Cfgs
    BY <2>1, <2>2, CompletePause
  <2>4. /\ workQ' \in [Chains -> Seq(Reqs)]
        /\ buf' \in [Reqs -> Request] /\ phase' \in [Reqs -> Phases]
    BY <2>1, CompleteType DEF OrderInv
  <2> QED
    BY <2>1, <2>3, <2>4 DEF TypeOK, PCs
<1>7. ASSUME NEW r \in Reqs, TerminateRequest(r) PROVE TypeOK'
  BY <1>7 DEF TerminateRequest, TypeOK, Phases
<1>8. ASSUME NEW e \in BOOLEAN, TerminateResync(e) PROVE TypeOK'
  <2>1. RawBuf \in Reqs
    BY DEF Reqs
  <2>2. PICK x : synctrk' \in {synctrk, [synctrk EXCEPT ![x] = NoTrk]}
    BY <1>8 DEF TerminateResync
  <2>3. synctrk' \in [Exts -> {NoTrk} \cup Trks]
    BY <2>2 DEF TypeOK
  <2>4. PICK b \in BOOLEAN : buf' = [buf EXCEPT ![RawBuf].read = b]
    BY <1>8 DEF TerminateResync
  <2>5. buf' \in [Reqs -> Request]
    BY <2>1, <2>4 DEF TypeOK, Request
  <2>6. rs' \in Resync
    BY <1>8 DEF TerminateResync, TypeOK, Resync
  <2>7. kicks' \in Nat /\ phase' \in [Reqs -> Phases]
    BY <1>8, <2>1 DEF TerminateResync, TypeOK, Phases
  <2> QED
    BY <1>8, <2>3, <2>5, <2>6, <2>7 DEF TerminateResync, TypeOK
<1>9. ASSUME NEW r \in Reqs, TerminateComplete(r) PROVE TypeOK'
  <2>1. r \in InProgress /\ phase[r] # "free" /\ lvStatus' = lvStatus
    BY <1>9 DEF TerminateComplete, InProgress
  <2>2. complcnt' \in Nat /\ cfg' \in Cfgs
    BY <1>9, <2>1, CompletePause DEF TerminateComplete
  <2>3. /\ workQ' \in [Chains -> Seq(Reqs)]
        /\ buf' \in [Reqs -> Request] /\ phase' \in [Reqs -> Phases]
    BY <1>9, <2>1, CompleteType DEF OrderInv, TerminateComplete
  <2> QED
    BY <1>9, <2>2, <2>3 DEF TerminateComplete, TypeOK
<1>10. CASE Kick
  BY <1>10 DEF Kick, TypeOK
<1>11. CASE ThreadCall
  BY <1>11 DEF ThreadCall, TypeOK, PCs
<1>12. CASE Administer
  <2>1. complcnt' \in Nat
    BY <1>12, AdministerPause
  <2>2. CASE CopyMaps
    BY <2>1, <2>2 DEF CopyMaps, TypeOK, Cfgs
  <2>3. CASE Pause
    BY <2>1, <2>3 DEF Pause, TypeOK, Cfgs
  <2>4. CASE PauseWake
    BY <2>1, <2>4 DEF PauseWake, TypeOK, Cfgs
  <2>5. CASE Reconfigure
    <3>1. /\ synctrk' \in [Exts -> {NoTrk} \cup Trks]
          /\ syncmsk' \in [Exts -> BOOLEAN]
      BY <2>5 DEF Reconfigure, TypeOK
    <3>2. rdonly' \in BOOLEAN
      BY <2>5 DEF Reconfigure, TypeOK
    <3> QED
      BY <2>1, <2>5, <3>1, <3>2 DEF Reconfigure, TypeOK, Cfgs
  <2>6. CASE Continue
    <3>1. phase' \in [Reqs -> Phases]
      BY <2>6 DEF Continue, Phases
    <3> QED
      BY <2>1, <2>6, <3>1 DEF Continue, TypeOK, Cfgs, PCs
  <2> QED
    BY <1>12, <2>2, <2>3, <2>4, <2>5, <2>6 DEF Administer
<1>13. CASE SyncBegin
  BY <1>13 DEF SyncBegin, TypeOK, Resync
<1>14. CASE SyncSubmit
  <2>1. Syncer \in Procs /\ RawBuf \in Reqs
    BY DEF Procs, Reqs
  <2>2. [ltg |-> rs.ext * TrksPerExt + rs.trk, pages |-> Pages, read |-> TRUE]
           \in Request
    BY TrackType DEF TypeOK, Resync, Request
  <2>3. rs' \in Resync
    BY <1>14 DEF SyncSubmit, TypeOK, Resync
  <2> QED
    BY <1>1, <1>14, <2>1, <2>2, <2>3 DEF SyncSubmit
<1>15. CASE SyncNext
  <2>1. rs.trk # TrksPerExt - 1 => rs.trk + 1 \in Trks
    BY StrategyAssumption DEF TypeOK, Resync, Trks
  <2>2. rs' \in Resync
    BY <1>15, <2>1 DEF SyncNext, TypeOK, Resync
  <2> QED
    BY <1>15, <2>2 DEF SyncNext, TypeOK
<1>16. CASE UNCHANGED vars
  BY <1>16 DEF vars, TypeOK
<1> QED
  BY <1>2, <1>3, <1>4, <1>5, <1>6, <1>7, <1>8, <1>9, <1>10, <1>11, <1>12,
     <1>13, <1>14, <1>15, <1>16 DEF Next, Initiate

-----------------------------------------------------------------------------
(* Every action keeps the order and the count.                             *)

\* Actions that move requests between the phases of progress, or only change
\* control state, are stutters of the order and of the pause.
LEMMA OrderInductive == IInv /\ [Next]_vars => OrderInv' /\ PauseInv'
<1> SUFFICES ASSUME IInv, [Next]_vars PROVE OrderInv' /\ PauseInv'
  OBVIOUS
<1>0. TypeOK'
  BY TypeInductive
<1> USE DEF IInv
<1>1. ASSUME NEW p, NEW r \in Reqs, NEW a \in Request, Strategy(p, r, a)
      PROVE  OrderInv' /\ PauseInv'
  BY <1>1, BlockOrder, BlockPause DEF Strategy
<1>2. ASSUME workQ' = workQ, lvStatus' = lvStatus, complcnt' = complcnt, cfg' = cfg,
             \A x \in Reqs : /\ buf'[x].ltg = buf[x].ltg
                             /\ buf'[x].pages = buf[x].pages
                             /\ \/ phase'[x] = phase[x]
                                \/ {phase[x], phase'[x]} \cap {"free", "blocked"} = {}
      PROVE  OrderInv' /\ PauseInv'
  <2>1. \A x \in Reqs : /\ phase'[x] = "free" <=> phase[x] = "free"
                        /\ phase'[x] = "blocked" <=> phase[x] = "blocked"
    BY <1>2
  <2> QED
    BY <1>0, <1>2, <2>1, OrderFrame, PauseFrame
<1>3. ASSUME NEW p \in Callers, UserRequest(p) PROVE OrderInv' /\ PauseInv'
  BY <1>1, <1>3, StrategyAssumption DEF UserRequest, Reqs
<1>4. ASSUME NEW p \in Procs, Check(p) PROVE OrderInv' /\ PauseInv'
  BY <1>2, <1>4 DEF Check
<1>5. ASSUME NEW p \in Procs, InitiateAll(p) PROVE OrderInv' /\ PauseInv'
  BY <1>2, <1>5 DEF InitiateAll, Ready, Pending
<1>6. ASSUME NEW p \in Procs, InitiateSome(p) PROVE OrderInv' /\ PauseInv'
  BY <1>2, <1>6 DEF InitiateSome, Ready
<1>7. ASSUME NEW p \in Procs, InitiateComplete(p) PROVE OrderInv' /\ PauseInv'
  <2>1. PICK r \in Reqs : phase[r] = "own" /\ Complete(r) /\ lvStatus' = lvStatus
    BY <1>7 DEF InitiateComplete
  <2>2. r \in InProgress
    BY <2>1 DEF InProgress
  <2> QED
    BY <2>1, <2>2, CompleteOrder, CompletePause
<1>8. ASSUME NEW r \in Reqs, TerminateRequest(r) PROVE OrderInv' /\ PauseInv'
  BY <1>2, <1>8 DEF TerminateRequest, TypeOK
<1>9. ASSUME NEW e \in BOOLEAN, TerminateResync(e) PROVE OrderInv' /\ PauseInv'
  <2>1. RawBuf \in Reqs /\ phase[RawBuf] = "below"
    BY <1>9 DEF TerminateResync, Reqs
  <2>2. \E b : buf' = [buf EXCEPT ![RawBuf].read = b]
    BY <1>9 DEF TerminateResync
  <2>3. \A x \in Reqs : buf'[x].ltg = buf[x].ltg /\ buf'[x].pages = buf[x].pages
    BY <2>1, <2>2 DEF TypeOK, Request
  <2>4. \A x \in Reqs : \/ phase'[x] = phase[x]
                        \/ {phase[x], phase'[x]} \cap {"free", "blocked"} = {}
    BY <1>9, <2>1 DEF TerminateResync, TypeOK
  <2> QED
    BY <1>2, <1>9, <2>3, <2>4 DEF TerminateResync
<1>10. ASSUME NEW r \in Reqs, TerminateComplete(r) PROVE OrderInv' /\ PauseInv'
  <2>1. r \in InProgress /\ phase[r] # "free" /\ lvStatus' = lvStatus
    BY <1>10 DEF TerminateComplete, InProgress
  <2> QED
    BY <1>10, <2>1, CompleteOrder, CompletePause DEF TerminateComplete
<1>11. CASE Kick
  BY <1>2, <1>11 DEF Kick
<1>12. CASE ThreadCall
  BY <1>2, <1>12 DEF ThreadCall
<1>13. CASE Administer
  <2>1. PauseInv'
    BY <1>13, AdministerPause
  <2>2. CASE Continue
    BY <2>1, <2>2, ContinueOrder
  <2>3. CASE CopyMaps \/ Pause \/ PauseWake \/ Reconfigure
    <3>1. workQ' = workQ /\ buf' = buf /\ phase' = phase
      BY <2>3 DEF CopyMaps, Pause, PauseWake, Reconfigure
    <3>2. lvStatus' = "open" => lvStatus = "open"
      BY <2>3 DEF CopyMaps, Pause, PauseWake, Reconfigure
    <3>3. OrderInv'
      BY <1>0, <3>1, <3>2, OrderFrame
    <3> QED
      BY <2>1, <3>3
  <2> QED
    BY <1>13, <2>2, <2>3 DEF Administer
<1>14. CASE SyncBegin
  BY <1>2, <1>14 DEF SyncBegin
<1>15. CASE SyncSubmit
  <2>1. RawBuf \in Reqs
    BY DEF Reqs
  <2>2. [ltg |-> rs.ext * TrksPerExt + rs.trk, pages |-> Pages, read |-> TRUE]
           \in Request
    BY TrackType DEF TypeOK, Resync, Request
  <2> QED
    BY <1>1, <1>15, <2>1, <2>2 DEF SyncSubmit
<1>16. CASE SyncNext
  BY <1>2, <1>16 DEF SyncNext
<1>17. CASE UNCHANGED vars
  BY <1>2, <1>17 DEF vars
<1> QED
  BY <1>3, <1>4, <1>5, <1>6, <1>7, <1>8, <1>9, <1>10, <1>11, <1>12, <1>13,
     <1>14, <1>15, <1>16, <1>17 DEF Next, Initiate

\* It holds at the start, with empty chains.
LEMMA InitInvariant == Init => IInv
<1> SUFFICES ASSUME Init PROVE IInv
  OBVIOUS
<1>1. TypeOK
  <2>1. /\ NoRequest \in Request
        /\ <<>> \in Seq(Reqs)
        /\ 0 \in Exts /\ 0 \in Trks
    BY StrategyAssumption, LvSizeType DEF NoRequest, Request, LTGs, Exts, Trks
  <2>2. rs \in Resync
    BY <2>1 DEF Init, Resync
  <2>3. /\ synctrk \in [Exts -> {NoTrk} \cup Trks]
        /\ syncmsk \in [Exts -> BOOLEAN]
    BY DEF Init
  <2> QED
    BY <2>1, <2>2, <2>3 DEF Init, TypeOK, Phases, PCs, Cfgs
<1>2. OrderInv
  <2>1. \A c \in Chains : DOMAIN workQ[c] = {}
    BY DEF Init
  <2> QED
    BY <2>1 DEF Init, OrderInv, Chained, NoOvertaking, BlockedForCause
<1>3. PauseInv
  BY InProgressFinite DEF Init, PauseInv, PausedIsQuiet, PauseCount, CommandOK
<1> QED
  BY <1>1, <1>2, <1>3 DEF IInv

-----------------------------------------------------------------------------
(* Nobody forgets lv_ready_Q.                                              *)

\* Whoever makes a request ready, and whoever leaves one ready, goes on to look
\* at lv_ready_Q: the caller in its test of the queue, lv_terminate in its last
\* test, lv_initiate in its loop (lv_strategy.c:247-253, 480-496, 1095-1107).
LEMMA ServedInductive == IInv /\ ReadyIsServed /\ [Next]_vars => ReadyIsServed'
<1> SUFFICES ASSUME IInv, ReadyIsServed, [Next]_vars PROVE ReadyIsServed'
  OBVIOUS
<1> DEFINE Awake == \E p \in Procs : pc[p] # "idle"
<1>1. pc \in [Procs -> PCs] /\ kicks \in Nat
  BY DEF IInv, TypeOK
<1>2. ASSUME NEW p \in Procs, NEW s \in {"check", "start", "own"},
             pc' = [pc EXCEPT ![p] = s]
      PROVE  ReadyIsServed'
  BY <1>1, <1>2 DEF ReadyIsServed
<1>3. ASSUME Ready' = Ready, pc' = pc, called' = called, kicks' = kicks
      PROVE  ReadyIsServed'
  BY <1>3 DEF ReadyIsServed
<1>4. /\ Callers \subseteq Procs
      /\ Syncer \in Procs /\ CallThread \in Procs /\ Admin \in Procs
  BY DEF Procs
<1>5. ASSUME NEW p \in Callers, UserRequest(p) PROVE ReadyIsServed'
  BY <1>2, <1>4, <1>5 DEF UserRequest, Strategy
<1>6. ASSUME NEW p \in Procs, Check(p) PROVE ReadyIsServed'
  <2>1. CASE Ready = {}
    <3>1. Ready' = {}
      BY <1>6, <2>1 DEF Check, Ready
    <3> QED
      BY <3>1 DEF ReadyIsServed
  <2>2. CASE Ready # {}
    BY <1>2, <1>6, <2>2 DEF Check
  <2> QED
    BY <2>1, <2>2
<1>7. ASSUME NEW p \in Procs, InitiateAll(p) PROVE ReadyIsServed'
  <2>1. Ready' = {}
    BY <1>7 DEF InitiateAll, Ready
  <2> QED
    BY <2>1 DEF ReadyIsServed
<1>8. ASSUME NEW p \in Procs, InitiateSome(p) \/ InitiateComplete(p)
      PROVE  ReadyIsServed'
  BY <1>2, <1>8 DEF InitiateSome, InitiateComplete
<1>9. ASSUME NEW r \in Reqs, TerminateRequest(r) PROVE ReadyIsServed'
  <2>1. Ready' = Ready
    BY <1>9 DEF TerminateRequest, Ready, IInv, TypeOK
  <2> QED
    BY <1>3, <1>9, <2>1 DEF TerminateRequest
<1>10. ASSUME NEW e \in BOOLEAN, TerminateResync(e) PROVE ReadyIsServed'
  <2>1. CASE kicks' = kicks + 1
    BY <1>1, <2>1 DEF ReadyIsServed
  <2>2. CASE phase' = [phase EXCEPT ![RawBuf] = "complete"] /\ UNCHANGED kicks
    <3>1. Ready' = Ready
      BY <1>10, <2>2 DEF TerminateResync, Ready, IInv, TypeOK
    <3> QED
      BY <1>3, <1>10, <2>2, <3>1 DEF TerminateResync
  <2> QED
    BY <1>10, <2>1, <2>2 DEF TerminateResync
<1>11. ASSUME NEW r \in Reqs, TerminateComplete(r) PROVE ReadyIsServed'
  BY <1>1, <1>11 DEF TerminateComplete, ReadyIsServed
<1>12. CASE Kick
  <2>1. Ready' = Ready
    BY <1>12 DEF Kick, Ready
  <2>2. CASE Ready = {}
    BY <2>1, <2>2 DEF ReadyIsServed
  <2>3. CASE Ready # {}
    BY <1>12, <2>3 DEF Kick, ReadyIsServed
  <2> QED
    BY <2>2, <2>3
<1>13. CASE ThreadCall
  BY <1>2, <1>4, <1>13 DEF ThreadCall
<1>14. CASE Administer
  <2>1. CASE Continue
    BY <1>2, <1>4, <2>1 DEF Continue
  <2>2. CASE CopyMaps \/ Pause \/ PauseWake \/ Reconfigure
    <3>1. /\ phase' = phase /\ pc' = pc /\ called' = called /\ kicks' = kicks
      BY <2>2 DEF CopyMaps, Pause, PauseWake, Reconfigure
    <3> QED
      BY <1>3, <3>1 DEF Ready
  <2> QED
    BY <1>14, <2>1, <2>2 DEF Administer
<1>15. CASE SyncSubmit
  BY <1>2, <1>4, <1>15 DEF SyncSubmit, Strategy
<1>16. CASE SyncBegin \/ SyncNext \/ UNCHANGED vars
  <2>1. /\ phase' = phase /\ pc' = pc /\ called' = called /\ kicks' = kicks
    BY <1>16 DEF SyncBegin, SyncNext, vars
  <2> QED
    BY <1>3, <2>1 DEF Ready
<1> QED
  BY <1>5, <1>6, <1>7, <1>8, <1>9, <1>10, <1>11, <1>12, <1>13, <1>14, <1>15,
     <1>16 DEF Next, Initiate

-----------------------------------------------------------------------------
(* The theorems.                                                           *)

\* The invariant of every behaviour of the strategy layer.
THEOREM Invariance == Spec => []IInv
<1>1. IInv /\ [Next]_vars => IInv'
  BY TypeInductive, OrderInductive DEF IInv
<1> QED
  BY <1>1, InitInvariant, PTL DEF Spec

\* Whatever the numbers of requests, threads and chains, the strategy layer is
\* type correct; in particular lv_complcnt never goes below zero.
THEOREM TypeCorrect == Spec => []TypeOK
<1>1. IInv => TypeOK
  BY DEF IInv
<1> QED
  BY <1>1, Invariance, PTL

\* lv_block, lv_unblock and lv_continue keep overlapping requests in the order
\* of their arrival: none in progress has overtaken another.
THEOREM FifoOrder == Spec => [](Chained /\ NoOvertaking)
<1>1. IInv => Chained /\ NoOvertaking
  BY DEF IInv, OrderInv
<1> QED
  BY <1>1, Invariance, PTL

\* A blocked request of a running volume waits for another one: no completion
\* and no lv_continue leaves one behind (lv_unblock).
THEOREM NothingLeftBehind == Spec => []BlockedForCause
<1>1. IInv => BlockedForCause
  BY DEF IInv, OrderInv
<1> QED
  BY <1>1, Invariance, PTL

\* The lower layers never have two requests on the same page of an LTG: of two
\* on one chain the later one would have overtaken the earlier.
THEOREM MutualExclusion == Spec => []Exclusion
<1>1. IInv => Exclusion
  <2> SUFFICES ASSUME IInv, NEW q \in InProgress, NEW r \in InProgress,
                      q # r, Overlap(buf[q], buf[r])
               PROVE  FALSE
    BY DEF Exclusion
  <2> USE DEF IInv, OrderInv
  <2>1. q \in Reqs /\ r \in Reqs /\ phase[q] # "free" /\ phase[r] # "free"
    BY DEF InProgress
  <2>2. PICK c \in Chains : c = Hash(buf[q].ltg) /\ c = Hash(buf[r].ltg)
    BY <2>1, HashType DEF Overlap, TypeOK, Request
  <2>3. PICK i \in DOMAIN workQ[c] : workQ[c][i] = q
    BY <2>1, <2>2 DEF Chained
  <2>4. PICK j \in DOMAIN workQ[c] : workQ[c][j] = r
    BY <2>1, <2>2 DEF Chained
  <2>5. i \in Nat \ {0} /\ j \in Nat \ {0} /\ i # j
    BY <2>3, <2>4 DEF TypeOK
  <2>6. Overlap(buf[r], buf[q])
    BY DEF Overlap
  <2>7. CASE i < j
    <3>1. i \in 1 .. j - 1
      BY <2>5, <2>7
    <3>2. Conflicts(workQ[c], j, buf[r])
      BY <2>3, <3>1 DEF Conflicts
    <3> QED
      BY <2>4, <3>2 DEF NoOvertaking
  <2>8. CASE j < i
    <3>1. j \in 1 .. i - 1
      BY <2>5, <2>8
    <3>2. Conflicts(workQ[c], i, buf[q])
      BY <2>4, <2>6, <3>1 DEF Conflicts
    <3> QED
      BY <2>3, <3>2 DEF NoOvertaking
  <2> QED
    BY <2>5, <2>7, <2>8
<1> QED
  BY <1>1, Invariance, PTL

\* A paused volume has nothing in progress, and lv_complcnt is exactly what
\* lv_pause waits for (lv_pause, lv_complete).
THEOREM PauseCorrect == Spec => []PauseExact
<1>1. IInv => PauseExact
  BY DEF IInv, PauseInv, PauseExact
<1> QED
  BY <1>1, Invariance, PTL

\* A request on lv_ready_Q is never left there with everybody gone: some
\* context is in lv_strategy or lv_initiate, a call is queued on lv_threadq,
\* or an lv_terminate has still to make its test.
THEOREM QueueIsServed == Spec => []ReadyIsServed
<1>1. Init => ReadyIsServed
  BY DEF Init, ReadyIsServed, Ready
<1> QED
  BY <1>1, ServedInductive, Invariance, PTL DEF Spec

-----------------------------------------------------------------------------
(* The resynchronisation that LvStrategy carries through the work queues:  *)
(* lv_initiate does not reach its panics over lx_synctrk as long as nothing*)
(* else touches the extent maps or makes a resynchronisation end early.    *)

(* Track groups of an extent.                                              *)

\* BLK2LX and BLK2LTG (lv_vgda.h) undo what lv_syncx computes, and the block is
\* never the end of media.
LEMMA TrackInverse ==
  ASSUME NEW x \in Exts, NEW t \in Trks
  PROVE  /\ ExtOf(x * TrksPerExt + t) = x
         /\ TrkOf(x * TrksPerExt + t) = t
         /\ x * TrksPerExt + t < LvSize
<1> DEFINE n == TrksPerExt
           l == x * n + t
<1>1. /\ n \in Nat \ {0} /\ x \in Nat /\ t \in Nat /\ t < n
      /\ NumExts \in Nat /\ x + 1 <= NumExts
  BY StrategyAssumption DEF Exts, Trks
<1>2. l \in Nat
  BY <1>1
<1>3. PICK q \in Int, r \in Int : /\ q = l \div n /\ r = l % n
                                  /\ l = n * q + r /\ 0 <= r /\ r < n
  BY <1>1, <1>2
<1>4. q = x
  <2>1. CASE q > x
    <3>1. PICK d \in Nat : q = x + 1 + d
      <4>1. q - (x + 1) \in Nat
        BY <1>1, <1>3, <2>1
      <4> QED
        BY <1>1, <1>3, <4>1
    <3>2. n * q = x * n + n + n * d /\ n * d >= 0
      BY <1>1, <3>1
    <3> QED
      BY <1>1, <1>3, <3>2
  <2>2. CASE q < x
    <3>1. PICK d \in Nat : x = q + 1 + d
      <4>1. x - (q + 1) \in Nat
        BY <1>1, <1>3, <2>2
      <4> QED
        BY <1>1, <1>3, <4>1
    <3>2. x * n = n * q + n + n * d /\ n * d >= 0
      BY <1>1, <1>3, <3>1
    <3> QED
      BY <1>1, <1>3, <3>2
  <2> QED
    BY <1>1, <1>3, <2>1, <2>2
<1>5. r = t
  BY <1>1, <1>3, <1>4
<1>6. l < LvSize
  <2>1. PICK d \in Nat : NumExts = x + 1 + d
    <3>1. NumExts - (x + 1) \in Nat
      BY <1>1
    <3> QED
      BY <1>1, <3>1
  <2>2. NumExts * n = x * n + n + n * d /\ n * d >= 0
    BY <1>1, <2>1
  <2> QED
    BY <1>1, <2>2 DEF LvSize
<1> QED
  BY <1>3, <1>4, <1>5, <1>6 DEF ExtOf, TrkOf

-----------------------------------------------------------------------------
(* The invariant.                                                          *)

\* Nothing but the resynchronisation itself writes lx_synctrk: lv_changelv does
\* not put a copy of the maps back, no write of it is refused with EROFS, and
\* each LTG has a copy to work on.  The runs LvStrategy_change, _rdonly and
\* _nocopy show what each of the three does when it is there.
Undisturbed == ~MayChange /\ ~MayReadOnly /\ ~MayLackCopy

\* The lx_synctrk a track starts from, and the one it leaves behind.
Before == IF rs.recovery THEN NoTrk ELSE rs.trk - 1
After  == IF rs.error \/ rs.recovery \/ rs.trk = TrksPerExt - 1 THEN NoTrk
          ELSE rs.trk

\* Of the resynchronisation in progress lx_synctrk holds the track, from the
\* moment lv_initiate takes its read until the next one's.
Place ==
    /\ phase[RawBuf] # "own"
    /\ phase[RawBuf] # "free" => buf[RawBuf].ltg = rs.ext * TrksPerExt + rs.trk
    /\ phase[RawBuf] \in {"free", "complete"} => synctrk[rs.ext] = After
    /\ phase[RawBuf] \in {"blocked", "ready"} =>
          synctrk[rs.ext] = IF buf[RawBuf].read THEN Before ELSE rs.trk
    /\ phase[RawBuf] \in {"pending", "below"} => synctrk[rs.ext] = rs.trk

\* Only the extent being resynchronised has a track, and then copies take part.
ResyncInv ==
    /\ ~rdonly /\ snap = NoSnap
    /\ \A x \in Exts : synctrk[x] # NoTrk => syncmsk[x] /\ x = rs.ext
    /\ rs.state # "wait" => phase[RawBuf] = "free"
    /\ rs.state = "idle" => synctrk[rs.ext] = NoTrk
    /\ rs.state = "submit" => synctrk[rs.ext] = Before
    /\ rs.state = "wait" => Place

-----------------------------------------------------------------------------
(* Every step keeps it.                                                    *)

\* The request lv_initiate takes is of the track the resynchronisation is at.
LEMMA PlaceOf ==
  ASSUME TypeOK, ResyncInv, phase[RawBuf] # "free"
  PROVE  /\ rs.state = "wait" /\ rs.ext \in Exts /\ rs.trk \in Trks
         /\ ExtOf(buf[RawBuf].ltg) = rs.ext
         /\ TrkOf(buf[RawBuf].ltg) = rs.trk
         /\ ~Refused(RawBuf)
<1>1. /\ rs.state = "wait" /\ rs.ext \in Exts /\ rs.trk \in Trks
      /\ buf[RawBuf].ltg = rs.ext * TrksPerExt + rs.trk
  BY DEF TypeOK, ResyncInv, Place, Resync
<1>2. buf[RawBuf].ltg < LvSize
  BY <1>1, TrackInverse
<1>3. buf[RawBuf].ltg \in Nat /\ LvSize \in Nat
  BY LvSizeType DEF TypeOK, Reqs, Request, LTGs
<1>4. ~Refused(RawBuf)
  BY <1>2, <1>3 DEF Refused, ResyncInv
<1> QED
  BY <1>1, <1>4, TrackInverse

\* A step that leaves the maps and the operation alone, and lv_rawbuf in its
\* place or moved from the blocked to the ready or back, keeps the invariant.
LEMMA ResyncFrame ==
  ASSUME TypeOK, ResyncInv,
         rdonly' = rdonly, snap' = snap, synctrk' = synctrk, syncmsk' = syncmsk,
         rs' = rs, buf'[RawBuf] = buf[RawBuf] \/ phase'[RawBuf] = "free",
         \/ phase'[RawBuf] = phase[RawBuf]
         \/ /\ phase[RawBuf] \in {"blocked", "ready"}
            /\ phase'[RawBuf] \in {"blocked", "ready"}
         \/ phase[RawBuf] = "pending" /\ phase'[RawBuf] = "below"
         \/ phase[RawBuf] = "complete" /\ phase'[RawBuf] = "free"
  PROVE  ResyncInv'
<1>1. Before' = Before /\ After' = After
  BY DEF Before, After
<1>2. Place => Place'
  BY <1>1 DEF Place
<1> QED
  BY <1>1, <1>2 DEF ResyncInv

\* lv_complete of another request at most releases lv_rawbuf, and of lv_rawbuf
\* frees it.
LEMMA CompleteRaw ==
  ASSUME TypeOK, NEW r \in Reqs, Complete(r)
  PROVE  IF r = RawBuf THEN phase'[RawBuf] = "free"
         ELSE /\ buf'[RawBuf] = buf[RawBuf]
              /\ \/ phase'[RawBuf] = phase[RawBuf]
                 \/ phase[RawBuf] = "blocked" /\ phase'[RawBuf] = "ready"
<1>1. RawBuf \in Reqs
  BY DEF Reqs
<1>2. PICK q, i : phase' = [x \in Reqs |->
                     IF x = r THEN "free"
                     ELSE IF x \in Released(q, i) THEN "ready" ELSE phase[x]]
  BY Zenon DEF Complete
<1>3. buf' = [buf EXCEPT ![r] = NoRequest]
  BY DEF Complete
<1>4. \A x \in Released(q, i) : phase[x] = "blocked"
  BY DEF Released, Unblocked
<1> QED
  BY <1>1, <1>2, <1>3, <1>4 DEF TypeOK

\* lv_initiate takes lv_rawbuf off lv_ready_Q: its read steps lx_synctrk to its
\* track, its write finds it there (lv_strategy.c:510-560).
LEMMA TakePlace ==
  ASSUME TypeOK, ResyncInv, NEW S, S \subseteq Ready, SyncInitiate(S, TRUE),
         buf' = buf, rdonly' = rdonly, snap' = snap, rs' = rs,
         RawBuf \in S => phase'[RawBuf] \in {"pending", "below"},
         RawBuf \notin S => \/ phase'[RawBuf] = phase[RawBuf]
                            \/ /\ phase[RawBuf] = "pending"
                               /\ phase'[RawBuf] = "below"
  PROVE  ResyncInv'
<1>1. CASE RawBuf \notin S
  <2>1. UNCHANGED <<synctrk, syncmsk>>
    BY <1>1 DEF SyncInitiate
  <2> QED
    BY <1>1, <2>1, ResyncFrame
<1>2. CASE RawBuf \in S
  <2>1. phase[RawBuf] = "ready"
    BY <1>2 DEF Ready
  <2>2. /\ rs.state = "wait" /\ rs.ext \in Exts /\ rs.trk \in Trks
        /\ ExtOf(buf[RawBuf].ltg) = rs.ext
        /\ TrkOf(buf[RawBuf].ltg) = rs.trk
        /\ ~Refused(RawBuf)
    BY <2>1, PlaceOf
  <2>3. IF buf[RawBuf].read
        THEN /\ syncmsk' = [syncmsk EXCEPT ![rs.ext] = TRUE]
             /\ synctrk' = [synctrk EXCEPT ![rs.ext] = rs.trk]
        ELSE UNCHANGED <<synctrk, syncmsk>>
    BY <1>2, <2>2 DEF SyncInitiate
  <2>4. synctrk \in [Exts -> {NoTrk} \cup Trks] /\ syncmsk \in [Exts -> BOOLEAN]
    BY DEF TypeOK
  <2>5. synctrk[rs.ext] = IF buf[RawBuf].read THEN Before ELSE rs.trk
    BY <2>1, <2>2 DEF ResyncInv, Place
  <2>6. synctrk'[rs.ext] = rs.trk
    BY <2>2, <2>3, <2>4, <2>5
  <2>7. \A x \in Exts : synctrk'[x] # NoTrk => syncmsk'[x] /\ x = rs.ext
    BY <2>2, <2>3, <2>4 DEF ResyncInv
  <2>8. Place'
    BY <1>2, <2>1, <2>2, <2>6 DEF ResyncInv, Place
  <2> QED
    BY <2>2, <2>7, <2>8 DEF ResyncInv
<1> QED
  BY <1>1, <1>2

\* It does not complete lv_rawbuf itself: the read is not refused, and each LTG
\* has a copy.
LEMMA InitiatePlace ==
  ASSUME TypeOK, ResyncInv, Undisturbed,
         NEW p, InitiateAll(p) \/ InitiateSome(p)
  PROVE  ResyncInv'
<1>1. RawBuf \in Reqs
  BY DEF Reqs
<1>2. CASE InitiateAll(p)
  <2>1. /\ SyncInitiate(Ready, TRUE) /\ rs' = rs
        /\ buf' = buf /\ rdonly' = rdonly /\ snap' = snap
        /\ phase'[RawBuf] = IF RawBuf \in Ready \cup Pending(p) THEN "below"
                            ELSE phase[RawBuf]
    BY <1>1, <1>2 DEF InitiateAll
  <2>2. RawBuf \in Pending(p) => phase[RawBuf] = "pending"
    BY DEF Pending
  <2> QED
    BY <2>1, <2>2, TakePlace
<1>3. CASE InitiateSome(p)
  <2>1. PICK taken \in SUBSET Ready, done \in Ready :
           /\ done \notin taken
           /\ Refused(done) \/ (done = RawBuf /\ buf[done].read)
           /\ SyncInitiate(taken \cup {done}, done # RawBuf \/ Refused(done))
           /\ phase' = [r \in Reqs |-> IF r = done THEN "own"
                                       ELSE IF r \in taken THEN "pending"
                                       ELSE phase[r]]
           /\ rs' = IF done = RawBuf THEN [rs EXCEPT !.error = Refused(done)]
                                     ELSE rs
    BY <1>3 DEF InitiateSome
  <2>2. done # RawBuf
    <3> SUFFICES ASSUME done = RawBuf PROVE FALSE
      OBVIOUS
    <3>1. phase[RawBuf] = "ready"
      BY DEF Ready
    <3>2. /\ ExtOf(buf[RawBuf].ltg) = rs.ext /\ rs.ext \in Exts
          /\ ~Refused(RawBuf)
      BY <3>1, PlaceOf
    <3>3. IF synctrk[rs.ext] = NoTrk THEN FALSE \/ MayLackCopy
                                     ELSE FALSE = syncmsk[rs.ext]
      BY <2>1, <3>2 DEF SyncInitiate
    <3> QED
      BY <3>2, <3>3 DEF ResyncInv, Undisturbed
  <2>3. SyncInitiate(taken \cup {done}, TRUE)
    BY <2>1, <2>2
  <2>4. buf' = buf /\ rdonly' = rdonly /\ snap' = snap /\ rs' = rs
    BY <1>3, <2>1, <2>2 DEF InitiateSome
  <2>5. phase'[RawBuf] = IF RawBuf \in taken \cup {done} THEN "pending"
                         ELSE phase[RawBuf]
    BY <1>1, <2>1, <2>2
  <2> QED
    BY <2>3, <2>4, <2>5, TakePlace
<1> QED
  BY <1>2, <1>3

\* lv_terminate turns a read into a write of the same track, and a write or an
\* error ends the track: the operation's last one clears lx_synctrk.
LEMMA TerminatePlace ==
  ASSUME TypeOK, ResyncInv, NEW e \in BOOLEAN, TerminateResync(e)
  PROVE  ResyncInv'
<1>1. /\ RawBuf \in Reqs /\ rs \in Resync
      /\ phase \in [Reqs -> Phases] /\ buf \in [Reqs -> Request]
      /\ synctrk \in [Exts -> {NoTrk} \cup Trks]
  BY DEF Reqs, TypeOK
<1>2. phase[RawBuf] = "below"
  BY DEF TerminateResync
<1>3. /\ rs.state = "wait" /\ rs.ext \in Exts /\ rs.trk \in Trks
      /\ ExtOf(buf[RawBuf].ltg) = rs.ext
      /\ synctrk[rs.ext] = rs.trk
      /\ buf[RawBuf].ltg = rs.ext * TrksPerExt + rs.trk
  BY <1>2, PlaceOf DEF ResyncInv, Place
<1>4. /\ rs'.error = e /\ rs'.state = "wait" /\ rs'.ext = rs.ext
      /\ rs'.trk = rs.trk /\ rs'.recovery = rs.recovery
  BY <1>1, <1>3 DEF TerminateResync, Resync
<1>5. /\ \E b \in BOOLEAN : buf' = [buf EXCEPT ![RawBuf].read = b]
      /\ rdonly' = rdonly /\ snap' = snap /\ syncmsk' = syncmsk
  BY DEF TerminateResync
<1>6. buf'[RawBuf].ltg = buf[RawBuf].ltg
  BY <1>1, <1>5 DEF Request
<1>7. CASE (LastTrack(rs.ext) /\ ~buf[RawBuf].read) \/ e
  <2>1. /\ synctrk' = [synctrk EXCEPT ![rs.ext] = NoTrk]
        /\ phase' = [phase EXCEPT ![RawBuf] = "complete"]
    BY <1>3, <1>7 DEF TerminateResync
  <2>2. synctrk'[rs.ext] = NoTrk /\ phase'[RawBuf] = "complete"
    BY <1>1, <1>3, <2>1
  <2>3. After' = NoTrk
    BY <1>3, <1>4, <1>7 DEF After, LastTrack
  <2>4. \A x \in Exts : synctrk'[x] # NoTrk => syncmsk'[x] /\ x = rs.ext
    BY <1>1, <1>5, <2>1 DEF ResyncInv
  <2>5. Place'
    BY <1>3, <1>4, <1>6, <2>2, <2>3 DEF Place
  <2> QED
    BY <1>4, <1>5, <2>4, <2>5 DEF ResyncInv
<1>8. CASE ~((LastTrack(rs.ext) /\ ~buf[RawBuf].read) \/ e)
  <2>1. /\ synctrk' = synctrk
        /\ buf' = [buf EXCEPT ![RawBuf].read = FALSE]
        /\ phase' = [phase EXCEPT ![RawBuf] =
              IF buf[RawBuf].read THEN "ready" ELSE "complete"]
    BY <1>3, <1>8 DEF TerminateResync
  <2>2. /\ ~buf'[RawBuf].read
        /\ phase'[RawBuf] = IF buf[RawBuf].read THEN "ready" ELSE "complete"
    BY <1>1, <2>1 DEF Request
  <2>3. phase'[RawBuf] = "complete" => After' = rs.trk
    BY <1>3, <1>4, <1>8, <2>2 DEF After, LastTrack
  <2>4. Place'
    BY <1>3, <1>4, <1>6, <2>1, <2>2, <2>3 DEF Place
  <2> QED
    BY <1>4, <1>5, <2>1, <2>4 DEF ResyncInv
<1> QED
  BY <1>7, <1>8

\* Every step keeps lx_synctrk at the track the resynchronisation is at.
LEMMA ResyncInductive ==
  Undisturbed /\ IInv /\ ResyncInv /\ [Next]_vars => ResyncInv'
<1> SUFFICES ASSUME Undisturbed, IInv, ResyncInv, [Next]_vars PROVE ResyncInv'
  OBVIOUS
<1>0. TypeOK /\ RawBuf \in Reqs /\ RawBuf \notin Bufs
  BY StrategyAssumption DEF IInv, Reqs
<1> USE <1>0
<1>1. ASSUME phase'[RawBuf] = phase[RawBuf], buf'[RawBuf] = buf[RawBuf],
             UNCHANGED <<rdonly, snap, synctrk, syncmsk, rs>>
      PROVE  ResyncInv'
  BY <1>1, ResyncFrame
<1>2. ASSUME NEW p \in Callers, UserRequest(p) PROVE ResyncInv'
  <2>1. PICK r \in Bufs, a \in Shapes : Strategy(p, r, a)
    BY <1>2 DEF UserRequest
  <2>2. /\ buf' = [buf EXCEPT ![r] = a]
        /\ \E s : phase' = [phase EXCEPT ![r] = s]
    BY <2>1 DEF Strategy, Block
  <2>3. buf'[RawBuf] = buf[RawBuf] /\ phase'[RawBuf] = phase[RawBuf]
    BY <2>2 DEF TypeOK
  <2> QED
    BY <1>1, <1>2, <2>1, <2>3 DEF UserRequest, Strategy
<1>3. ASSUME NEW p \in Procs, Check(p) PROVE ResyncInv'
  BY <1>1, <1>3 DEF Check
<1>4. ASSUME NEW p \in Procs, InitiateAll(p) \/ InitiateSome(p)
      PROVE  ResyncInv'
  BY <1>4, InitiatePlace
<1>5. ASSUME NEW r \in Reqs, Complete(r), phase[r] \in {"own", "complete"},
             UNCHANGED <<rdonly, snap, synctrk, syncmsk, rs>>
      PROVE  ResyncInv'
  <2>1. CASE r = RawBuf
    <3>1. phase[RawBuf] # "own"
      BY <1>5, <2>1 DEF ResyncInv, Place
    <3> QED
      BY <1>5, <2>1, <3>1, CompleteRaw, ResyncFrame
  <2>2. CASE r # RawBuf
    BY <1>5, <2>2, CompleteRaw, ResyncFrame
  <2> QED
    BY <2>1, <2>2
<1>6. ASSUME NEW p \in Procs, InitiateComplete(p) PROVE ResyncInv'
  BY <1>5, <1>6 DEF InitiateComplete
<1>7. ASSUME NEW r \in Reqs, TerminateRequest(r) PROVE ResyncInv'
  BY <1>1, <1>7 DEF TerminateRequest, TypeOK
<1>8. ASSUME NEW r \in Reqs, TerminateComplete(r) PROVE ResyncInv'
  BY <1>5, <1>8 DEF TerminateComplete
<1>9. ASSUME NEW e \in BOOLEAN, TerminateResync(e) PROVE ResyncInv'
  BY <1>9, TerminatePlace
<1>10. CASE Kick \/ ThreadCall
  BY <1>1, <1>10 DEF Kick, ThreadCall
<1>11. CASE Administer
  <2>1. CASE CopyMaps
    BY <2>1 DEF CopyMaps, Undisturbed
  <2>2. CASE Pause \/ PauseWake
    BY <1>1, <2>2 DEF Pause, PauseWake
  <2>3. CASE Reconfigure
    <3>1. UNCHANGED <<synctrk, syncmsk>>
      BY <2>3 DEF Reconfigure, ResyncInv
    <3>2. rdonly' = rdonly /\ snap' = snap
      BY <2>3 DEF Reconfigure, ResyncInv, Undisturbed
    <3> QED
      BY <1>1, <2>3, <3>1, <3>2 DEF Reconfigure
  <2>4. CASE Continue
    <3>1. lvStatus = "paused"
      BY <2>4 DEF Continue, IInv, PauseInv, CommandOK, TypeOK
    <3>2. phase[RawBuf] \in {"free", "blocked"}
      BY <3>1 DEF IInv, PauseInv, PausedIsQuiet, InProgress
    <3>3. phase'[RawBuf] \in IF phase[RawBuf] = "free" THEN {"free"}
                             ELSE {"blocked", "ready"}
      BY <2>4 DEF Continue
    <3> QED
      BY <2>4, <3>2, <3>3, ResyncFrame DEF Continue
  <2> QED
    BY <1>11, <2>1, <2>2, <2>3, <2>4 DEF Administer
<1>12. CASE SyncBegin
  <2>1. /\ rs.state = "idle" /\ phase' = phase /\ buf' = buf
        /\ rs'.state = "submit" /\ (~rs'.recovery => rs'.trk = 0)
        /\ UNCHANGED <<rdonly, snap, synctrk, syncmsk>> /\ rs'.ext \in Exts
    BY <1>12 DEF SyncBegin
  <2>2. \A x \in Exts : synctrk[x] = NoTrk
    BY <2>1 DEF ResyncInv
  <2>3. Before' = NoTrk
    BY <2>1 DEF Before, NoTrk
  <2>4. phase[RawBuf] = "free"
    BY <2>1 DEF ResyncInv
  <2> QED
    BY <2>1, <2>2, <2>3, <2>4 DEF ResyncInv
<1>13. CASE SyncSubmit
  <2>1. Strategy(Syncer, RawBuf, [ltg |-> rs.ext * TrksPerExt + rs.trk,
                                  pages |-> Pages, read |-> TRUE])
    BY <1>13 DEF SyncSubmit
  <2>2. /\ buf' = [buf EXCEPT ![RawBuf] = [ltg |-> rs.ext * TrksPerExt + rs.trk,
                                           pages |-> Pages, read |-> TRUE]]
        /\ \E s \in {"blocked", "ready"} : phase' = [phase EXCEPT ![RawBuf] = s]
        /\ UNCHANGED <<rdonly, snap, synctrk, syncmsk>>
    BY <2>1 DEF Strategy, Block
  <2>3. /\ buf'[RawBuf].ltg = rs.ext * TrksPerExt + rs.trk /\ buf'[RawBuf].read
        /\ phase'[RawBuf] \in {"blocked", "ready"}
    BY <2>2 DEF TypeOK
  <2>4. /\ rs.state = "submit" /\ rs'.state = "wait" /\ rs'.ext = rs.ext
        /\ rs'.trk = rs.trk /\ rs'.recovery = rs.recovery
    BY <1>13 DEF SyncSubmit, TypeOK, Resync
  <2>5. synctrk'[rs'.ext] = Before'
    BY <2>2, <2>4 DEF ResyncInv, Before
  <2>6. Place'
    BY <2>3, <2>4, <2>5 DEF Place
  <2> QED
    BY <2>2, <2>4, <2>6 DEF ResyncInv
<1>14. CASE SyncNext
  <2>1. /\ rs.state = "wait" /\ phase[RawBuf] = "free"
        /\ phase' = phase /\ buf' = buf
        /\ UNCHANGED <<rdonly, snap, synctrk, syncmsk>>
    BY <1>14 DEF SyncNext
  <2>2. synctrk[rs.ext] = After
    BY <2>1 DEF ResyncInv, Place
  <2>3. CASE rs.error \/ rs.recovery \/ rs.trk = TrksPerExt - 1
    <3>1. rs'.state = "idle" /\ rs'.ext = rs.ext
      BY <1>14, <2>3 DEF SyncNext, TypeOK, Resync
    <3>2. synctrk[rs.ext] = NoTrk
      BY <2>2, <2>3 DEF After
    <3> QED
      BY <2>1, <3>1, <3>2 DEF ResyncInv
  <2>4. CASE ~(rs.error \/ rs.recovery \/ rs.trk = TrksPerExt - 1)
    <3>1. /\ rs'.state = "submit" /\ rs'.ext = rs.ext /\ rs'.trk = rs.trk + 1
          /\ rs'.recovery = rs.recovery
      BY <1>14, <2>4 DEF SyncNext, TypeOK, Resync
    <3>2. rs.trk \in Int
      BY DEF TypeOK, Resync, Trks
    <3>3. synctrk[rs.ext] = Before'
      BY <2>2, <2>4, <3>1, <3>2 DEF After, Before
    <3> QED
      BY <2>1, <3>1, <3>3 DEF ResyncInv
  <2> QED
    BY <2>3, <2>4
<1>15. CASE UNCHANGED vars
  BY <1>1, <1>15 DEF vars
<1> QED
  BY <1>2, <1>3, <1>4, <1>6, <1>7, <1>8, <1>9, <1>10, <1>11, <1>12, <1>13,
     <1>14, <1>15 DEF Next, Initiate

-----------------------------------------------------------------------------
(* The theorem.                                                            *)

\* As long as nothing else touches lx_synctrk and every LTG has a copy, neither
\* "lv_initiate resync read" nor "lv_initiate resync write" is reached, however
\* the requests, the pauses and errors of the devices interleave
\* (lv_strategy.c:529 and 551).
THEOREM ResyncInSequence ==
  ASSUME Undisturbed
  PROVE  Spec => []NoResyncPanic
<1>1. Init => ResyncInv
  <2> SUFFICES ASSUME Init PROVE ResyncInv
    OBVIOUS
  <2>1. RawBuf \in Reqs /\ 0 \in Exts
    BY StrategyAssumption DEF Reqs, Exts
  <2> QED
    BY <2>1 DEF Init, ResyncInv
<1>2. IInv /\ ResyncInv => NoResyncPanic
  <2> SUFFICES ASSUME IInv, ResyncInv, RawBuf \in Ready
               PROVE  ~OutOfOrder(RawBuf)
    BY DEF NoResyncPanic
  <2>1. phase[RawBuf] = "ready" /\ TypeOK
    BY DEF Ready, IInv
  <2>2. /\ rs.state = "wait" /\ rs.ext \in Exts /\ rs.trk \in Trks
        /\ ExtOf(buf[RawBuf].ltg) = rs.ext
        /\ TrkOf(buf[RawBuf].ltg) = rs.trk
    BY <2>1, PlaceOf
  <2>3. synctrk[rs.ext] = IF buf[RawBuf].read THEN Before ELSE rs.trk
    BY <2>1, <2>2 DEF ResyncInv, Place
  <2> QED
    BY <2>2, <2>3 DEF OutOfOrder, Before
<1>3. IInv /\ ResyncInv /\ [Next]_vars => ResyncInv'
  BY ResyncInductive
<1> QED
  BY <1>1, <1>2, <1>3, Invariance, PTL DEF Spec

-----------------------------------------------------------------------------
(* LvStrategy implements LvPageLocks: with the chains for the order of   *)
(* arrival, lv_block is the arrival of a request, lv_complete its end,   *)
(* lv_pause and lv_continue close and open the gate, and everything else *)
(* is invisible.                                                         *)
-----------------------------------------------------------------------------
(* The requests in front of a request.                                     *)

\* x asks for the LTG of r and is in front of it on its chain.
Precedes(x, r) ==
    \E c \in Chains : \E i, j \in DOMAIN workQ[c] :
        /\ j < i /\ workQ[c][i] = r /\ workQ[c][j] = x
        /\ buf[x].ltg = buf[r].ltg

OlderOnChain == PageOlder = [r \in Reqs |-> {x \in Reqs : Precedes(x, r)}]

\* A request in progress has no older request in its way.
BusyGranted ==
    \A r \in Reqs : PageState[r] = "busy" =>
        \A q \in PageOlder[r] : PageAsk[q].pages \cap PageAsk[r].pages = {}

\* The hash chain is where the order of an LTG's requests is found.
LEMMA OlderPrecedes == TypeOK /\ Chained => OlderOnChain
<1> SUFFICES ASSUME TypeOK, Chained, NEW r \in Reqs
             PROVE  OlderOf(r) = {x \in Reqs : Precedes(x, r)}
  BY DEF OlderOnChain, PageOlder
<1>1. Hash(buf[r].ltg) \in Chains
  BY HashType DEF TypeOK, Request
<1>2. PICK c \in Chains : c = Hash(buf[r].ltg)
  BY <1>1
<1>3. workQ[c] \in Seq(Reqs)
  BY DEF TypeOK
<1>4. \A d \in Chains : \A i \in DOMAIN workQ[d] :
         workQ[d][i] = r => d = c /\ phase[r] # "free"
  BY <1>2 DEF Chained
<1>5. CASE phase[r] = "free"
  BY <1>4, <1>5 DEF OlderOf, Precedes
<1>6. CASE phase[r] # "free"
  <2>1. OlderOf(r) = {workQ[c][k] : k \in {j \in DOMAIN workQ[c] :
                 /\ buf[workQ[c][j]].ltg = buf[r].ltg
                 /\ \E i \in DOMAIN workQ[c] : workQ[c][i] = r /\ j < i}}
    BY <1>2, <1>6 DEF OlderOf
  <2>2. ASSUME NEW x, x \in OlderOf(r) PROVE x \in Reqs /\ Precedes(x, r)
    BY <1>3, <2>1, <2>2 DEF Precedes
  <2>3. ASSUME NEW x \in Reqs, Precedes(x, r) PROVE x \in OlderOf(r)
    BY <1>4, <2>1, <2>3 DEF Precedes
  <2> QED
    BY <2>2, <2>3
<1> QED
  BY <1>5, <1>6

\* It is so because it has overtaken none on its chain.
LEMMA BusyGrantable == IInv => BusyGranted
<1> SUFFICES ASSUME IInv, NEW r \in Reqs, PageState[r] = "busy",
                    NEW q \in PageOlder[r]
             PROVE  PageAsk[q].pages \cap PageAsk[r].pages = {}
  BY DEF BusyGranted
<1>1. TypeOK /\ Chained /\ NoOvertaking
  BY DEF IInv, OrderInv
<1>2. q \in Reqs /\ Precedes(q, r)
  BY <1>1, OlderPrecedes DEF OlderOnChain
<1>3. PICK c \in Chains : \E i, j \in DOMAIN workQ[c] :
        /\ j < i /\ workQ[c][i] = r /\ workQ[c][j] = q
        /\ buf[q].ltg = buf[r].ltg
  BY <1>2 DEF Precedes
<1>4. PICK i \in DOMAIN workQ[c], j \in DOMAIN workQ[c] :
        /\ j < i /\ workQ[c][i] = r /\ workQ[c][j] = q
        /\ buf[q].ltg = buf[r].ltg
  BY <1>3
<1>5. r \in InProgress
  BY DEF PageState, InProgress, IInv, TypeOK
<1>6. ~Conflicts(workQ[c], i, buf[r])
  BY <1>1, <1>4, <1>5 DEF NoOvertaking
<1>7. j \in 1 .. i - 1
  BY <1>1, <1>4 DEF TypeOK
<1>8. ~Overlap(buf[q], buf[r])
  BY <1>4, <1>6, <1>7 DEF Conflicts
<1>9. phase[q] # "free" /\ phase[r] # "free"
  BY <1>1, <1>4 DEF Chained
<1> QED
  BY <1>2, <1>4, <1>8, <1>9 DEF Overlap, PageAsk

\* Both hold after a step as well.
LEMMA OrderNext ==
  /\ TypeOK' /\ Chained' => OlderOnChain'
  /\ IInv' => BusyGranted'
  BY OlderPrecedes, BusyGrantable, PTL

\* Whatever a step lets go while the gate is open is a grant.
LEMMA GrantStep ==
  ASSUME IInv', NEW st \in [Reqs -> {"out", "waiting", "busy"}], NEW g,
         \A x \in Reqs : \/ PageState'[x] = st[x]
                         \/ /\ st[x] = "waiting" /\ PageState'[x] = "busy"
                            /\ g = "open",
         PageGate' = g
  PROVE  PageLocks!Grant(st, PageAsk', PageOlder', g)
<1> DEFINE G == {x \in Reqs : st[x] = "waiting" /\ PageState'[x] = "busy"}
<1>1. G \in SUBSET {x \in Reqs : st[x] = "waiting"
                       /\ PageLocks!Grantable(x, PageAsk', PageOlder')}
  BY OrderNext DEF BusyGranted, PageLocks!Grantable
<1>2. G # {} => g = "open"
  OBVIOUS
<1>3. PageState' = [x \in Reqs |-> IF x \in G THEN "busy" ELSE st[x]]
  <2>1. PageState' = [x \in Reqs |-> PageState'[x]]
    BY DEF PageState
  <2> QED
    BY <2>1
<1> QED
  BY <1>1, <1>2, <1>3 DEF PageLocks!Grant

-----------------------------------------------------------------------------
(* The actions.                                                            *)

\* What leaves the chains, the requests and what is in progress alone is
\* invisible, the status of the volume apart.
LEMMA Stutter ==
  ASSUME IInv, IInv', workQ' = workQ,
         \A x \in Reqs : /\ buf'[x].ltg = buf[x].ltg
                         /\ buf'[x].pages = buf[x].pages
                         /\ \/ phase'[x] = phase[x]
                            \/ {phase[x], phase'[x]} \cap {"free", "blocked"} = {}
  PROVE  PageState' = PageState /\ PageAsk' = PageAsk /\ PageOlder' = PageOlder
<1>1. PageState' = PageState
  BY DEF PageState
<1>2. PageAsk' = PageAsk
  BY DEF PageAsk
<1>3. \A x, r \in Reqs : Precedes(x, r)' <=> Precedes(x, r)
  BY DEF Precedes
<1>4. PageOlder' = PageOlder
  <2>1. PageOlder = [r \in Reqs |-> {x \in Reqs : Precedes(x, r)}]
    BY OlderPrecedes DEF OlderOnChain, IInv, OrderInv
  <2>2. PageOlder' = [r \in Reqs |-> {x \in Reqs : Precedes(x, r)'}]
    BY OrderNext DEF OlderOnChain, IInv, OrderInv
  <2>3. \A r \in Reqs : {x \in Reqs : Precedes(x, r)'} = {x \in Reqs : Precedes(x, r)}
    BY <1>3
  <2> QED
    BY <2>1, <2>2, <2>3
<1> QED
  BY <1>1, <1>2, <1>4

\* lv_block is the arrival of a request: those of its LTG that are outstanding
\* are the ones in front of it on the chain.
LEMMA BlockArrives ==
  ASSUME IInv, IInv', NEW r \in Reqs, NEW a \in Request,
         phase[r] = "free", Block(r, a), lvStatus' = lvStatus
  PROVE  \E b \in PageLocks!Asks : PageLocks!Arrive(r, b)
<1> USE DEF IInv, OrderInv
<1>1. PICK c \in Chains, n \in Nat :
      /\ c = Hash(a.ltg) /\ n = Len(workQ[c]) + 1
      /\ workQ' \in [Chains -> Seq(Reqs)]
      /\ \A d \in Chains \ {c} : workQ'[d] = workQ[d]
      /\ Len(workQ'[c]) = n
      /\ \A k \in 1 .. Len(workQ[c]) : workQ'[c][k] = workQ[c][k]
      /\ workQ'[c][n] = r
      /\ buf' \in [Reqs -> Request] /\ buf'[r] = a
      /\ phase' \in [Reqs -> Phases] /\ phase'[r] \in {"blocked", "ready"}
      /\ phase'[r] = "blocked" <=> lvStatus # "open" \/ Conflicts(workQ[c], n, a)
      /\ \A x \in Reqs \ {r} : phase'[x] = phase[x] /\ buf'[x] = buf[x]
  BY BlockEffect
<1>2. \A d \in Chains : workQ[d] \in Seq(Reqs) /\ Len(workQ[d]) \in Nat
                        /\ DOMAIN workQ[d] = 1 .. Len(workQ[d])
                        /\ DOMAIN workQ'[d] = 1 .. Len(workQ'[d])
  BY <1>1 DEF TypeOK
<1>3. \A d \in Chains : \A k \in DOMAIN workQ[d] :
         workQ[d][k] \in Reqs /\ workQ[d][k] # r
  BY <1>2 DEF Chained
<1>4. \A d \in Chains : \A k \in DOMAIN workQ[d] :
         k \in DOMAIN workQ'[d] /\ workQ'[d][k] = workQ[d][k]
  <2> SUFFICES ASSUME NEW d \in Chains, NEW k \in DOMAIN workQ[d]
               PROVE  k \in DOMAIN workQ'[d] /\ workQ'[d][k] = workQ[d][k]
    OBVIOUS
  <2>1. CASE d = c
    <3>1. k \in 1 .. Len(workQ[c]) /\ Len(workQ[c]) \in Nat /\ c \in Chains
      BY <1>1, <1>2, <2>1
    <3>2. Len(workQ'[c]) = Len(workQ[c]) + 1 /\ DOMAIN workQ'[c] = 1 .. Len(workQ'[c])
      BY <1>1, <1>2
    <3>3. workQ'[c][k] = workQ[c][k]
      BY <1>1, <3>1
    <3> QED
      BY <2>1, <3>1, <3>2, <3>3
  <2>2. CASE d # c
    BY <1>1, <1>2, <2>2
  <2> QED
    BY <2>1, <2>2
<1>5. \A d \in Chains : \A k \in DOMAIN workQ'[d] :
         k \in DOMAIN workQ[d] \/ (d = c /\ k = n)
  BY <1>1, <1>2
<1>6. n \in DOMAIN workQ'[c] /\ (\A k \in DOMAIN workQ[c] : k < n)
  BY <1>1, <1>2
<1>7. \A x, y \in Reqs : y # r => (Precedes(x, y)' <=> Precedes(x, y))
  <2> SUFFICES ASSUME NEW x \in Reqs, NEW y \in Reqs, y # r
               PROVE  Precedes(x, y)' <=> Precedes(x, y)
    OBVIOUS
  <2>1. ASSUME Precedes(x, y) PROVE Precedes(x, y)'
    <3>1. PICK d \in Chains : \E i, j \in DOMAIN workQ[d] :
             /\ j < i /\ workQ[d][i] = y /\ workQ[d][j] = x
             /\ buf[x].ltg = buf[y].ltg
      BY <2>1 DEF Precedes
    <3>2. x # r /\ buf'[x].ltg = buf'[y].ltg
      BY <1>1, <1>3, <3>1
    <3>3. \E i, j \in DOMAIN workQ'[d] :
             j < i /\ workQ'[d][i] = y /\ workQ'[d][j] = x
      BY <1>4, <3>1
    <3> QED
      BY <3>2, <3>3 DEF Precedes
  <2>2. ASSUME Precedes(x, y)' PROVE Precedes(x, y)
    <3>1. PICK d \in Chains : \E i, j \in DOMAIN workQ'[d] :
             /\ j < i /\ workQ'[d][i] = y /\ workQ'[d][j] = x
             /\ buf'[x].ltg = buf'[y].ltg
      BY <2>2 DEF Precedes
    <3>2. PICK i \in DOMAIN workQ'[d], j \in DOMAIN workQ'[d] :
             /\ j < i /\ workQ'[d][i] = y /\ workQ'[d][j] = x
             /\ buf'[x].ltg = buf'[y].ltg
      BY <3>1
    <3>3. i \in DOMAIN workQ[d]
      BY <1>1, <1>5, <3>2
    <3>4. j \in DOMAIN workQ[d]
      BY <1>2, <1>5, <1>6, <3>2, <3>3
    <3>5. /\ workQ[d][i] = y /\ workQ[d][j] = x /\ x # r
          /\ buf[x].ltg = buf[y].ltg
      BY <1>1, <1>3, <1>4, <3>2, <3>3, <3>4
    <3> QED
      BY <3>2, <3>3, <3>4, <3>5 DEF Precedes
  <2> QED
    BY <2>1, <2>2
<1>8. \A x \in Reqs : Precedes(x, r)' <=> phase[x] # "free" /\ buf[x].ltg = a.ltg
  <2> SUFFICES ASSUME NEW x \in Reqs
               PROVE  Precedes(x, r)' <=> phase[x] # "free" /\ buf[x].ltg = a.ltg
    OBVIOUS
  <2>1. ASSUME phase[x] # "free", buf[x].ltg = a.ltg PROVE Precedes(x, r)'
    <3>1. PICK j \in DOMAIN workQ[c] : workQ[c][j] = x
      BY <1>1, <2>1 DEF Chained
    <3>2. /\ j \in DOMAIN workQ'[c] /\ workQ'[c][j] = x /\ j < n /\ x # r
      BY <1>3, <1>4, <1>6, <3>1
    <3>3. buf'[x].ltg = buf'[r].ltg
      BY <1>1, <2>1, <3>2
    <3> QED
      BY <1>1, <1>6, <3>2, <3>3 DEF Precedes
  <2>2. ASSUME Precedes(x, r)' PROVE phase[x] # "free" /\ buf[x].ltg = a.ltg
    <3>1. PICK d \in Chains : \E i, j \in DOMAIN workQ'[d] :
             /\ j < i /\ workQ'[d][i] = r /\ workQ'[d][j] = x
             /\ buf'[x].ltg = buf'[r].ltg
      BY <2>2 DEF Precedes
    <3>2. PICK i \in DOMAIN workQ'[d], j \in DOMAIN workQ'[d] :
             /\ j < i /\ workQ'[d][i] = r /\ workQ'[d][j] = x
             /\ buf'[x].ltg = buf'[r].ltg
      BY <3>1
    <3>3. d = c /\ i = n
      BY <1>3, <1>4, <1>5, <3>2
    <3>4. j \in DOMAIN workQ[c]
      BY <1>2, <1>5, <1>6, <3>2, <3>3
    <3>5. workQ[c][j] = x /\ x # r
      BY <1>3, <1>4, <3>2, <3>3, <3>4
    <3> QED
      BY <1>1, <3>2, <3>4, <3>5 DEF Chained
  <2> QED
    BY <2>1, <2>2
<1> DEFINE b == [ltg |-> a.ltg, pages |-> a.pages]
           st == [PageState EXCEPT ![r] = "waiting"]
<1>9. PageOlder' = [PageOlder EXCEPT ![r] =
                       {q \in PageLocks!Outstanding : PageAsk[q].ltg = b.ltg}]
  <2>1. {q \in PageLocks!Outstanding : PageAsk[q].ltg = b.ltg}
           = {x \in Reqs : phase[x] # "free" /\ buf[x].ltg = a.ltg}
    BY DEF PageLocks!Outstanding, PageState, PageAsk
  <2>2. PageOlder = [y \in Reqs |-> {x \in Reqs : Precedes(x, y)}]
    BY OlderPrecedes DEF OlderOnChain
  <2>3. PageOlder' = [y \in Reqs |-> {x \in Reqs : Precedes(x, y)'}]
    BY OrderNext DEF OlderOnChain
  <2>4. \A y \in Reqs : {x \in Reqs : Precedes(x, y)'} =
           IF y = r THEN {x \in Reqs : phase[x] # "free" /\ buf[x].ltg = a.ltg}
           ELSE {x \in Reqs : Precedes(x, y)}
    BY <1>7, <1>8
  <2> QED
    BY <2>1, <2>2, <2>3, <2>4
<1>10. PageAsk' = [PageAsk EXCEPT ![r] = b]
  BY <1>1, ZenonT(60) DEF PageAsk
<1>11. PageLocks!Grant(st, PageAsk', PageOlder', PageGate)
  <2>1. PageState \in [Reqs -> {"out", "waiting", "busy"}]
    BY DEF PageState
  <2>2. st \in [Reqs -> {"out", "waiting", "busy"}]
    BY <2>1
  <2>3. PageGate' = PageGate
    BY DEF PageGate
  <2>4. \A x \in Reqs : \/ PageState'[x] = st[x]
                        \/ /\ st[x] = "waiting" /\ PageState'[x] = "busy"
                           /\ PageGate = "open"
    BY <1>1 DEF PageState, PageGate
  <2> HIDE DEF st
  <2> QED
    BY <2>2, <2>3, <2>4, GrantStep
<1>12. b \in PageLocks!Asks
  BY DEF PageLocks!Asks, Request
<1>13. PageState[r] = "out"
  BY DEF PageState
<1> QED
  BY <1>9, <1>10, <1>11, <1>12, <1>13 DEF PageLocks!Arrive

\* lv_complete is the end of a request: the order of the others stays, and what
\* lv_unblock lets go has nothing older in its way.
LEMMA CompleteFinishes ==
  ASSUME IInv, IInv', NEW r \in InProgress, Complete(r), lvStatus' = lvStatus
  PROVE  PageLocks!Finish(r)
<1> USE DEF IInv, OrderInv
<1>0. r \in Reqs /\ phase[r] # "free" /\ phase[r] # "blocked"
  BY DEF InProgress
<1>1. PICK c \in Chains, i \in Nat, q \in Seq(Reqs) :
         /\ i \in 1 .. Len(workQ[c])
         /\ c = Hash(buf[r].ltg) /\ workQ[c][i] = r
         /\ Len(q) = Len(workQ[c]) - 1
         /\ \A k \in 1 .. Len(q) :
               q[k] = IF k < i THEN workQ[c][k] ELSE workQ[c][k + 1]
         /\ workQ' = [workQ EXCEPT ![c] = q]
         /\ buf' = [buf EXCEPT ![r] = NoRequest]
         /\ phase' = [x \in Reqs |->
               IF x = r THEN "free"
               ELSE IF x \in (IF lvStatus = "pausing" THEN {} ELSE Unblocked(q, i))
                    THEN "ready" ELSE phase[x]]
  BY <1>0, CompleteEffect
<1>2. /\ \A d \in Chains : workQ[d] \in Seq(Reqs) /\ DOMAIN workQ[d] = 1 .. Len(workQ[d])
      /\ \A d \in Chains \ {c} : workQ'[d] = workQ[d]
      /\ workQ'[c] = q
      /\ Len(workQ[c]) \in Nat /\ DOMAIN q = 1 .. Len(workQ[c]) - 1
  BY <1>1 DEF TypeOK
<1>3. \A x \in Reqs \ {r} : buf'[x] = buf[x]
  BY <1>1 DEF TypeOK
<1>4. /\ \A d \in Chains : \A k \in DOMAIN workQ[d] :
            workQ[d][k] = r => d = c /\ k = i
      /\ \A d \in Chains : \A k \in DOMAIN workQ'[d] : workQ'[d][k] # r
  <2>1. \A d \in Chains : \A k \in DOMAIN workQ[d] :
            workQ[d][k] = r => d = c /\ k = i
    BY <1>1, <1>2 DEF Chained
  <2>2. phase'[r] = "free"
    BY <1>0, <1>1
  <2> QED
    BY <2>1, <2>2 DEF Chained
<1>5. \A x, y \in Reqs : Precedes(x, y)' <=> Precedes(x, y) /\ x # r /\ y # r
  <2> SUFFICES ASSUME NEW x \in Reqs, NEW y \in Reqs
               PROVE  Precedes(x, y)' <=> Precedes(x, y) /\ x # r /\ y # r
    OBVIOUS
  <2>1. ASSUME Precedes(x, y)' PROVE Precedes(x, y) /\ x # r /\ y # r
    <3>1. PICK d \in Chains : \E m, j \in DOMAIN workQ'[d] :
             /\ j < m /\ workQ'[d][m] = y /\ workQ'[d][j] = x
             /\ buf'[x].ltg = buf'[y].ltg
      BY <2>1 DEF Precedes
    <3>2. PICK m \in DOMAIN workQ'[d], j \in DOMAIN workQ'[d] :
             /\ j < m /\ workQ'[d][m] = y /\ workQ'[d][j] = x
             /\ buf'[x].ltg = buf'[y].ltg
      BY <3>1
    <3>3. x # r /\ y # r /\ buf[x].ltg = buf[y].ltg
      BY <1>3, <1>4, <3>2
    <3>4. CASE d # c
      BY <1>2, <3>2, <3>3, <3>4 DEF Precedes
    <3>5. CASE d = c
      <4>1. m \in 1 .. Len(q) /\ j \in 1 .. Len(q) /\ q[m] = y /\ q[j] = x
        BY <1>2, <3>2, <3>5
      <4>2. PICK m2 \in 1 .. Len(workQ[c]) :
               /\ workQ[c][m2] = y /\ m2 = IF m < i THEN m ELSE m + 1
        BY <1>1, <1>2, <4>1, SMTT(40), ZenonT(20)
      <4>3. PICK j2 \in 1 .. Len(workQ[c]) :
               /\ workQ[c][j2] = x /\ j2 = IF j < i THEN j ELSE j + 1
        <5>1. /\ Len(workQ[c]) \in Nat /\ i \in Nat /\ j \in 1 .. Len(workQ[c]) - 1
              /\ x = IF j < i THEN workQ[c][j] ELSE workQ[c][j + 1]
          BY <1>1, <1>2, <4>1
        <5> QED
          BY <5>1
      <4>4. j2 < m2
        BY <1>1, <3>2, <4>1, <4>2, <4>3
      <4> QED
        BY <1>2, <3>3, <4>2, <4>3, <4>4 DEF Precedes
    <3> QED
      BY <3>4, <3>5
  <2>2. ASSUME Precedes(x, y), x # r, y # r PROVE Precedes(x, y)'
    <3>1. PICK d \in Chains : \E m, j \in DOMAIN workQ[d] :
             /\ j < m /\ workQ[d][m] = y /\ workQ[d][j] = x
             /\ buf[x].ltg = buf[y].ltg
      BY <2>2 DEF Precedes
    <3>2. PICK m \in DOMAIN workQ[d], j \in DOMAIN workQ[d] :
             /\ j < m /\ workQ[d][m] = y /\ workQ[d][j] = x
             /\ buf[x].ltg = buf[y].ltg
      BY <3>1
    <3>3. buf'[x].ltg = buf'[y].ltg
      BY <1>3, <2>2, <3>2
    <3>4. CASE d # c
      BY <1>2, <3>2, <3>3, <3>4 DEF Precedes
    <3>5. CASE d = c
      <4>1. m \in 1 .. Len(workQ[c]) /\ j \in 1 .. Len(workQ[c])
            /\ m # i /\ j # i
        BY <1>1, <1>2, <2>2, <3>2, <3>5
      <4>2. PICK m2 \in 1 .. Len(q) : q[m2] = y /\ m2 = IF m < i THEN m ELSE m - 1
        <5>1. CASE m < i
          BY <1>1, <1>2, <3>2, <3>5, <4>1, <5>1, SMTT(40), ZenonT(20)
        <5>2. CASE m > i
          <6>1. PICK k \in 1 .. Len(q) : k = m - 1 /\ ~(k < i) /\ k + 1 = m
            BY <1>1, <1>2, <4>1, <5>2
          <6>2. q[k] = workQ[c][k + 1]
            BY <1>1, <6>1
          <6> QED
            BY <1>1, <3>2, <3>5, <4>1, <5>2, <6>1, <6>2
        <5> QED
          BY <1>1, <4>1, <5>1, <5>2
      <4>3. PICK j2 \in 1 .. Len(q) : q[j2] = x /\ j2 = IF j < i THEN j ELSE j - 1
        <5>1. CASE j < i
          BY <1>1, <1>2, <3>2, <3>5, <4>1, <5>1
        <5>2. CASE j > i
          <6>1. PICK k \in 1 .. Len(q) : k = j - 1 /\ ~(k < i) /\ k + 1 = j
            BY <1>1, <1>2, <4>1, <5>2
          <6>2. q[k] = workQ[c][k + 1]
            BY <1>1, <6>1
          <6> QED
            BY <1>1, <3>2, <3>5, <4>1, <5>2, <6>1, <6>2
        <5> QED
          BY <1>1, <4>1, <5>1, <5>2
      <4>4. j2 < m2
        BY <1>1, <3>2, <4>1, <4>2, <4>3
      <4>5. j2 \in DOMAIN workQ'[c] /\ m2 \in DOMAIN workQ'[c]
        BY <1>1, <1>2
      <4> QED
        BY <1>2, <3>3, <3>5, <4>2, <4>3, <4>4, <4>5 DEF Precedes
    <3> QED
      BY <3>4, <3>5
  <2> QED
    BY <2>1, <2>2
<1> DEFINE st == [PageState EXCEPT ![r] = "out"]
<1>6. PageOlder' = [y \in Reqs |-> IF y = r THEN {} ELSE PageOlder[y] \ {r}]
  <2>1. PageOlder = [y \in Reqs |-> {x \in Reqs : Precedes(x, y)}]
    BY OlderPrecedes DEF OlderOnChain
  <2>2. PageOlder' = [y \in Reqs |-> {x \in Reqs : Precedes(x, y)'}]
    BY OrderNext DEF OlderOnChain
  <2>3. \A y \in Reqs : {x \in Reqs : Precedes(x, y)'} =
           IF y = r THEN {} ELSE {x \in Reqs : Precedes(x, y)} \ {r}
    BY <1>5
  <2> QED
    BY <2>1, <2>2, <2>3
<1>7. \A x \in Unblocked(q, i) : phase[x] = "blocked"
  BY DEF Unblocked
<1>8. \A x \in Reqs \ {r} :
         /\ phase'[x] = "free" <=> phase[x] = "free"
         /\ \/ phase'[x] = phase[x]
            \/ phase[x] = "blocked" /\ phase'[x] = "ready" /\ lvStatus # "pausing"
  BY <1>1, <1>7
<1>9. PageAsk' = [PageAsk EXCEPT ![r] = NoAsk]
  BY <1>0, <1>1, <1>3, <1>8 DEF PageAsk
<1>10. PageGate' = PageGate
  BY DEF PageGate
<1>11. lvStatus # "paused"
  BY DEF PauseInv, PausedIsQuiet
<1>12. PageLocks!Grant(st, PageAsk', PageOlder', PageGate)
  <2>1. st \in [Reqs -> {"out", "waiting", "busy"}]
    BY DEF PageState
  <2>2. lvStatus # "pausing" => PageGate = "open"
    BY <1>11 DEF PageGate, TypeOK
  <2>3. \A x \in Reqs : \/ PageState'[x] = st[x]
                        \/ /\ st[x] = "waiting" /\ PageState'[x] = "busy"
                           /\ PageGate = "open"
    <3>1. PageState'[r] = st[r]
      BY <1>0, <1>1 DEF PageState
    <3>2. ASSUME NEW x \in Reqs \ {r}
          PROVE  \/ PageState'[x] = st[x]
                 \/ /\ st[x] = "waiting" /\ PageState'[x] = "busy"
                    /\ PageGate = "open"
      BY <1>8, <2>2 DEF PageState
    <3> QED
      BY <3>1, <3>2
  <2> HIDE DEF st
  <2> QED
    BY <1>10, <2>1, <2>3, GrantStep
<1>13. PageState[r] = "busy"
  BY <1>0 DEF PageState
<1> QED
  BY <1>6, <1>9, <1>12, <1>13 DEF PageLocks!Finish

\* lv_pause and lv_continue close and open the gate; the sleeper in lv_pause is
\* woken when nothing is busy, and lv_continue meets nothing busy.
LEMMA AdministerGate ==
  ASSUME IInv, IInv', Administer
  PROVE  PageLocks!Next \/ UNCHANGED PageLocks!vars
<1> USE DEF IInv
<1>1. InProgress = PageLocks!Busy
  BY DEF InProgress, PageLocks!Busy, PageState, TypeOK
<1>2. ASSUME workQ' = workQ, buf' = buf, phase' = phase
      PROVE  UNCHANGED <<PageState, PageAsk, PageOlder>>
  BY <1>2, Stutter
<1>3. CASE CopyMaps \/ Reconfigure
  <2>1. workQ' = workQ /\ buf' = buf /\ phase' = phase /\ lvStatus' = lvStatus
    BY <1>3 DEF CopyMaps, Reconfigure
  <2> QED
    BY <1>2, <2>1 DEF PageLocks!vars, PageGate
<1>4. CASE Pause
  <2>1. lvStatus = "open"
    BY <1>4 DEF Pause, PauseInv, CommandOK
  <2>2. PageLocks!Close
    BY <1>1, <1>2, <1>4, <2>1 DEF Pause, PageLocks!Close, PageGate
  <2> QED
    BY <2>2 DEF PageLocks!Next
<1>5. CASE PauseWake
  <2>1. lvStatus = "pausing"
    BY <1>5 DEF PauseWake, PauseInv, CommandOK
  <2>2. InProgress = {}
    BY <1>5, <2>1, InProgressFinite DEF PauseWake, PauseInv, PauseCount
  <2>3. PageLocks!Closed
    BY <1>1, <1>2, <1>5, <2>1, <2>2 DEF PauseWake, PageLocks!Closed, PageGate
  <2> QED
    BY <2>3 DEF PageLocks!Next
<1>6. CASE Continue
  <2>1. lvStatus = "paused"
    BY <1>6 DEF Continue, PauseInv, CommandOK, TypeOK
  <2>2. \A x \in Reqs : phase[x] \in {"free", "blocked"}
    BY <2>1 DEF PauseInv, PausedIsQuiet, InProgress
  <2>3. /\ workQ' = workQ /\ buf' = buf /\ lvStatus' = "open"
        /\ \A x \in Reqs : phase'[x] \in IF phase[x] = "free" THEN {"free"}
                                         ELSE {"blocked", "ready"}
    BY <1>6 DEF Continue
  <2>4. PageAsk' = PageAsk
    BY <2>3 DEF PageAsk
  <2>5. PageOlder' = PageOlder
    <3>1. \A x, r \in Reqs : Precedes(x, r)' <=> Precedes(x, r)
      BY <2>3 DEF Precedes
    <3>2. PageOlder = [r \in Reqs |-> {x \in Reqs : Precedes(x, r)}]
      BY OlderPrecedes DEF OlderOnChain, OrderInv
    <3>3. PageOlder' = [r \in Reqs |-> {x \in Reqs : Precedes(x, r)'}]
      BY OrderNext DEF OlderOnChain, OrderInv
    <3>4. \A r \in Reqs : {x \in Reqs : Precedes(x, r)'} = {x \in Reqs : Precedes(x, r)}
      BY <3>1
    <3> QED
      BY <3>2, <3>3, <3>4
  <2>6. PageState \in [Reqs -> {"out", "waiting", "busy"}]
    BY DEF PageState
  <2>7. \A x \in Reqs : \/ PageState'[x] = PageState[x]
                        \/ PageState[x] = "waiting" /\ PageState'[x] = "busy"
    BY <2>2, <2>3 DEF PageState
  <2>8. PageGate = "closed" /\ PageGate' = "open"
    BY <2>1, <2>3 DEF PageGate
  <2>9. PageLocks!Grant(PageState, PageAsk', PageOlder', "open")
    BY <2>6, <2>7, <2>8, GrantStep
  <2>10. PageLocks!Open
    BY <2>4, <2>5, <2>8, <2>9 DEF PageLocks!Open
  <2> QED
    BY <2>10 DEF PageLocks!Next
<1> QED
  BY <1>3, <1>4, <1>5, <1>6 DEF Administer

\* Every step of the strategy layer is one of the page locks, or none.
LEMMA StepImplements ==
  IInv /\ IInv' /\ [Next]_vars => [PageLocks!Next]_PageLocks!vars
<1> SUFFICES ASSUME IInv, IInv', [Next]_vars
             PROVE  PageLocks!Next \/ UNCHANGED PageLocks!vars
  BY DEF PageLocks!vars
<1> USE DEF IInv
<1>1. ASSUME NEW p, NEW r \in Reqs, NEW a \in Request, Strategy(p, r, a)
      PROVE  PageLocks!Next
  <2>1. \E b \in PageLocks!Asks : PageLocks!Arrive(r, b)
    BY <1>1, BlockArrives DEF Strategy
  <2> QED
    BY <2>1 DEF PageLocks!Next
<1>2. ASSUME NEW r \in InProgress, Complete(r), lvStatus' = lvStatus
      PROVE  PageLocks!Next
  <2>1. PageLocks!Finish(r) /\ r \in Reqs
    BY <1>2, CompleteFinishes DEF InProgress
  <2> QED
    BY <2>1 DEF PageLocks!Next
<1>3. ASSUME workQ' = workQ, lvStatus' = lvStatus,
             \A x \in Reqs : /\ buf'[x].ltg = buf[x].ltg
                             /\ buf'[x].pages = buf[x].pages
                             /\ \/ phase'[x] = phase[x]
                                \/ {phase[x], phase'[x]} \cap {"free", "blocked"} = {}
      PROVE  UNCHANGED PageLocks!vars
  <2>1. PageState' = PageState /\ PageAsk' = PageAsk /\ PageOlder' = PageOlder
    BY <1>3, Stutter
  <2>2. PageGate' = PageGate
    BY <1>3 DEF PageGate
  <2> QED
    BY <2>1, <2>2 DEF PageLocks!vars
<1>4. ASSUME NEW p \in Callers, UserRequest(p) PROVE PageLocks!Next
  BY <1>1, <1>4, StrategyAssumption DEF UserRequest, Reqs
<1>5. ASSUME NEW p \in Procs, Check(p) PROVE UNCHANGED PageLocks!vars
  BY <1>3, <1>5 DEF Check
<1>6. ASSUME NEW p \in Procs, InitiateAll(p) PROVE UNCHANGED PageLocks!vars
  BY <1>3, <1>6 DEF InitiateAll, Ready, Pending
<1>7. ASSUME NEW p \in Procs, InitiateSome(p) PROVE UNCHANGED PageLocks!vars
  BY <1>3, <1>7 DEF InitiateSome, Ready
<1>8. ASSUME NEW p \in Procs, InitiateComplete(p) PROVE PageLocks!Next
  BY <1>2, <1>8 DEF InitiateComplete, InProgress
<1>9. ASSUME NEW r \in Reqs, TerminateRequest(r)
      PROVE  UNCHANGED PageLocks!vars
  BY <1>3, <1>9 DEF TerminateRequest, TypeOK
<1>10. ASSUME NEW e \in BOOLEAN, TerminateResync(e)
       PROVE  UNCHANGED PageLocks!vars
  <2>1. RawBuf \in Reqs /\ phase[RawBuf] = "below"
    BY <1>10 DEF TerminateResync, Reqs
  <2>2. \E b : buf' = [buf EXCEPT ![RawBuf].read = b]
    BY <1>10 DEF TerminateResync
  <2>3. \A x \in Reqs : buf'[x].ltg = buf[x].ltg /\ buf'[x].pages = buf[x].pages
    BY <2>1, <2>2 DEF TypeOK, Request
  <2>4. \A x \in Reqs : \/ phase'[x] = phase[x]
                        \/ {phase[x], phase'[x]} \cap {"free", "blocked"} = {}
    BY <1>10, <2>1 DEF TerminateResync, TypeOK
  <2> QED
    BY <1>3, <1>10, <2>3, <2>4 DEF TerminateResync
<1>11. ASSUME NEW r \in Reqs, TerminateComplete(r) PROVE PageLocks!Next
  BY <1>2, <1>11 DEF TerminateComplete, InProgress
<1>12. CASE Kick \/ ThreadCall \/ SyncBegin \/ SyncNext \/ UNCHANGED vars
  <2>1. workQ' = workQ /\ buf' = buf /\ phase' = phase /\ lvStatus' = lvStatus
    BY <1>12 DEF Kick, ThreadCall, SyncBegin, SyncNext, vars
  <2> QED
    BY <1>3, <2>1
<1>13. CASE SyncSubmit
  <2>1. RawBuf \in Reqs
    BY DEF Reqs
  <2>2. [ltg |-> rs.ext * TrksPerExt + rs.trk, pages |-> Pages, read |-> TRUE]
           \in Request
    BY TrackType DEF TypeOK, Resync, Request
  <2> QED
    BY <1>1, <1>13, <2>1, <2>2 DEF SyncSubmit
<1>14. CASE Administer
  BY <1>14, AdministerGate
<1> QED
  BY <1>4, <1>5, <1>6, <1>7, <1>8, <1>9, <1>10, <1>11, <1>12, <1>13, <1>14
     DEF Next, Initiate

-----------------------------------------------------------------------------
(* The theorem.                                                            *)

\* The strategy layer is a set of page locks, granted in order of arrival and
\* behind a gate, for every number of requests, chains and contexts
\* (lv_strategy.c:66-75).
THEOREM ImplementsPageLocks == Spec => Implements
<1>1. Init => PageLocks!Init
  <2> SUFFICES ASSUME Init PROVE PageLocks!Init
    OBVIOUS
  <2>1. \A r \in Reqs : phase[r] = "free"
    BY DEF Init
  <2>2. PageState = [r \in Reqs |-> "out"] /\ PageAsk = [r \in Reqs |-> NoAsk]
    BY <2>1 DEF PageState, PageAsk
  <2>3. PageOlder = [r \in Reqs |-> {}]
    BY <2>1 DEF PageOlder, OlderOf
  <2>4. PageGate = "open"
    BY DEF Init, PageGate
  <2> QED
    BY <2>2, <2>3, <2>4 DEF PageLocks!Init
<1> QED
  BY <1>1, StepImplements, Invariance, PTL DEF Spec, Implements, PageLocks!Spec
=============================================================================
