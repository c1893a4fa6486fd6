---------------------------- MODULE LvVgdaProofs ----------------------------
(***************************************************************************)
(* Proofs about LvVgda, for any number of physical volumes, changes,       *)
(* failures and crashes: type correctness, that writing a descriptor does  *)
(* not destroy the newest one of a PV, and that an answered change         *)
(* survives when every change starts from a settled descriptor.            *)
(***************************************************************************)
EXTENDS LvVgda, FiniteSetTheorems, WellFoundedInduction, TLAPS

-----------------------------------------------------------------------------
(* Maxima, minima and majorities.                                          *)

\* The larger of two numbers.
LEMMA MaxOfTwo ==
  ASSUME NEW a \in Int, NEW b \in Int
  PROVE  Max({a, b}) = IF a >= b THEN a ELSE b
<1>1. CASE a >= b
  <2>1. \A y \in {a, b} : a >= y
    BY <1>1
  <2>2. \A x \in {a, b} : (\A y \in {a, b} : x >= y) => x = a
    BY <1>1
  <2> QED
    BY <1>1, <2>1, <2>2 DEF Max
<1>2. CASE ~(a >= b)
  <2>1. \A y \in {a, b} : b >= y
    BY <1>2
  <2>2. \A x \in {a, b} : (\A y \in {a, b} : x >= y) => x = b
    BY <1>2
  <2> QED
    BY <1>2, <2>1, <2>2 DEF Max
<1> QED
  BY <1>1, <1>2

\* The PVs of a group are finitely many, and so are those in any part of it.
LEMMA PVFinite ==
  /\ PV \subseteq Nat /\ IsFiniteSet(PV)
  /\ \A S \in SUBSET PV : IsFiniteSet(S) /\ Cardinality(S) \in Nat
<1>1. PV \subseteq Nat /\ IsFiniteSet(PV)
  BY VgdaAssumption, FS_Interval DEF PV
<1> QED
  BY <1>1, FS_Subset, FS_CardinalityType

\* A set of numbers that is not empty has a least one.
LEMMA NatLeast ==
  ASSUME NEW T \in SUBSET Nat, T # {}
  PROVE  \E x \in T : \A y \in T : x <= y
<1> DEFINE R == OpToRel(<, Nat)
<1>1. \A x, y \in Nat : y < x => <<y, x>> \in R
  BY DEF OpToRel
<1>2. IsWellFoundedOn(R, Nat)
  BY NatLessThanWellFounded
<1> HIDE DEF R
<1>3. PICK x \in T : \A y \in T : ~(<<y, x>> \in R)
  BY <1>2, WFMin
<1>4. \A y \in T : ~(y < x)
  BY <1>1, <1>3, Zenon
<1>5. \A y \in T : x <= y
  BY <1>4
<1> QED
  BY <1>5

\* The next PV of a command is one of those still to be written.
LEMMA MinOfPVs ==
  ASSUME NEW S \in SUBSET PV, S # {}
  PROVE  Min(S) \in S
<1>1. S \in SUBSET Nat
  BY PVFinite
<1>2. \E x \in S : \A y \in S : x <= y
  BY <1>1, NatLeast
<1> QED
  BY <1>2 DEF Min

\* Two descriptors of which the second is a change of the first: the PVs of the
\* first that a majority of the second's leaves out are no majority of it.
Adjacent(S, T) == T = S \/ \E p \in PV : T = S \cup {p} \/ T = S \ {p}

LEMMA AdjacentMajorities ==
  ASSUME NEW S \in SUBSET PV, NEW T \in SUBSET PV, Adjacent(S, T),
         NEW M \in SUBSET PV, Majority(M, T)
  PROVE  2 * Cardinality(S \ M) <= Cardinality(S)
<1> DEFINE m == Cardinality(M \cap T)
<1>1. /\ m \in Nat /\ Cardinality(S) \in Nat /\ Cardinality(T) \in Nat
      /\ Cardinality(S \ M) \in Nat /\ Cardinality(T \ M) \in Nat
      /\ IsFiniteSet(S) /\ IsFiniteSet(T) /\ IsFiniteSet(M)
      /\ IsFiniteSet(S \ M) /\ IsFiniteSet(T \ M) /\ IsFiniteSet(M \cap T)
  BY PVFinite
<1>2. 2 * m > Cardinality(T)
  BY DEF Majority
<1>3. Cardinality(T \ M) = Cardinality(T) - m
  <2>1. T \cap M = M \cap T
    OBVIOUS
  <2> QED
    BY <1>1, <2>1, FS_Difference, ZenonT(60)
<1> HIDE DEF m
<1>4. CASE T = S
  BY <1>1, <1>2, <1>3, <1>4
<1>5. ASSUME NEW p \in PV, T = S \cup {p}, p \notin S
      PROVE  2 * Cardinality(S \ M) <= Cardinality(S)
  <2>1. Cardinality(T) = Cardinality(S) + 1
    BY <1>1, <1>5, FS_AddElement
  <2>2. S \ M \subseteq T \ M
    BY <1>5
  <2>3. Cardinality(S \ M) <= Cardinality(T \ M)
    BY <1>1, <2>2, FS_Subset
  <2> QED
    BY <1>1, <1>2, <1>3, <2>1, <2>3
<1>6. ASSUME NEW p \in PV, T = S \ {p}, p \in S
      PROVE  2 * Cardinality(S \ M) <= Cardinality(S)
  <2>1. Cardinality(T) = Cardinality(S) - 1
    BY <1>1, <1>6, FS_RemoveElement
  <2>2. Cardinality(S \ M) <= Cardinality(T \ M) + 1
    <3>1. S \ M \subseteq (T \ M) \cup {p}
      BY <1>6
    <3>2. IsFiniteSet((T \ M) \cup {p})
          /\ Cardinality((T \ M) \cup {p}) <= Cardinality(T \ M) + 1
      <4>1. /\ IsFiniteSet((T \ M) \cup {p})
            /\ Cardinality((T \ M) \cup {p})
                 = IF p \in T \ M THEN Cardinality(T \ M) ELSE Cardinality(T \ M) + 1
        BY <1>1, FS_AddElement, Zenon
      <4> QED
        BY <1>1, <4>1
    <3>3. Cardinality(S \ M) <= Cardinality((T \ M) \cup {p})
      BY <3>1, <3>2, FS_Subset
    <3>4. Cardinality((T \ M) \cup {p}) \in Nat
      BY <3>2, FS_CardinalityType
    <3> QED
      BY <1>1, <3>2, <3>3, <3>4
  <2> QED
    BY <1>1, <1>2, <1>3, <2>1, <2>2
<1> QED
  <2>1. ASSUME NEW p \in PV, T = S \cup {p} \/ T = S \ {p}, T # S
        PROVE  2 * Cardinality(S \ M) <= Cardinality(S)
    BY <1>5, <1>6, <2>1
  <2> QED
    BY <1>4, <2>1 DEF Adjacent

-----------------------------------------------------------------------------
(* Types.                                                                  *)

\* No descriptor is newer than the last one that was made.
TimesBound == \A p \in PV, c \in 1 .. 2 : copy[p][c].time <= time /\ ts[p][c] <= time

\* A command updates the descriptors of an active group to the last one that was made.
CmdTime ==
    /\ cmd # NoCmd => active /\ vgda.time = time
    /\ cmd.writing # 0 => cmd.todo # {} /\ Cur \in attached

\* The commands that update the descriptors.
Command == [todo : SUBSET PV, failed : SUBSET PV, gone : SUBSET PV, writing : 0 .. 2]

TypeInv == TypeOK /\ TimesBound /\ CmdTime

\* lv_getvgda finds a PV whose descriptor is the newest (lv_getvgda).
LEMMA MasterIsNewest ==
  ASSUME TypeOK, attached # {}
  PROVE  /\ Master \in attached
         /\ \A q \in attached : Newest(q) <= Newest(Master)
<1>1. \A q \in attached : Newest(q) \in 0 .. MaxTime
  BY DEF TypeOK, Newest, NewestCopy
<1>2. attached \in SUBSET Nat
  BY PVFinite DEF TypeOK
<1> DEFINE T == {MaxTime - Newest(q) : q \in attached}
<1>3. T \in SUBSET Nat /\ T # {}
  BY <1>1, VgdaAssumption
<1>4. PICK t \in T : \A y \in T : t <= y
  BY <1>3, NatLeast
<1>5. PICK m \in attached : t = MaxTime - Newest(m)
  BY <1>4
<1>6. \A q \in attached : MaxTime - Newest(m) <= MaxTime - Newest(q)
  BY <1>4, <1>5
<1>7. \A q \in attached : Newest(q) <= Newest(m)
  BY <1>1, <1>6, VgdaAssumption
<1> DEFINE F == {q \in attached : Newest(q) = Newest(m)}
<1>8. F \in SUBSET Nat /\ F # {}
  BY <1>2
<1>9. PICK p \in F : \A q \in F : p <= q
  BY <1>8, NatLeast
<1>10. /\ p \in attached
       /\ \A q \in attached : Newest(q) <= Newest(p)
       /\ \A q \in attached : Newest(q) = Newest(p) => p <= q
  BY <1>7, <1>9
<1> QED
  BY <1>10 DEF Master

\* Type correctness is kept by every step, together with the bound on the times.
LEMMA TypeInductive ==
  ASSUME TypeInv, [Next]_vars
  PROVE  TypeInv'
<1> USE VgdaAssumption
<1> USE DEF TypeInv
<1>0. cmd \in Command /\ NoCmd \in Command
  BY DEF TypeOK, Command, NoCmd
<1>1. ASSUME NEW p \in PV, Attach(p)
      PROVE  TypeInv'
  <2>1. Stamps(p) \in [1 .. 2 -> 0 .. MaxTime] /\ \A c \in 1 .. 2 : Stamps(p)[c] <= time
    BY DEF TypeOK, Stamps, TimesBound, Descriptor
  <2>2. TypeOK'
    BY <1>1, <2>1 DEF Attach, TypeOK, disks, bounds
  <2>3. TimesBound'
    BY <1>1, <2>1 DEF Attach, TypeOK, TimesBound, disks, bounds
  <2>4. CmdTime'
    BY <1>1 DEF Attach, CmdTime, Cur, disks, bounds
  <2> QED
    BY <2>2, <2>3, <2>4
<1>2. ASSUME NEW ms \in SUBSET PV, NEW ps \in SUBSET PV, NEW at \in SUBSET PV,
             NEW gone \in SUBSET PV, Update(ms, ps, at, gone)
      PROVE  /\ vgda' \in Descriptor /\ time' \in 1 .. MaxTime /\ time' = time + 1
             /\ vgda'.time = time' /\ active /\ cmd'.writing = 0
             /\ cmd' \in Command
  <2>1. cmd' = [NoCmd EXCEPT !.todo = ps, !.gone = gone]
    BY <1>2 DEF Update
  <2>2. cmd' \in Command /\ cmd'.writing = 0
    BY <2>1, <1>0 DEF Command, NoCmd
  <2>3. /\ vgda' = [time |-> time + 1, members |-> ms] /\ time' = time + 1
        /\ time < MaxTime /\ active
    BY <1>2 DEF Update
  <2>4. time \in 1 .. MaxTime
    BY DEF TypeOK
  <2>5. vgda' \in Descriptor /\ vgda'.time = time'
    BY <2>3, <2>4 DEF Descriptor
  <2> QED
    BY <2>2, <2>3, <2>4, <2>5
<1>3. ASSUME Change
      PROVE  TypeInv'
  <2>1. vgda.members \in SUBSET PV /\ pvols \in SUBSET PV /\ attached \in SUBSET PV
    BY DEF TypeOK, Descriptor
  <2>2. /\ vgda' \in Descriptor /\ time' \in 1 .. MaxTime /\ time' = time + 1
        /\ vgda'.time = time' /\ active /\ cmd'.writing = 0
        /\ cmd' \in Command
    BY <1>2, <1>3, <2>1 DEF Change
  <2>3. TypeOK'
    BY <1>3, <2>2 DEF Change, TypeOK, Command, disks, bounds
  <2>4. TimesBound'
    BY <1>3, <2>2 DEF Change, TypeOK, TimesBound, Descriptor, disks
  <2>5. CmdTime'
    BY <1>3, <2>2 DEF Change, CmdTime
  <2> QED
    BY <2>3, <2>4, <2>5
<1>4. ASSUME NEW p \in PV, Install(p)
      PROVE  TypeInv'
  <2>1. /\ vgda.members \cup {p} \in SUBSET PV /\ pvols \cup {p} \in SUBSET PV
        /\ attached \cup {p} \in SUBSET PV
    BY DEF TypeOK, Descriptor
  <2>2. /\ vgda' \in Descriptor /\ time' \in 1 .. MaxTime /\ time' = time + 1
        /\ vgda'.time = time' /\ active /\ cmd'.writing = 0
        /\ cmd' \in Command
    BY <1>2, <1>4, <2>1 DEF Install
  <2>3. TypeOK'
    BY <1>4, <2>2 DEF Install, TypeOK, Command, NoTs, bounds
  <2>4. TimesBound'
    BY <1>4, <2>2 DEF Install, TypeOK, TimesBound, Descriptor, NoTs
  <2>5. CmdTime'
    BY <1>4, <2>2 DEF Install, CmdTime
  <2> QED
    BY <2>3, <2>4, <2>5
<1>5. ASSUME NEW p \in PV, Delete(p)
      PROVE  TypeInv'
  <2>1. /\ vgda.members \ {p} \in SUBSET PV /\ pvols \in SUBSET PV
        /\ attached \in SUBSET PV
    BY DEF TypeOK, Descriptor
  <2>2. /\ vgda' \in Descriptor /\ time' \in 1 .. MaxTime /\ time' = time + 1
        /\ vgda'.time = time' /\ active /\ cmd'.writing = 0
        /\ cmd' \in Command
    BY <1>2, <1>5, <2>1 DEF Delete
  <2>3. TypeOK'
    BY <1>5, <2>2 DEF Delete, TypeOK, Command, disks, bounds
  <2>4. TimesBound'
    BY <1>5, <2>2 DEF Delete, TypeOK, TimesBound, Descriptor, disks
  <2>5. CmdTime'
    BY <1>5, <2>2 DEF Delete, CmdTime
  <2> QED
    BY <2>3, <2>4, <2>5
<1>6. ASSUME NEW p \in PV, GoDown(p)
      PROVE  TypeInv'
  BY <1>6 DEF GoDown, TypeOK, TimesBound, CmdTime, Cur, disks, group
<1>7. ASSUME NEW p \in PV, ComeBack(p)
      PROVE  TypeInv'
  BY <1>7 DEF ComeBack, TypeOK, TimesBound, CmdTime, Cur, disks, group, bounds
<1>8. ASSUME Activate
      PROVE  TypeInv'
  <2> DEFINE d == copy[Master][NewestCopy(ts[Master])]
  <2>1. Master \in PV /\ NewestCopy(ts[Master]) \in 1 .. 2
    BY <1>8, MasterIsNewest DEF Activate, TypeOK, NewestCopy
  <2>2. d \in Descriptor /\ d.time <= time
    BY <2>1 DEF TypeOK, TimesBound
  <2> HIDE DEF d
  <2>3. CASE pvols # attached
    BY <1>8, <2>3 DEF Activate, TypeOK, TimesBound, CmdTime, Cur, disks, group, bounds
  <2>4. CASE pvols = attached
    <3>1. /\ vgda' = d /\ pvols' = d.members
          /\ attached' = attached \cap d.members
          /\ ts' = [q \in PV |-> IF q \in attached' THEN ts[q] ELSE NoTs]
          /\ active' = Quorum(attached', d.members)
          /\ chosen' = IF active' THEN Max({chosen, d.time}) ELSE chosen
          /\ UNCHANGED <<copy, ingroup, down, cmd, time, answered>>
      BY <1>8, <2>4 DEF Activate, disks, d
    <3>2. chosen' \in 1 .. time
      <4>1. chosen \in 1 .. time /\ d.time \in Int /\ d.time <= time
        BY <2>2 DEF TypeOK, Descriptor
      <4>2. Max({chosen, d.time}) = IF chosen >= d.time THEN chosen ELSE d.time
        BY <4>1, MaxOfTwo
      <4> QED
        BY <3>1, <4>1, <4>2
    <3>3. ts' \in [PV -> [1 .. 2 -> 0 .. MaxTime]]
      BY <3>1 DEF TypeOK, NoTs
    <3>4. TypeOK'
      BY <3>1, <3>2, <3>3, <2>2 DEF TypeOK, Descriptor, Quorum
    <3>5. TimesBound'
      BY <3>1 DEF TypeOK, TimesBound, NoTs
    <3>6. CmdTime'
      BY <1>8, <3>1 DEF Activate, CmdTime, NoCmd
    <3> QED
      BY <3>4, <3>5, <3>6
  <2> QED
    BY <2>3, <2>4
<1>9. ASSUME Deactivate
      PROVE  TypeInv'
  <2>1. vgda' \in Descriptor
    BY <1>9 DEF Deactivate, Torn, Descriptor
  <2>2. /\ active' = FALSE /\ pvols' = attached /\ cmd = NoCmd
        /\ UNCHANGED <<copy, ingroup, down, attached, ts, cmd, time, answered, chosen>>
    BY <1>9 DEF Deactivate, Idle, disks
  <2>3. TypeOK'
    BY <2>1, <2>2 DEF TypeOK
  <2> QED
    BY <2>2, <2>3 DEF TimesBound, CmdTime, NoCmd
<1>10. ASSUME Begin
      PROVE  TypeInv'
  <2>1. WriteCopy(Cur) \in 1 .. 2
    BY DEF WriteCopy
  <2>2. Torn \in Descriptor /\ Torn.time = 0
    BY DEF Torn, Descriptor
  <2>3. TypeOK'
    <3>1. cmd' \in Command
      BY <1>10, <1>0, <2>1 DEF Begin, Command
    <3>2. copy' \in [PV -> [1 .. 2 -> Descriptor]]
      BY <1>10, <2>1, <2>2 DEF Begin, TypeOK
    <3> QED
      BY <1>10, <3>1, <3>2 DEF Begin, TypeOK, Command, group
  <2>4. TimesBound'
    BY <1>10, <2>1, <2>2 DEF Begin, TypeOK, TimesBound, group, bounds
  <2>5. CmdTime'
    BY <1>10, <2>1 DEF Begin, TypeOK, CmdTime, Cur, NoCmd, group
  <2> QED
    BY <2>3, <2>4, <2>5
<1>11. ASSUME Written
      PROVE  TypeInv'
  <2>1. /\ cmd # NoCmd /\ vgda \in Descriptor /\ vgda.time = time /\ active
        /\ cmd.writing \in 1 .. 2
    BY <1>11 DEF Written, TypeOK, CmdTime, NoCmd
  <2>2. TypeOK'
    <3>1. cmd' \in Command
      <4> DEFINE e == [cmd EXCEPT !.writing = 0]
      <4>1. /\ e \in Command
            /\ \A x \in Command, S \in SUBSET PV : [x EXCEPT !.todo = S] \in Command
        BY <1>0 DEF Command
      <4>2. PICK S \in SUBSET PV : cmd' = [e EXCEPT !.todo = S]
        BY <1>11, <1>0 DEF Written, Command
      <4> QED
        BY <4>1, <4>2, Zenon
    <3>2. copy' \in [PV -> [1 .. 2 -> Descriptor]]
      BY <1>11, <2>1 DEF Written, TypeOK
    <3>3. ts' \in [PV -> [1 .. 2 -> 0 .. MaxTime]]
      BY <1>11, <2>1 DEF Written, TypeOK, Descriptor
    <3> QED
      BY <1>11, <3>1, <3>2, <3>3 DEF Written, TypeOK, Command
  <2>3. TimesBound'
    BY <1>11, <2>1 DEF Written, TypeOK, TimesBound, bounds
  <2>4. CmdTime'
    BY <1>11, <2>1 DEF Written, TypeOK, CmdTime
  <2> QED
    BY <2>2, <2>3, <2>4
<1>12. ASSUME Skip
      PROVE  TypeInv'
  <2>1. cmd # NoCmd /\ Cur \in PV
    BY <1>12, MinOfPVs DEF Skip, Cur, NoCmd, TypeOK
  <2>2. TypeOK'
    <3>1. cmd' \in Command
      <4> DEFINE e == [cmd EXCEPT !.writing = 0]
      <4>1. /\ e \in Command
            /\ \A x \in Command, S \in SUBSET PV : /\ [x EXCEPT !.todo = S] \in Command
                                                 /\ [x EXCEPT !.failed = S] \in Command
        BY <1>0 DEF Command
      <4> DEFINE g == [e EXCEPT !.todo = cmd.todo \ {Cur}]
      <4>2. g \in Command
        BY <4>1, <1>0 DEF Command
      <4>3. cmd' = [g EXCEPT !.failed = cmd.failed \cup {Cur}]
        BY <1>12, <1>0 DEF Skip, Command
      <4> QED
        BY <4>1, <4>2, <4>3, <1>0, <2>1 DEF Command
    <3> QED
      BY <1>12, <3>1 DEF Skip, TypeOK, Command, disks, group
  <2> QED
    BY <1>12, <2>1, <2>2 DEF Skip, TypeOK, TimesBound, CmdTime, disks, group, bounds
<1>13. ASSUME Return
      PROVE  TypeInv'
  <2>1. vgda.time = time /\ vgda.time \in Int
    BY <1>13 DEF Return, CmdTime, Idle, TypeOK
  <2>2. chosen' \in 1 .. time /\ answered' \in 1 .. time
    <3>1. Max({chosen, vgda.time}) = IF chosen >= vgda.time THEN chosen ELSE vgda.time
      BY <2>1, MaxOfTwo DEF TypeOK
    <3>2. chosen' = Max({chosen, vgda.time}) /\ answered' = vgda.time
      BY <1>13 DEF Return
    <3> QED
      BY <3>1, <3>2, <2>1 DEF TypeOK
  <2>3. TypeOK'
    BY <1>13, <1>0, <2>2 DEF Return, TypeOK, Command, bounds
  <2> QED
    BY <1>13, <2>3 DEF Return, TypeOK, TimesBound, CmdTime, NoCmd, bounds
<1>14. ASSUME Crash
      PROVE  TypeInv'
  <2>1. TypeOK'
    <3>1. vgda' \in Descriptor /\ ts' \in [PV -> [1 .. 2 -> 0 .. MaxTime]]
      BY <1>14 DEF Crash, Torn, Descriptor, NoTs
    <3> QED
      BY <1>14, <1>0, <3>1 DEF Crash, TypeOK, Command, disks
  <2>2. TimesBound'
    BY <1>14 DEF Crash, TypeOK, TimesBound, NoTs, disks
  <2>3. CmdTime'
    BY <1>14 DEF Crash, CmdTime, NoCmd
  <2> QED
    BY <2>1, <2>2, <2>3
<1>15. ASSUME UNCHANGED vars
      PROVE  TypeInv'
  BY <1>15 DEF vars, disks, group, bounds, TypeOK, TimesBound, CmdTime, Cur
<1> QED
  BY <1>1, <1>3, <1>4, <1>5, <1>6, <1>7, <1>8, <1>9, <1>10, <1>11, <1>12, <1>13, <1>14, <1>15
     DEF Next

\* The first state has the types.
LEMMA TypeInit ==
  ASSUME Init
  PROVE  TypeInv
<1> USE VgdaAssumption
<1>1. FirstVgda \in Descriptor /\ Torn \in Descriptor /\ FirstVgda.time = 1 /\ Torn.time = 0
  BY DEF FirstVgda, Torn, Descriptor
<1>2. TypeOK
  BY <1>1 DEF Init, TypeOK, NoTs, NoCmd
<1>3. TimesBound
  BY <1>1 DEF Init, TimesBound, NoTs
<1> QED
  BY <1>2, <1>3 DEF Init, TypeInv, CmdTime, NoCmd

\* Every variable of the descriptor area keeps its type (lv_vgda.c).
THEOREM TypeCorrect == Spec => []TypeOK
<1>1. Spec => []TypeInv
  BY TypeInit, TypeInductive, PTL DEF Spec
<1> QED
  BY <1>1, PTL DEF TypeInv

-----------------------------------------------------------------------------
(* What the time stamps in memory say of the copies on a disk.             *)

Single == Cardinality(vgda.members) = 1

\* The copy that is taken for the newest is what its time stamp says, unless it is
\* the one of a single PV that is being overwritten; the other is no newer.
Tracks(p) ==
    LET n == NewestCopy(ts[p]) IN
    Newest(p) > 0 =>
        /\ copy[p][n].time = ts[p][n] \/ (cmd.writing = n /\ Cur = p /\ Single)
        /\ copy[p][3 - n].time <= ts[p][n]

CopyInv ==
    /\ \A p \in attached : Tracks(p)
    /\ cmd.writing # 0 /\ Single => Cur \notin down

\* The newest descriptor of a PV is the newer of its two copies.
LEMMA BestOfTwo ==
  ASSUME TypeOK, NEW p \in PV
  PROVE  /\ copy[p][1].time \in Nat /\ copy[p][2].time \in Nat
         /\ Best(p) = IF copy[p][1].time >= copy[p][2].time
                      THEN copy[p][1].time ELSE copy[p][2].time
<1>1. copy[p][1].time \in Nat /\ copy[p][2].time \in Nat
  BY DEF TypeOK, Descriptor
<1>2. {copy[p][c].time : c \in 1 .. 2} = {copy[p][1].time, copy[p][2].time}
  OBVIOUS
<1> QED
  BY <1>1, <1>2, MaxOfTwo DEF Best

\* The same in the state after a step.
BestIsNewer ==
    \A p \in PV :
        /\ copy[p][1].time \in Nat /\ copy[p][2].time \in Nat
        /\ Best(p) = IF copy[p][1].time >= copy[p][2].time
                     THEN copy[p][1].time ELSE copy[p][2].time

LEMMA BestPrimed == TypeOK' => BestIsNewer'
<1>1. TypeOK => BestIsNewer
  BY BestOfTwo DEF BestIsNewer
<1> QED
  BY <1>1, PTL

\* The newest copy is the first or the second.
LEMMA NewestIsACopy ==
  ASSUME TypeOK, NEW p \in PV
  PROVE  /\ NewestCopy(ts[p]) \in 1 .. 2 /\ Newest(p) \in Nat
         /\ ts[p][1] \in Nat /\ ts[p][2] \in Nat
         /\ NewestCopy(ts[p]) = 1 <=> ts[p][1] > ts[p][2]
BY DEF TypeOK, NewestCopy, Newest

\* Every step keeps the time stamps true, when no write to a single PV is cut short.
LEMMA CopyInductive ==
  ASSUME TypeInv, TypeInv', CopyInv, [Next]_vars, "single" \in Spared
  PROVE  CopyInv'
<1> USE DEF TypeInv
<1> DEFINE Same(p) == ts'[p] = ts[p] /\ copy'[p] = copy[p]
<1>0. \A p \in PV : /\ ts[p][1] \in Nat /\ ts[p][2] \in Nat
                    /\ copy[p][1].time \in Nat /\ copy[p][2].time \in Nat
  BY NewestIsACopy, BestOfTwo
<1>a. attached \subseteq PV
  BY DEF TypeOK
<1>b. ASSUME NEW p \in attached, Same(p), cmd.writing = 0 \/ Cur # p \/ ~Single
      PROVE  Tracks(p)'
  BY <1>b DEF CopyInv, Tracks, Newest, NewestCopy
<1>1. ASSUME NEW p \in PV, Attach(p)
      PROVE  CopyInv'
  <2>1. cmd.writing = 0 /\ cmd' = cmd /\ ts'[p] = Stamps(p) /\ copy' = copy
        /\ attached' = attached \cup {p}
    BY <1>1 DEF Attach, Idle, NoCmd, TypeOK, disks
  <2>2. Tracks(p)'
    BY <2>1, <1>0 DEF Tracks, Stamps, Newest, NewestCopy
  <2>3. ASSUME NEW q \in attached, q # p
        PROVE  Tracks(q)'
    <3>1. ts'[q] = ts[q]
      BY <1>1, <2>3, <1>a DEF Attach, TypeOK
    <3> QED
      BY <1>b, <2>1, <3>1
  <2> QED
    BY <2>1, <2>2, <2>3 DEF CopyInv
<1>2. ASSUME Change \/ Deactivate \/ \E p \in PV : Delete(p)
      PROVE  CopyInv'
  <2>1. /\ cmd.writing = 0 /\ cmd'.writing = 0 /\ attached' = attached
        /\ ts' = ts /\ copy' = copy
    <3>1. ASSUME NEW ms, NEW ps, NEW at, NEW gone, Update(ms, ps, at, gone)
          PROVE  cmd.writing = 0 /\ cmd'.writing = 0
      BY <3>1 DEF Update, Idle, NoCmd
    <3>2. CASE Change
      BY <3>1, <3>2 DEF Change, disks
    <3>3. CASE Deactivate
      BY <3>3 DEF Deactivate, Idle, NoCmd, disks
    <3>4. CASE \E p \in PV : Delete(p)
      BY <3>1, <3>4 DEF Delete, disks
    <3> QED
      BY <1>2, <3>2, <3>3, <3>4
  <2> QED
    BY <1>b, <2>1 DEF CopyInv
<1>3. ASSUME NEW p \in PV, Install(p)
      PROVE  CopyInv'
  <2>1. /\ cmd.writing = 0 /\ cmd'.writing = 0 /\ attached' = attached \cup {p}
        /\ ts' = [ts EXCEPT ![p] = NoTs] /\ copy' = copy /\ ts'[p] = NoTs
    BY <1>3 DEF Install, Update, Idle, NoCmd, TypeOK
  <2>2. Tracks(p)'
    BY <2>1 DEF Tracks, Newest, NewestCopy, NoTs
  <2>3. ASSUME NEW q \in attached, q # p
        PROVE  Tracks(q)'
    <3>1. ts'[q] = ts[q]
      BY <2>1, <2>3, <1>a DEF TypeOK
    <3> QED
      BY <1>b, <2>1, <3>1
  <2> QED
    BY <2>1, <2>2, <2>3 DEF CopyInv
<1>4. ASSUME NEW p \in PV, GoDown(p) \/ ComeBack(p)
      PROVE  CopyInv'
  <2>1. UNCHANGED <<cmd, attached, ts, copy, vgda>>
    BY <1>4 DEF GoDown, ComeBack, disks, group
  <2>2. \A q \in attached : Tracks(q)'
    BY <2>1 DEF CopyInv, Tracks, Newest, Cur, Single
  <2>3. (cmd.writing # 0 /\ Single => Cur \notin down)'
    <3>1. CASE GoDown(p)
      <4>1. cmd.writing = 0 \/ ~Single
        <5>1. cmd.writing = 0 \/ Cardinality(vgda.members) > 1
          BY <3>1 DEF GoDown, MayCut
        <5>2. ~(1 > 1)
          OBVIOUS
        <5> QED
          BY <5>1, <5>2 DEF Single
      <4> QED
        BY <2>1, <4>1 DEF Single
    <3>2. CASE ComeBack(p)
      BY <2>1, <3>2 DEF ComeBack, CopyInv, Single, Cur
    <3> QED
      BY <1>4, <3>1, <3>2
  <2> QED
    BY <2>1, <2>2, <2>3 DEF CopyInv
<1>5. ASSUME Activate
      PROVE  CopyInv'
  <2>1. cmd.writing = 0 /\ cmd' = cmd /\ copy' = copy
    BY <1>5 DEF Activate, CmdTime, NoCmd, disks
  <2>2. ASSUME NEW q \in attached'
        PROVE  q \in attached /\ ts'[q] = ts[q]
    BY <1>5, <2>2, <1>a DEF Activate, group
  <2> QED
    BY <1>b, <2>1, <2>2 DEF CopyInv
<1>6. ASSUME Begin
      PROVE  CopyInv'
  <2> DEFINE c == WriteCopy(Cur)
             n == NewestCopy(ts[Cur])
  <2>1. /\ Cur \in attached \ down /\ copy' = [copy EXCEPT ![Cur][c] = Torn]
        /\ cmd' = [cmd EXCEPT !.writing = c] /\ UNCHANGED <<down, ts, attached, vgda>>
        /\ cmd.writing = 0
    BY <1>6 DEF Begin, group
  <2>2. cmd'.writing = c /\ cmd'.todo = cmd.todo
    BY <2>1 DEF TypeOK
  <2>3. Cur' = Cur /\ Single' = Single
    BY <2>1, <2>2 DEF Cur, Single
  <2>4. c \in 1 .. 2 /\ n \in 1 .. 2 /\ (~Single => c = 3 - n)
    BY <1>0, <1>a, <2>1 DEF WriteCopy, NewestCopy, Single
  <2>5. /\ copy'[Cur][c] = Torn /\ copy'[Cur][3 - c] = copy[Cur][3 - c]
    BY <2>1, <2>4, <1>a DEF TypeOK
  <2>6. Tracks(Cur)
    BY <2>1 DEF CopyInv
  <2>q. PICK q \in attached : q = Cur
    BY <2>1
  <2>7. q \in PV /\ ts'[q] = ts[q]
    BY <2>1, <2>q, <1>a
  <2>8. Newest(q) > 0 => copy[q][n].time = ts[q][n] /\ copy[q][3 - n].time <= ts[q][n]
    BY <2>1, <2>4, <2>6, <2>q DEF Tracks
  <2>9. Tracks(q)'
    <3>0. Tracks(q)' = (ts[q][n] > 0 =>
              /\ copy'[q][n].time = ts[q][n] \/ (c = n /\ Single)
              /\ copy'[q][3 - n].time <= ts[q][n])
      BY <2>2, <2>3, <2>7, <2>q DEF Tracks, Newest
    <3>1. CASE c = 3 - n
      <4>1. copy'[q][n] = copy[q][n] /\ copy'[q][3 - n].time = 0
        BY <2>4, <2>5, <2>q, <3>1 DEF Torn
      <4>2. Newest(q) = ts[q][n] /\ ts[q][n] \in Nat
        BY <1>0, <2>4, <2>7, <2>q DEF Newest
      <4> HIDE DEF n, c
      <4>3. ts[q][n] > 0 => copy'[q][n].time = ts[q][n] /\ copy'[q][3 - n].time <= ts[q][n]
        BY <2>8, <4>1, <4>2
      <4> QED
        BY <3>0, <4>3
    <3>2. CASE c = n /\ Single
      <4>1. copy'[q][3 - n] = copy[q][3 - n]
        BY <2>4, <2>5, <2>q, <3>2
      <4> QED
        BY <2>8, <2>q, <3>0, <3>2, <4>1 DEF Newest
    <3> QED
      BY <2>4, <3>1, <3>2
  <2>10. ASSUME NEW r \in attached, r # q
         PROVE  Tracks(r)'
    <3>1. copy'[r] = copy[r] /\ ts'[r] = ts[r]
      BY <2>1, <2>10, <2>q, <1>a DEF TypeOK
    <3> QED
      BY <1>b, <2>1, <2>10, <2>q, <3>1
  <2> QED
    BY <2>1, <2>3, <2>9, <2>10, <2>q DEF CopyInv
<1>7. ASSUME Written
      PROVE  CopyInv'
  <2> DEFINE w == cmd.writing
  <2>1. /\ w \in 1 .. 2 /\ cmd # NoCmd /\ vgda.time = time /\ time \in Nat /\ Cur \in attached
    BY <1>7 DEF Written, TypeOK, CmdTime, NoCmd
  <2>2. /\ copy' = [copy EXCEPT ![Cur][w] = vgda] /\ UNCHANGED <<attached, vgda>>
        /\ ts' = [ts EXCEPT ![Cur][w] = vgda.time]
    BY <1>7 DEF Written
  <2>3. cmd'.writing = 0
    BY <1>7 DEF Written, TypeOK
  <2>q. PICK q \in attached : q = Cur
    BY <2>1
  <2>4. /\ copy'[q][w] = vgda /\ copy'[q][3 - w] = copy[q][3 - w]
        /\ ts'[q][w] = time /\ ts'[q][3 - w] = ts[q][3 - w]
    BY <2>1, <2>2, <2>q, <1>a DEF TypeOK
  <2>5. Tracks(q)
    BY <2>1 DEF CopyInv
  <2> HIDE DEF w
  <2>6. /\ \A c \in 1 .. 2 : copy[q][c].time <= time /\ ts[q][c] <= time
        /\ \A c \in 1 .. 2 : copy[q][c].time \in Nat /\ ts[q][c] \in Nat
    BY <1>0, <1>a, <2>1 DEF TimesBound
  <2>7. Tracks(q)'
    <3>1. CASE w = 2
      <4>1. NewestCopy(ts'[q]) = 2
        BY <2>4, <2>6, <3>1, <2>1 DEF NewestCopy
      <4>2. /\ copy'[q][2].time = ts'[q][2] /\ copy'[q][1].time <= ts'[q][2]
        BY <2>1, <2>4, <2>6, <3>1
      <4> QED
        BY <4>1, <4>2 DEF Tracks
    <3>2. CASE w = 1 /\ ts[q][2] < time
      <4>1. NewestCopy(ts'[q]) = 1
        BY <2>4, <2>6, <3>2, <2>1 DEF NewestCopy
      <4>2. /\ copy'[q][1].time = ts'[q][1] /\ copy'[q][2].time <= ts'[q][1]
        BY <2>1, <2>4, <2>6, <3>2
      <4> QED
        BY <4>1, <4>2 DEF Tracks
    <3>3. CASE w = 1 /\ ts[q][2] = time
      <4>1. NewestCopy(ts'[q]) = 2 /\ NewestCopy(ts[q]) = 2
        BY <2>1, <2>4, <2>6, <3>3 DEF NewestCopy
      <4>2. time > 0
        BY DEF TypeOK
      <4>3. copy[q][2].time = ts[q][2]
        BY <2>5, <3>3, <4>1, <4>2 DEF Tracks, Newest, w
      <4>4. /\ copy'[q][2].time = ts'[q][2] /\ copy'[q][1].time <= ts'[q][2]
        BY <2>1, <2>4, <2>6, <3>3, <4>3
      <4> QED
        BY <4>1, <4>4 DEF Tracks
    <3> QED
      BY <2>1, <2>6, <3>1, <3>2, <3>3
  <2>8. ASSUME NEW r \in attached, r # q
        PROVE  Tracks(r)'
    <3>1. copy'[r] = copy[r] /\ ts'[r] = ts[r]
      BY <2>2, <2>8, <2>q, <1>a DEF TypeOK
    <3> QED
      BY <1>b, <2>8, <2>q, <3>1
  <2> QED
    BY <2>2, <2>3, <2>7, <2>8, <2>q DEF CopyInv
<1>8. ASSUME Skip
      PROVE  CopyInv'
  <2>1. /\ cmd'.writing = 0 /\ UNCHANGED <<attached, ts, copy>>
        /\ Cur \notin attached \/ Cur \in down
    BY <1>8 DEF Skip, group, disks, TypeOK
  <2>2. cmd.writing = 0 \/ ~Single
    BY <2>1 DEF CmdTime, CopyInv
  <2> QED
    BY <1>b, <2>1, <2>2 DEF CopyInv
<1>9. ASSUME Return
      PROVE  CopyInv'
  <2>1. /\ cmd'.writing = 0 /\ UNCHANGED <<ts, copy>> /\ attached' \subseteq attached
        /\ cmd.writing = 0
    BY <1>9 DEF Return, NoCmd, CmdTime
  <2> QED
    BY <1>b, <2>1 DEF CopyInv
<1>10. ASSUME Crash
       PROVE  CopyInv'
  BY <1>10 DEF Crash, CopyInv, NoCmd
<1>11. ASSUME UNCHANGED vars
       PROVE  CopyInv'
  <2>1. UNCHANGED <<cmd, attached, ts, copy, vgda, down>>
    BY <1>11 DEF vars, disks, group
  <2> QED
    BY <2>1 DEF CopyInv, Tracks, Newest, Cur, Single
<1> QED
  BY <1>1, <1>2, <1>3, <1>4, <1>5, <1>6, <1>7, <1>8, <1>9, <1>10, <1>11 DEF Next

\* The group starts with its descriptor on the second copies.
LEMMA CopyInit ==
  ASSUME Init
  PROVE  CopyInv
<1>1. ASSUME NEW p \in attached
      PROVE  Tracks(p)
  <2>1. /\ p \in First /\ p \in PV /\ ts[p] = <<0, 1>>
        /\ copy[p] = [c \in 1 .. 2 |-> IF c = 2 THEN FirstVgda ELSE Torn]
    BY <1>1, VgdaAssumption DEF Init
  <2>2. copy[p][2].time = 1 /\ copy[p][1].time = 0 /\ ts[p][2] = 1 /\ ts[p][1] = 0
    BY <2>1 DEF FirstVgda, Torn
  <2>3. NewestCopy(ts[p]) = 2
    BY <2>2 DEF NewestCopy
  <2> QED
    BY <2>2, <2>3 DEF Tracks
<1> QED
  BY <1>1 DEF CopyInv, Init, NoCmd

\* The descriptor that is overwritten is the older one of the PV, and what is written
\* is newer than every other: only beginning and ending a write touch the disks.
LEMMA StepKeeps ==
  ASSUME TypeInv, TypeInv', CopyInv, [Next]_vars, ~Single
  PROVE  \A p \in PV : Kept(p)
<1> USE DEF TypeInv
<1>a. attached \subseteq PV
  BY DEF TypeOK
<1>1. ASSUME NEW p \in PV, copy'[p] = copy[p]
      PROVE  Kept(p)
  <2>1. Best(p)' = Best(p) /\ Best(p) \in Int
    BY <1>1, BestOfTwo DEF Best
  <2> QED
    BY <2>1 DEF Kept
<1>2. CASE Begin
  <2> DEFINE c == WriteCopy(Cur)
  <2>1. PICK q \in attached : q = Cur
    BY <1>2 DEF Begin
  <2>2. /\ copy' = [copy EXCEPT ![q][c] = Torn] /\ cmd.writing = 0
        /\ c = IF ts[q][1] > ts[q][2] THEN 2 ELSE 1
    BY <1>2, <2>1 DEF Begin, WriteCopy, Single
  <2>3. ASSUME NEW p \in PV, p # q
        PROVE  Kept(p)
    <3>1. copy'[p] = copy[p]
      BY <2>2, <2>3 DEF TypeOK
    <3> QED
      BY <1>1, <3>1
  <2>4. Kept(q)
    <3>1. NewestCopy(ts[q]) = 3 - c /\ c \in 1 .. 2 /\ q \in PV
      BY <1>a, <2>2 DEF NewestCopy
    <3> HIDE DEF c
    <3>2. /\ copy'[q][c].time = 0 /\ copy'[q][3 - c] = copy[q][3 - c]
      BY <2>2, <3>1 DEF TypeOK, Torn
    <3>3. Newest(q) > 0 => copy[q][3 - c].time = ts[q][3 - c] /\ copy[q][c].time <= ts[q][3 - c]
      <4>1. Tracks(q) /\ 3 - c # 0 /\ 3 - (3 - c) = c
        BY <3>1 DEF CopyInv
      <4> QED
        BY <2>2, <3>1, <4>1 DEF Tracks
    <3>4. /\ Best(q) = IF copy[q][1].time >= copy[q][2].time THEN copy[q][1].time ELSE copy[q][2].time
          /\ copy[q][1].time \in Nat /\ copy[q][2].time \in Nat
      BY <3>1, BestOfTwo
    <3>5. /\ Best(q)' = IF copy'[q][1].time >= copy'[q][2].time THEN copy'[q][1].time ELSE copy'[q][2].time
          /\ copy'[q][1].time \in Nat /\ copy'[q][2].time \in Nat
      BY <3>1, BestPrimed DEF BestIsNewer
    <3>6. ASSUME Newest(q) > 0
          PROVE  Best(q)' >= Best(q)
      <4>1. CASE c = 1
        BY <3>2, <3>3, <3>4, <3>5, <3>6, <4>1
      <4>2. CASE c = 2
        BY <3>2, <3>3, <3>4, <3>5, <3>6, <4>2
      <4> QED
        BY <3>1, <4>1, <4>2
    <3> QED
      BY <3>6 DEF Kept
  <2> QED
    BY <2>3, <2>4
<1>3. CASE Written
  <2>1. PICK q \in attached : q = Cur
    BY <1>3 DEF Written, CmdTime
  <2>2. /\ copy' = [copy EXCEPT ![q][cmd.writing] = vgda] /\ cmd.writing \in 1 .. 2
        /\ vgda.time = time /\ time \in Nat
    BY <1>3, <2>1 DEF Written, TypeOK, CmdTime, NoCmd
  <2>3. ASSUME NEW p \in PV, p # q
        PROVE  Kept(p)
    <3>1. copy'[p] = copy[p]
      BY <2>2, <2>3 DEF TypeOK
    <3> QED
      BY <1>1, <3>1
  <2>4. Kept(q)
    <3>1. q \in PV /\ copy'[q][cmd.writing].time = time
      BY <1>a, <2>2 DEF TypeOK
    <3>2. Best(q) <= time
      <4>1. copy[q][1].time <= time /\ copy[q][2].time <= time
        BY <3>1 DEF TimesBound
      <4> QED
        BY <3>1, <4>1, BestOfTwo
    <3>3. Best(q)' >= time
      <4>1. /\ Best(q)' = IF copy'[q][1].time >= copy'[q][2].time THEN copy'[q][1].time ELSE copy'[q][2].time
            /\ copy'[q][1].time \in Nat /\ copy'[q][2].time \in Nat
        BY <3>1, BestPrimed DEF BestIsNewer
      <4> QED
        BY <2>2, <3>1, <4>1
    <3>4. Best(q) \in Int /\ Best(q)' \in Int
      BY <3>1, BestOfTwo, BestPrimed DEF BestIsNewer
    <3> QED
      BY <2>2, <3>2, <3>3, <3>4 DEF Kept
  <2> QED
    BY <2>3, <2>4
<1>4. CASE copy' = copy
  BY <1>1, <1>4
<1>5. Begin \/ Written \/ copy' = copy
  BY DEF Next, vars, disks, Attach, Install, Delete, GoDown, ComeBack, Activate, Deactivate,
         Change, Skip, Return, Crash, Update
<1> QED
  BY <1>2, <1>3, <1>4, <1>5

\* A write that is cut short never costs a PV its newest descriptor, while the group
\* has more PVs than one (lv_writevgda).
THEOREM NewestIsKept ==
  ASSUME "single" \in Spared
  PROVE  Spec => NewestKept
<1> DEFINE Inv == TypeInv /\ CopyInv
           Keep == Cardinality(vgda.members) > 1 => \A p \in PV : Kept(p)
<1>1. Init => Inv
  BY TypeInit, CopyInit
<1>2. Inv /\ [Next]_vars => Inv'
  <2>1. TypeInv /\ [Next]_vars => TypeInv'
    BY TypeInductive
  <2>2. TypeInv /\ TypeInv' /\ CopyInv /\ [Next]_vars => CopyInv'
    BY CopyInductive
  <2> QED
    BY <2>1, <2>2
<1>3. Inv /\ Inv' /\ [Next]_vars => [Keep]_vars
  <2>1. Cardinality(vgda.members) > 1 => ~Single
    <3>1. ~(1 > 1)
      OBVIOUS
    <3> QED
      BY <3>1 DEF Single
  <2> QED
    BY <2>1, StepKeeps
<1> QED
  BY <1>1, <1>2, <1>3, PTL DEF Spec, NewestKept

-----------------------------------------------------------------------------
(* How new the descriptors of a PV are.                                    *)

\* A PV without a time stamp has no descriptor on its disk.
Fresh == \A p \in attached : Newest(p) = 0 => \A c \in 1 .. 2 : copy[p][c].time = 0

\* The newest descriptor of a PV: for an attached one the newest that was written to it,
\* although a copy may be torn meanwhile.
Value(p) == IF p \in attached THEN Newest(p) ELSE Best(p)

\* The larger of a PV's two time stamps.
NewestIsLarger ==
    \A p \in PV :
        /\ Newest(p) = IF ts[p][1] > ts[p][2] THEN ts[p][1] ELSE ts[p][2]
        /\ ts[p][1] \in Nat /\ ts[p][2] \in Nat /\ Value(p) \in Nat

LEMMA NewestOfTwo == TypeOK => NewestIsLarger
<1> SUFFICES ASSUME TypeOK, NEW p \in PV
             PROVE  /\ Newest(p) = IF ts[p][1] > ts[p][2] THEN ts[p][1] ELSE ts[p][2]
                    /\ ts[p][1] \in Nat /\ ts[p][2] \in Nat /\ Value(p) \in Nat
  BY DEF NewestIsLarger
<1>1. ts[p][1] \in Nat /\ ts[p][2] \in Nat
  BY DEF TypeOK
<1>2. Newest(p) = IF ts[p][1] > ts[p][2] THEN ts[p][1] ELSE ts[p][2]
  BY DEF Newest, NewestCopy
<1> QED
  BY <1>1, <1>2, BestOfTwo DEF Value

LEMMA NewestPrimed == TypeOK' => NewestIsLarger'
BY NewestOfTwo, PTL

\* Whatever a PV is attached with, and after every write, time stamps of 0 mean that
\* there is nothing on the disk.
LEMMA FreshInductive ==
  ASSUME TypeInv, TypeInv', CopyInv, Fresh, [Next]_vars, "reinstall" \in Spared
  PROVE  Fresh'
<1> USE DEF TypeInv
<1>a. attached \subseteq PV
  BY DEF TypeOK
<1>b. ASSUME NEW p \in attached, ts'[p] = ts[p], copy'[p] = copy[p]
      PROVE  (Newest(p) = 0 => \A c \in 1 .. 2 : copy[p][c].time = 0)'
  BY <1>b DEF Fresh, Newest, NewestCopy
<1>1. ASSUME NEW p \in PV, Attach(p)
      PROVE  Fresh'
  <2>1. ts'[p] = Stamps(p) /\ copy' = copy /\ attached' = attached \cup {p}
    BY <1>1 DEF Attach, TypeOK, disks
  <2>2. (Newest(p) = 0 => \A c \in 1 .. 2 : copy[p][c].time = 0)'
    <3>1. /\ Newest(p)' = IF ts'[p][1] > ts'[p][2] THEN ts'[p][1] ELSE ts'[p][2]
          /\ ts'[p][1] \in Nat /\ ts'[p][2] \in Nat
      BY NewestPrimed DEF NewestIsLarger
    <3>2. ts'[p][1] = copy'[p][1].time /\ ts'[p][2] = copy'[p][2].time
      BY <2>1 DEF Stamps
    <3>3. Newest(p)' = 0 => copy'[p][1].time = 0 /\ copy'[p][2].time = 0
      BY <3>1, <3>2
    <3> QED
      BY <3>3
  <2>3. ASSUME NEW q \in attached, q # p
        PROVE  (Newest(q) = 0 => \A c \in 1 .. 2 : copy[q][c].time = 0)'
    <3>1. ts'[q] = ts[q]
      BY <1>1, <2>3, <1>a DEF Attach, TypeOK
    <3> QED
      BY <1>b, <2>1, <3>1
  <2> QED
    BY <2>1, <2>2, <2>3 DEF Fresh
<1>2. ASSUME NEW p \in PV, Install(p)
      PROVE  Fresh'
  <2>1. /\ copy' = copy /\ attached' = attached \cup {p} /\ ts' = [ts EXCEPT ![p] = NoTs]
        /\ \A c \in 1 .. 2 : copy[p][c].time = 0
    BY <1>2 DEF Install, Torn
  <2>2. ASSUME NEW q \in attached, q # p
        PROVE  (Newest(q) = 0 => \A c \in 1 .. 2 : copy[q][c].time = 0)'
    <3>1. ts'[q] = ts[q]
      BY <2>1, <2>2, <1>a DEF TypeOK
    <3> QED
      BY <1>b, <2>1, <3>1
  <2> QED
    BY <2>1, <2>2 DEF Fresh
<1>3. ASSUME Activate
      PROVE  Fresh'
  <2>1. copy' = copy
    BY <1>3 DEF Activate, disks
  <2>2. ASSUME NEW q \in attached'
        PROVE  q \in attached /\ ts'[q] = ts[q]
    BY <1>3, <2>2, <1>a DEF Activate, group
  <2> QED
    BY <1>b, <2>1, <2>2 DEF Fresh
<1>4. ASSUME Begin
      PROVE  Fresh'
  <2>1. /\ copy' = [copy EXCEPT ![Cur][WriteCopy(Cur)] = Torn] /\ UNCHANGED <<ts, attached>>
    BY <1>4 DEF Begin, group
  <2>2. ASSUME NEW q \in attached, Newest(q) = 0, NEW c \in 1 .. 2
        PROVE  copy'[q][c].time = 0
    <3>1. copy'[q][c] = copy[q][c] \/ copy'[q][c] = Torn
      BY <2>1, <1>a DEF TypeOK
    <3> QED
      BY <2>2, <3>1 DEF Fresh, Torn
  <2>3. ASSUME NEW q \in attached
        PROVE  Newest(q)' = Newest(q)
    BY <2>1 DEF Newest
  <2> QED
    BY <2>1, <2>2, <2>3 DEF Fresh
<1>5. ASSUME Written
      PROVE  Fresh'
  <2>q. PICK q \in attached : q = Cur
    BY <1>5 DEF Written, CmdTime
  <2>1. /\ copy' = [copy EXCEPT ![q][cmd.writing] = vgda] /\ attached' = attached
        /\ ts' = [ts EXCEPT ![q][cmd.writing] = vgda.time] /\ cmd.writing \in 1 .. 2
        /\ vgda.time \in Nat /\ vgda.time > 0
    BY <1>5, <2>q DEF Written, TypeOK, CmdTime, NoCmd
  <2>2. Newest(q)' > 0
    <3>1. /\ Newest(q)' = IF ts'[q][1] > ts'[q][2] THEN ts'[q][1] ELSE ts'[q][2]
          /\ ts'[q][1] \in Nat /\ ts'[q][2] \in Nat
      BY <1>a, NewestPrimed DEF NewestIsLarger
    <3>2. ts'[q][cmd.writing] = vgda.time
      BY <2>1, <1>a DEF TypeOK
    <3> QED
      BY <2>1, <3>1, <3>2
  <2>3. ASSUME NEW r \in attached, r # q
        PROVE  (Newest(r) = 0 => \A c \in 1 .. 2 : copy[r][c].time = 0)'
    <3>1. ts'[r] = ts[r] /\ copy'[r] = copy[r]
      BY <2>1, <2>3, <1>a DEF TypeOK
    <3> QED
      BY <1>b, <3>1
  <2> QED
    BY <2>1, <2>2, <2>3 DEF Fresh
<1>6. ASSUME UNCHANGED <<ts, copy>>, attached' \subseteq attached
      PROVE  Fresh'
  BY <1>b, <1>6 DEF Fresh
<1>7. ASSUME Crash
      PROVE  Fresh'
  BY <1>7 DEF Crash, Fresh
<1>8. ASSUME Skip \/ Return \/ Change \/ Deactivate \/ UNCHANGED vars
             \/ \E p \in PV : Delete(p) \/ GoDown(p) \/ ComeBack(p)
      PROVE  Fresh'
  BY <1>6, <1>8 DEF Skip, Return, Change, Deactivate, vars, Delete, GoDown, ComeBack, disks, group
<1> QED
  BY <1>1, <1>2, <1>3, <1>4, <1>5, <1>7, <1>8 DEF Next

\* No time stamp lies: while no write to it is under way, a PV has the descriptor that
\* its newest time stamp tells, and none that is newer.
LEMMA StampIsBest ==
  ASSUME TypeOK, CopyInv, Fresh, NEW p \in attached,
         cmd.writing = 0 \/ ~Single
  PROVE  Newest(p) = Best(p)
<1>1. p \in PV
  BY DEF TypeOK
<1> DEFINE n == NewestCopy(ts[p])
<1>2. n \in 1 .. 2 /\ Newest(p) = ts[p][n] /\ Newest(p) \in Nat
  BY <1>1, NewestIsACopy DEF Newest
<1>3. /\ copy[p][1].time \in Nat /\ copy[p][2].time \in Nat
      /\ Best(p) = IF copy[p][1].time >= copy[p][2].time
                   THEN copy[p][1].time ELSE copy[p][2].time
  BY <1>1, BestOfTwo
<1>4. CASE Newest(p) = 0
  <2>1. copy[p][1].time = 0 /\ copy[p][2].time = 0
    BY <1>4 DEF Fresh
  <2> QED
    BY <1>3, <1>4, <2>1
<1>5. CASE Newest(p) > 0
  <2>1. copy[p][n].time = ts[p][n] /\ copy[p][3 - n].time <= ts[p][n]
    <3>1. Tracks(p) /\ n # 0
      BY <1>2 DEF CopyInv
    <3> QED
      BY <1>2, <1>5, <3>1 DEF Tracks
  <2> HIDE DEF n
  <2>2. CASE n = 1
    BY <1>2, <1>3, <2>1, <2>2
  <2>3. CASE n = 2
    BY <1>2, <1>3, <2>1, <2>3
  <2> QED
    BY <1>2, <2>2, <2>3
<1> QED
  BY <1>2, <1>4, <1>5

\* A PV loses no descriptor: what it is known to have only becomes newer.
Grows == \A p \in PV : Value(p)' >= Value(p)

LEMMA ValueGrows ==
  ASSUME TypeInv, TypeInv', CopyInv, Fresh, [Next]_vars,
         "single" \in Spared, "reinstall" \in Spared
  PROVE  Grows
<1> USE DEF TypeInv
<1>a. attached \subseteq PV
  BY DEF TypeOK
<1>b. /\ \A p \in PV : Value(p) \in Nat /\ Value(p)' \in Nat
      /\ \A p \in PV : Best(p) \in Nat
  BY NewestOfTwo, NewestPrimed, BestOfTwo DEF NewestIsLarger
<1>c. ASSUME NEW p \in PV, ts'[p] = ts[p], copy'[p] = copy[p], p \in attached' <=> p \in attached
      PROVE  Value(p)' >= Value(p)
  <2>1. Value(p)' = Value(p)
    BY <1>c DEF Value, Best, Newest
  <2> QED
    BY <1>b, <2>1
<1>d. ASSUME NEW p \in attached, p \notin attached', copy'[p] = copy[p],
             cmd.writing = 0 \/ ~Single
      PROVE  Value(p)' >= Value(p)
  <2>1. Value(p) = Best(p) /\ Value(p)' = Best(p)
    BY <1>d, StampIsBest DEF Value, Best
  <2> QED
    BY <1>a, <1>b, <2>1
<1>1. ASSUME NEW p \in PV, Attach(p)
      PROVE  Grows
  <2>1. /\ ts' = [ts EXCEPT ![p] = Stamps(p)] /\ copy' = copy /\ attached' = attached \cup {p}
        /\ p \notin attached /\ ts'[p] = Stamps(p)
    BY <1>1 DEF Attach, TypeOK, disks
  <2>2. Value(p)' >= Value(p)
    <3>1. /\ Newest(p)' = IF ts'[p][1] > ts'[p][2] THEN ts'[p][1] ELSE ts'[p][2]
          /\ ts'[p][1] = copy[p][1].time /\ ts'[p][2] = copy[p][2].time
      BY <2>1, NewestPrimed DEF NewestIsLarger, Stamps
    <3>2. Newest(p)' = Best(p)
      BY <3>1, BestOfTwo
    <3>3. Value(p)' = Newest(p)' /\ Value(p) = Best(p)
      BY <2>1 DEF Value
    <3> QED
      BY <1>b, <3>2, <3>3
  <2>3. ASSUME NEW q \in PV, q # p
        PROVE  Value(q)' >= Value(q)
    BY <1>c, <2>1, <2>3 DEF TypeOK
  <2> QED
    BY <2>2, <2>3 DEF Grows
<1>2. ASSUME NEW p \in PV, Install(p)
      PROVE  Grows
  <2>1. /\ copy' = copy /\ attached' = attached \cup {p} /\ ts' = [ts EXCEPT ![p] = NoTs]
        /\ copy[p][1].time = 0 /\ copy[p][2].time = 0 /\ p \notin attached
    BY <1>2 DEF Install, Torn, TypeOK
  <2>2. Value(p)' >= Value(p)
    <3>1. Value(p) = 0
      BY <2>1, BestOfTwo DEF Value
    <3> QED
      BY <1>b, <3>1
  <2>3. ASSUME NEW q \in PV, q # p
        PROVE  Value(q)' >= Value(q)
    BY <1>c, <2>1, <2>3 DEF TypeOK
  <2> QED
    BY <2>2, <2>3 DEF Grows
<1>3. ASSUME Activate
      PROVE  Grows
  <2>1. copy' = copy /\ cmd.writing = 0 /\ attached' \subseteq attached
    BY <1>3 DEF Activate, disks, group, CmdTime, NoCmd
  <2>2. ASSUME NEW q \in attached'
        PROVE  ts'[q] = ts[q]
    BY <1>3, <2>2, <1>a DEF Activate, group
  <2>3. ASSUME NEW q \in PV, q \notin attached'
        PROVE  Value(q)' >= Value(q)
    <3>1. CASE q \in attached
      BY <1>d, <2>1, <2>3, <3>1
    <3>2. CASE q \notin attached
      <4>1. Value(q)' = Value(q)
        BY <2>1, <2>3, <3>2 DEF Value, Best
      <4> QED
        BY <1>b, <4>1
    <3> QED
      BY <3>1, <3>2
  <2>4. ASSUME NEW q \in PV, q \in attached'
        PROVE  Value(q)' >= Value(q)
    BY <1>c, <2>1, <2>2, <2>4
  <2> QED
    BY <2>3, <2>4 DEF Grows
<1>4. ASSUME Begin
      PROVE  Grows
  <2>q. PICK q \in attached : q = Cur
    BY <1>4 DEF Begin
  <2>1. /\ copy' = [copy EXCEPT ![q][WriteCopy(q)] = Torn] /\ UNCHANGED <<ts, attached>>
    BY <1>4, <2>q DEF Begin, group
  <2>2. ASSUME NEW r \in attached
        PROVE  Value(r)' >= Value(r)
    <3>1. Value(r)' = Value(r)
      BY <2>1, <2>2 DEF Value, Newest
    <3> QED
      BY <1>a, <1>b, <3>1
  <2>3. ASSUME NEW r \in PV \ attached
        PROVE  Value(r)' >= Value(r)
    <3>1. copy'[r] = copy[r]
      BY <2>1, <2>3 DEF TypeOK
    <3> QED
      BY <1>c, <2>1, <2>3, <3>1
  <2> QED
    BY <2>2, <2>3 DEF Grows
<1>5. ASSUME Written
      PROVE  Grows
  <2>q. PICK q \in attached : q = Cur
    BY <1>5 DEF Written, CmdTime
  <2>1. /\ copy' = [copy EXCEPT ![q][cmd.writing] = vgda] /\ attached' = attached
        /\ ts' = [ts EXCEPT ![q][cmd.writing] = vgda.time] /\ cmd.writing \in 1 .. 2
        /\ vgda.time = time /\ time \in Nat /\ q \in PV
    BY <1>5, <2>q, <1>a DEF Written, TypeOK, CmdTime, NoCmd
  <2>2. Value(q)' >= Value(q)
    <3>1. /\ Newest(q)' = IF ts'[q][1] > ts'[q][2] THEN ts'[q][1] ELSE ts'[q][2]
          /\ ts'[q][1] \in Nat /\ ts'[q][2] \in Nat
      BY <2>1, NewestPrimed DEF NewestIsLarger
    <3>2. /\ Newest(q) = IF ts[q][1] > ts[q][2] THEN ts[q][1] ELSE ts[q][2]
          /\ ts[q][1] \in Nat /\ ts[q][2] \in Nat
      BY <2>1, NewestOfTwo DEF NewestIsLarger
    <3>3. /\ ts'[q][cmd.writing] = time
          /\ ts[q][1] <= time /\ ts[q][2] <= time
      BY <2>1 DEF TypeOK, TimesBound
    <3>4. Newest(q)' >= Newest(q)
      BY <2>1, <3>1, <3>2, <3>3
    <3> QED
      BY <2>1, <3>4 DEF Value
  <2>3. ASSUME NEW r \in PV, r # q
        PROVE  Value(r)' >= Value(r)
    <3>1. copy'[r] = copy[r] /\ ts'[r] = ts[r]
      BY <2>1, <2>3 DEF TypeOK
    <3> QED
      BY <1>c, <2>1, <3>1
  <2> QED
    BY <2>2, <2>3 DEF Grows
<1>6. ASSUME Crash \/ Return
      PROVE  Grows
  <2>1. /\ copy' = copy /\ attached' \subseteq attached
        /\ attached' = {} \/ ts' = ts
        /\ cmd.writing = 0 \/ ~Single
    <3>1. CASE Crash
      <4>1. cmd.writing = 0 \/ Cardinality(vgda.members) > 1
        BY <3>1 DEF Crash, MayCut
      <4>2. ~(1 > 1)
        OBVIOUS
      <4> QED
        BY <3>1, <4>1, <4>2 DEF Crash, Single, disks
    <3>2. CASE Return
      BY <3>2 DEF Return, CmdTime
    <3> QED
      BY <1>6, <3>1, <3>2
  <2>2. ASSUME NEW q \in PV, q \notin attached'
        PROVE  Value(q)' >= Value(q)
    <3>1. CASE q \in attached
      BY <1>d, <2>1, <2>2, <3>1
    <3>2. CASE q \notin attached
      <4>1. Value(q)' = Value(q)
        BY <2>1, <2>2, <3>2 DEF Value, Best
      <4> QED
        BY <1>b, <4>1
    <3> QED
      BY <3>1, <3>2
  <2>3. ASSUME NEW q \in PV, q \in attached'
        PROVE  Value(q)' >= Value(q)
    BY <1>c, <2>1, <2>3
  <2> QED
    BY <2>2, <2>3 DEF Grows
<1>7. ASSUME UNCHANGED <<ts, copy, attached>>
      PROVE  Grows
  BY <1>c, <1>7 DEF Grows
<1>8. ASSUME Skip \/ Change \/ Deactivate \/ UNCHANGED vars
             \/ \E p \in PV : Delete(p) \/ GoDown(p) \/ ComeBack(p)
      PROVE  Grows
  BY <1>7, <1>8 DEF Skip, Change, Deactivate, vars, Delete, GoDown, ComeBack, disks, group
<1> QED
  BY <1>1, <1>2, <1>3, <1>4, <1>5, <1>6, <1>8 DEF Next

-----------------------------------------------------------------------------
(* The settled descriptor.  At any time there is one that a majority of    *)
(* the PVs it lists has or has superseded; whatever older descriptor is    *)
(* on a disk has no quorum any more, and whatever is newer is the one that *)
(* the running command writes, or that an interrupted one left.            *)

\* Half of the PVs that a descriptor lists, or more, have a newer one: it cannot be
\* chosen together with a quorum.
Superseded(d) ==
    2 * Cardinality({p \in d.members : Value(p) <= d.time}) <= Cardinality(d.members)

OnDisk(d) == \E p \in PV, c \in 1 .. 2 : d = copy[p][c]

\* A majority of its PVs has the settled descriptor or a newer one, and so it is as new
\* as the last change that was answered.
Reached(s) ==
    /\ answered <= s.time /\ s.time <= time /\ 1 <= s.time
    /\ Majority({p \in PV : Value(p) >= s.time}, s.members)

Overtaken(s) ==
    /\ \A d \in Descriptor : OnDisk(d) =>
          /\ 0 < d.time /\ d.time < s.time => Superseded(d)
          /\ d.time = s.time => d = s
          /\ d.time > s.time => Adjacent(s.members, d.members)
    /\ \A d, e \in Descriptor :
          OnDisk(d) /\ OnDisk(e) /\ d.time > s.time /\ e.time > s.time => d = e

\* An active group has the settled descriptor in memory or a change of it.
Current(s) ==
    /\ active => \/ vgda = s
                 \/ /\ vgda.time > s.time /\ Adjacent(s.members, vgda.members)
                    /\ \A d \in Descriptor : OnDisk(d) /\ d.time > s.time => d = vgda
    /\ cmd # NoCmd => vgda.time > s.time

Base(s) == Reached(s) /\ Overtaken(s) /\ Current(s)

\* A command that runs has failed on few PVs, and has written to the others.
RunInv ==
    cmd # NoCmd => /\ Majority(attached \ cmd.failed, vgda.members)
                   /\ \A p \in attached \ (cmd.todo \cup cmd.failed) : Newest(p) = vgda.time

SettleInv == RunInv /\ \E s \in Descriptor : Base(s)

\* More PVs are a majority, too.
LEMMA MajorityGrows ==
  ASSUME NEW S \in SUBSET PV, NEW T \in SUBSET PV, S \subseteq T,
         NEW of \in SUBSET PV, Majority(S, of)
  PROVE  Majority(T, of)
<1>1. S \cap of \subseteq T \cap of
  OBVIOUS
<1>2. /\ IsFiniteSet(T \cap of) /\ Cardinality(S \cap of) \in Nat
      /\ Cardinality(T \cap of) \in Nat /\ Cardinality(of) \in Nat
  BY PVFinite
<1>3. Cardinality(S \cap of) <= Cardinality(T \cap of)
  BY <1>1, <1>2, FS_Subset
<1> QED
  BY <1>2, <1>3 DEF Majority

\* A superseded descriptor stays superseded.
LEMMA SupersededKept ==
  ASSUME TypeOK, TypeOK', Grows
  PROVE  \A d \in Descriptor : Superseded(d) => Superseded(d)'
<1> SUFFICES ASSUME NEW d \in Descriptor, Superseded(d)
             PROVE  Superseded(d)'
  OBVIOUS
<1> DEFINE S == {p \in d.members : Value(p) <= d.time}
           T == {p \in d.members : Value(p)' <= d.time}
<1>1. d.members \in SUBSET PV /\ d.time \in Int
  BY DEF Descriptor
<1>2. \A p \in PV : Value(p) \in Nat /\ Value(p)' \in Nat
  BY NewestOfTwo, NewestPrimed DEF NewestIsLarger
<1>3. T \subseteq S
  BY <1>1, <1>2 DEF Grows
<1>4. /\ S \in SUBSET PV /\ T \in SUBSET PV
  BY <1>1
<1> HIDE DEF S, T
<1>5. IsFiniteSet(S) /\ Cardinality(S) \in Nat /\ Cardinality(T) \in Nat
      /\ Cardinality(d.members) \in Nat
  BY <1>1, <1>4, PVFinite
<1>6. Cardinality(T) <= Cardinality(S)
  BY <1>3, <1>5, FS_Subset
<1>7. 2 * Cardinality(T) <= Cardinality(d.members)
  BY <1>5, <1>6 DEF Superseded, S
<1> QED
  BY <1>7 DEF Superseded, T

\* A majority that has a change of a descriptor supersedes that descriptor.
LEMMA ChangeSupersedes ==
  ASSUME TypeOK, NEW s \in Descriptor, NEW v \in Descriptor, v.time > s.time,
         Adjacent(s.members, v.members), NEW M \in SUBSET PV, Majority(M, v.members),
         \A p \in M : Value(p) >= v.time
  PROVE  Superseded(s)
<1> DEFINE S == {p \in s.members : Value(p) <= s.time}
<1>1. s.members \in SUBSET PV /\ v.members \in SUBSET PV /\ s.time \in Int /\ v.time \in Int
  BY DEF Descriptor
<1>2. \A p \in PV : Value(p) \in Nat
  BY NewestOfTwo DEF NewestIsLarger
<1>3. S \subseteq s.members \ M
  BY <1>1, <1>2
<1>4. 2 * Cardinality(s.members \ M) <= Cardinality(s.members)
  BY <1>1, AdjacentMajorities
<1>5. /\ IsFiniteSet(s.members \ M) /\ Cardinality(s.members \ M) \in Nat
      /\ Cardinality(S) \in Nat /\ Cardinality(s.members) \in Nat
  BY <1>1, PVFinite
<1> HIDE DEF S
<1>6. Cardinality(S) <= Cardinality(s.members \ M)
  BY <1>3, <1>5, FS_Subset
<1>7. 2 * Cardinality(S) <= Cardinality(s.members)
  BY <1>4, <1>5, <1>6
<1> QED
  BY <1>7 DEF Superseded, S

\* The settled descriptor remains so while nothing but torn copies comes to the disks.
LEMMA BaseKept ==
  ASSUME TypeOK, TypeOK', Grows, NEW s \in Descriptor, Reached(s), Overtaken(s),
         \A d \in Descriptor : OnDisk(d)' => OnDisk(d) \/ d.time = 0,
         answered' = answered, time' >= time
  PROVE  (Reached(s) /\ Overtaken(s))'
<1>1. /\ s.time \in Int /\ s.members \in SUBSET PV
      /\ \A p \in PV : Value(p) \in Nat /\ Value(p)' \in Nat
  BY NewestOfTwo, NewestPrimed DEF NewestIsLarger, Descriptor
<1>2. Reached(s)'
  <2> DEFINE S == {p \in PV : Value(p) >= s.time}
             T == {p \in PV : Value(p)' >= s.time}
  <2>1. S \subseteq T
    BY <1>1 DEF Grows
  <2>2. Majority(S, s.members)
    BY DEF Reached
  <2>3. S \in SUBSET PV /\ T \in SUBSET PV
    OBVIOUS
  <2> HIDE DEF S, T
  <2>4. Majority(T, s.members)
    BY <1>1, <2>1, <2>2, <2>3, MajorityGrows
  <2>5. (answered <= s.time /\ s.time <= time /\ 1 <= s.time)'
    BY <1>1 DEF Reached, TypeOK
  <2> QED
    BY <2>4, <2>5 DEF Reached, Majority, T
<1>3. \A d \in Descriptor : d.time \in Int /\ (d.time = 0 => ~(0 < d.time) /\ ~(d.time >= s.time))
  BY DEF Reached, Descriptor
<1>4. ASSUME NEW d \in Descriptor, OnDisk(d)'
      PROVE  /\ 0 < d.time /\ d.time < s.time => Superseded(d)'
             /\ d.time = s.time => d = s
             /\ d.time > s.time => Adjacent(s.members, d.members)
  <2>1. CASE d.time = 0
    BY <1>1, <1>3, <2>1
  <2>2. CASE OnDisk(d)
    BY <2>2, SupersededKept DEF Overtaken
  <2> QED
    BY <1>4, <2>1, <2>2
<1>5. ASSUME NEW d \in Descriptor, NEW e \in Descriptor,
             OnDisk(d)', OnDisk(e)', d.time > s.time, e.time > s.time
      PROVE  d = e
  <2>1. OnDisk(d) /\ OnDisk(e)
    BY <1>1, <1>3, <1>5
  <2> QED
    BY <1>5, <2>1 DEF Overtaken
<1>6. Overtaken(s)'
  BY <1>4, <1>5 DEF Overtaken
<1> QED
  BY <1>2, <1>6

\* A change that a majority has becomes the settled descriptor.
LEMMA BaseMoves ==
  ASSUME TypeOK, TypeOK', Grows, NEW s \in Descriptor, Base(s),
         NEW v \in Descriptor, v = vgda, active, v.time > s.time, v.time <= time,
         NEW M \in SUBSET PV, Majority(M, v.members), \A p \in M : Value(p) >= v.time,
         copy' = copy, answered' <= v.time, time' >= time
  PROVE  /\ (Reached(v) /\ Overtaken(v))'
         /\ \A d \in Descriptor : OnDisk(d)' => ~(d.time > v.time)
<1>1. /\ s.time \in Int /\ v.time \in Int /\ s.members \in SUBSET PV /\ v.members \in SUBSET PV
      /\ \A p \in PV : Value(p) \in Nat /\ Value(p)' \in Nat
      /\ \A d \in Descriptor : d.time \in Int
  BY NewestOfTwo, NewestPrimed DEF NewestIsLarger, Descriptor
<1>2. \A d \in Descriptor : OnDisk(d)' <=> OnDisk(d)
  BY DEF OnDisk
<1>3. /\ Adjacent(s.members, v.members)
      /\ \A d \in Descriptor : OnDisk(d) /\ d.time > s.time => d = v
  BY <1>1 DEF Base, Current
<1>4. Reached(v)'
  <2> DEFINE T == {p \in PV : Value(p)' >= v.time}
  <2>1. M \subseteq T
    BY <1>1 DEF Grows
  <2>2. T \in SUBSET PV
    OBVIOUS
  <2> HIDE DEF T
  <2>3. Majority(T, v.members)
    BY <1>1, <2>1, <2>2, MajorityGrows
  <2>4. answered' <= v.time /\ v.time <= time' /\ 1 <= v.time
    BY <1>1 DEF Base, Reached, TypeOK
  <2> QED
    BY <2>3, <2>4 DEF Reached, Majority, T
<1>5. Superseded(s)'
  BY <1>3, ChangeSupersedes, SupersededKept
<1>6. ASSUME NEW d \in Descriptor, OnDisk(d)
      PROVE  /\ 0 < d.time /\ d.time < v.time => Superseded(d)'
             /\ d.time = v.time => d = v
             /\ ~(d.time > v.time)
  <2>1. CASE d.time < s.time
    <3>1. 0 < d.time => Superseded(d)'
      BY <1>6, <2>1, SupersededKept DEF Base, Overtaken
    <3>2. ~(d.time = v.time) /\ ~(d.time > v.time)
      BY <1>1, <2>1
    <3> QED
      BY <3>1, <3>2
  <2>2. CASE d.time = s.time
    <3>1. d = s
      BY <1>6, <2>2 DEF Base, Overtaken
    <3>2. ~(d.time = v.time) /\ ~(d.time > v.time)
      BY <1>1, <2>2
    <3> QED
      BY <1>5, <3>1, <3>2
  <2>3. CASE d.time > s.time
    <3>1. d = v
      BY <1>3, <1>6, <2>3
    <3> QED
      BY <1>1, <3>1
  <2> QED
    BY <1>1, <2>1, <2>2, <2>3
<1>7. Overtaken(v)'
  <2>1. \A d \in Descriptor : OnDisk(d)' =>
            /\ 0 < d.time /\ d.time < v.time => Superseded(d)'
            /\ d.time = v.time => d = v
            /\ ~(d.time > v.time)
    BY <1>2, <1>6
  <2> QED
    BY <2>1 DEF Overtaken
<1> QED
  BY <1>2, <1>4, <1>6, <1>7

\* What lv_updatevgda starts with: nothing is written yet, and nothing has failed.
LEMMA UpdateStarts ==
  ASSUME TypeInv, NEW ms \in SUBSET PV, NEW ps \in SUBSET PV, NEW at \in SUBSET ps,
         NEW gone, Update(ms, ps, at, gone), "minority" \in Spared, "unsettled" \in Spared
  PROVE  /\ cmd = NoCmd /\ cmd'.todo = ps /\ cmd'.failed = {} /\ Majority(at, ms)
         /\ vgda'.time = time + 1 /\ vgda'.members = ms /\ Settled /\ active
<1>1. Majority(at \ {}, ms)
  BY DEF Update, Enough
<1>2. at \ {} = at
  OBVIOUS
<1> QED
  BY <1>1, <1>2 DEF Update, Idle, NoCmd

\* The PVs that a command has written have its descriptor, and enough of them are left.
LEMMA RunInductive ==
  ASSUME TypeInv, TypeInv', RunInv, [Next]_vars,
         "minority" \in Spared, "unsettled" \in Spared
  PROVE  RunInv'
<1> USE DEF TypeInv
<1>a. attached \subseteq PV /\ attached \subseteq pvols /\ pvols \in SUBSET PV
      /\ vgda.members \in SUBSET PV
  BY DEF TypeOK, Descriptor
<1>1. ASSUME NEW ms \in SUBSET PV, NEW ps \in SUBSET PV, NEW at \in SUBSET ps,
             NEW gone, Update(ms, ps, at, gone), attached' = at
      PROVE  RunInv'
  <2>1. cmd'.todo = ps /\ cmd'.failed = {} /\ Majority(at, ms) /\ vgda'.members = ms
    BY <1>1, UpdateStarts
  <2>2. attached' \ cmd'.failed = at /\ attached' \ (cmd'.todo \cup cmd'.failed) = {}
    BY <1>1, <2>1
  <2> QED
    BY <2>1, <2>2 DEF RunInv, Majority
<1>2. ASSUME Change
      PROVE  RunInv'
  BY <1>1, <1>2, <1>a DEF Change
<1>3. ASSUME NEW p \in PV, Install(p)
      PROVE  RunInv'
  <2>1. /\ attached \cup {p} \in SUBSET (pvols \cup {p})
        /\ vgda.members \cup {p} \in SUBSET PV /\ pvols \cup {p} \in SUBSET PV
    BY <1>a
  <2> QED
    BY <1>1, <1>3, <2>1 DEF Install
<1>4. ASSUME NEW p \in PV, Delete(p)
      PROVE  RunInv'
  <2>1. vgda.members \ {p} \in SUBSET PV
    BY <1>a
  <2> QED
    BY <1>1, <1>4, <1>a, <2>1 DEF Delete
<1>5. ASSUME Begin
      PROVE  RunInv'
  <2>1. /\ cmd # NoCmd /\ cmd'.todo = cmd.todo /\ cmd'.failed = cmd.failed
        /\ UNCHANGED <<attached, vgda, ts>>
    BY <1>5 DEF Begin, NoCmd, TypeOK, group
  <2> QED
    BY <2>1 DEF RunInv, Majority, Newest
<1>6. ASSUME Written
      PROVE  RunInv'
  <2>q. PICK q \in attached : q = Cur
    BY <1>6 DEF Written, CmdTime
  <2>1. /\ cmd # NoCmd /\ cmd'.failed = cmd.failed /\ cmd.todo \subseteq cmd'.todo \cup {q}
        /\ attached' = attached /\ vgda' = vgda
        /\ ts' = [ts EXCEPT ![q][cmd.writing] = vgda.time] /\ cmd.writing \in 1 .. 2
        /\ vgda.time = time /\ time \in Nat /\ q \in PV
    <3>1. cmd # NoCmd
      BY <1>6 DEF Written, NoCmd
    <3>2. cmd'.failed = cmd.failed
      BY <1>6 DEF Written, TypeOK
    <3>3. cmd.todo \subseteq cmd'.todo \cup {q}
      <4>1. cmd'.todo = cmd.todo \/ cmd'.todo = cmd.todo \ {q}
        BY <1>6, <2>q DEF Written, TypeOK
      <4> QED
        BY <4>1
    <3> QED
      BY <1>6, <2>q, <3>1, <3>2, <3>3, <1>a DEF Written, TypeOK, CmdTime
  <2>2. Newest(q)' = vgda.time
    <3>1. /\ Newest(q)' = IF ts'[q][1] > ts'[q][2] THEN ts'[q][1] ELSE ts'[q][2]
          /\ ts'[q][1] \in Nat /\ ts'[q][2] \in Nat
      BY <2>1, NewestPrimed DEF NewestIsLarger
    <3>2. ts'[q][cmd.writing] = time
      BY <2>1 DEF TypeOK
    <3>3. ts'[q][1] <= time /\ ts'[q][2] <= time
      BY <1>6, <2>1 DEF TimesBound, Written
    <3> QED
      BY <2>1, <3>1, <3>2, <3>3
  <2>3. ASSUME NEW r \in attached \ (cmd'.todo \cup cmd'.failed), r # q
        PROVE  Newest(r)' = vgda.time
    <3>1. r \in attached \ (cmd.todo \cup cmd.failed)
      BY <2>1, <2>3
    <3>2. ts'[r] = ts[r]
      BY <2>1, <2>3, <1>a DEF TypeOK
    <3>3. Newest(r)' = Newest(r)
      BY <3>2 DEF Newest
    <3> QED
      BY <2>1, <3>1, <3>3 DEF RunInv
  <2>4. Majority(attached \ cmd.failed, vgda.members)
    BY <2>1 DEF RunInv
  <2> QED
    BY <2>1, <2>2, <2>3, <2>4 DEF RunInv, Majority
<1>7. ASSUME Skip
      PROVE  RunInv'
  <2>q. PICK q \in PV : q = Cur
    BY <1>7, MinOfPVs DEF Skip, Cur, TypeOK
  <2>1. /\ cmd # NoCmd /\ UNCHANGED <<attached, vgda, ts>>
        /\ cmd'.todo = cmd.todo \ {q} /\ cmd'.failed = cmd.failed \cup {q}
    BY <1>7, <2>q DEF Skip, NoCmd, TypeOK, group
  <2>2. Majority(attached \ cmd'.failed, vgda.members)
    BY <1>7, <2>q, <2>1 DEF Skip, Enough
  <2>3. attached \ (cmd'.todo \cup cmd'.failed) \subseteq attached \ (cmd.todo \cup cmd.failed)
    BY <2>1
  <2>4. \A p \in attached \ (cmd'.todo \cup cmd'.failed) : Newest(p) = vgda.time
    BY <2>1, <2>3 DEF RunInv
  <2> QED
    BY <2>1, <2>2, <2>4 DEF RunInv, Majority, Newest
<1>8. ASSUME cmd' = NoCmd
      PROVE  RunInv'
  BY <1>8 DEF RunInv
<1>9. ASSUME UNCHANGED <<cmd, attached, vgda, ts>>
      PROVE  RunInv'
  BY <1>9 DEF RunInv, Majority, Newest
<1>10. ASSUME Return \/ Crash \/ Activate \/ Deactivate \/ \E p \in PV : Attach(p)
       PROVE  RunInv'
  BY <1>8, <1>10 DEF Return, Crash, Activate, Deactivate, Attach, Idle, CmdTime
<1>11. ASSUME UNCHANGED vars \/ \E p \in PV : GoDown(p) \/ ComeBack(p)
       PROVE  RunInv'
  BY <1>9, <1>11 DEF vars, group, GoDown, ComeBack
<1> QED
  BY <1>2, <1>3, <1>4, <1>5, <1>6, <1>7, <1>10, <1>11 DEF Next

\* A change starts with the settled descriptor: the one that the change before it left,
\* which a majority has, takes the place of the old one.
LEMMA UpdateSettles ==
  ASSUME TypeInv, TypeInv', CopyInv, Fresh, Grows, NEW s \in Descriptor, Base(s),
         NEW ms \in SUBSET PV, NEW ps \in SUBSET PV, NEW at \in SUBSET ps,
         NEW gone, Update(ms, ps, at, gone), Adjacent(vgda.members, ms),
         copy' = copy, answered' = answered, time' = time + 1,
         "minority" \in Spared, "unsettled" \in Spared
  PROVE  \E t \in Descriptor : Base(t)'
<1> USE DEF TypeInv
<1>1. /\ cmd = NoCmd /\ Settled /\ vgda'.time = time + 1 /\ vgda'.members = ms /\ active
  BY UpdateStarts
<1>2. PICK v \in Descriptor : v = vgda
  BY DEF TypeOK
<1>3. /\ v.time \in Nat /\ time \in Nat /\ v.time <= time /\ 1 <= s.time /\ s.time \in Nat
      /\ time' >= time /\ answered <= s.time /\ answered \in Nat
  <2>1. /\ s.time <= time /\ 1 <= s.time /\ answered <= s.time
        /\ vgda = s \/ (vgda.time > s.time)
    BY <1>1 DEF Base, Reached, Current
  <2>2. v.time \in Nat /\ s.time \in Nat /\ time \in Nat /\ answered \in Nat
    BY DEF TypeOK, Descriptor
  <2>3. v.time <= time
    <3>1. PICK p \in {p \in PV : Best(p) = v.time} : TRUE
      <4>1. CASE {p \in PV : Best(p) = v.time} = {}
        <5>1. Majority({}, v.members) /\ {} \cap v.members = {}
          BY <1>1, <1>2, <4>1 DEF Settled
        <5>2. Cardinality(v.members) \in Nat /\ Cardinality({}) = 0
          BY PVFinite, FS_EmptySet DEF Descriptor
        <5> QED
          BY <5>1, <5>2 DEF Majority
      <4> QED
        BY <4>1
    <3>2. copy[p][1].time <= time /\ copy[p][2].time <= time
      BY DEF TimesBound
    <3> QED
      BY <2>2, <3>1, <3>2, BestOfTwo
  <2> QED
    BY <2>1, <2>2, <2>3
<1>4. ASSUME NEW t \in Descriptor, (Reached(t) /\ Overtaken(t))', t.time <= v.time,
             \A d \in Descriptor : OnDisk(d)' => ~(d.time > t.time),
             t = v
      PROVE  Base(t)'
  <2>1. Adjacent(t.members, vgda'.members)
    BY <1>1, <1>2, <1>4
  <2>2. t.time \in Nat /\ vgda'.time > t.time
    BY <1>1, <1>3, <1>4
  <2>3. Current(t)'
    BY <1>4, <2>1, <2>2 DEF Current, Adjacent
  <2> QED
    BY <1>4, <2>3 DEF Base
<1>5. ASSUME NEW d \in Descriptor, OnDisk(d)
      PROVE  ~(d.time > v.time)
  <2>1. PICK p \in PV, c \in 1 .. 2 : d = copy[p][c]
    BY <1>5 DEF OnDisk
  <2>2. Best(p) <= v.time
    BY <1>1, <1>2 DEF Settled
  <2>3. d.time <= Best(p) /\ d.time \in Nat /\ Best(p) \in Nat
    BY <2>1, BestOfTwo
  <2> QED
    BY <1>3, <2>2, <2>3
<1>6. \A d \in Descriptor : OnDisk(d)' <=> OnDisk(d)
  BY DEF OnDisk
<1>7. CASE v = s
  <2>1. (Reached(s) /\ Overtaken(s))'
    BY <1>3, <1>6, BaseKept DEF Base
  <2> QED
    BY <1>3, <1>4, <1>5, <1>6, <1>7, <2>1
<1>8. CASE v.time > s.time
  <2> DEFINE M == {p \in PV : Best(p) = v.time}
  <2>1. M \in SUBSET PV /\ Majority(M, v.members)
    BY <1>1, <1>2 DEF Settled
  <2>2. ASSUME NEW p \in M
        PROVE  Value(p) >= v.time
    <3>1. cmd.writing = 0
      BY <1>1 DEF NoCmd
    <3>2. Value(p) = Best(p)
      BY <3>1, StampIsBest DEF Value
    <3> QED
      BY <1>3, <3>2
  <2>3. answered' <= v.time
    BY <1>3, <1>8
  <2> HIDE DEF M
  <2>4. (Reached(v) /\ Overtaken(v))'
    BY <1>1, <1>2, <1>3, <1>8, <2>1, <2>2, <2>3, BaseMoves
  <2> QED
    BY <1>3, <1>4, <1>5, <1>6, <2>4
<1> QED
  BY <1>1, <1>2, <1>7, <1>8 DEF Base, Current

\* There is a settled descriptor in every state: commands make a new one when they
\* return, or when the next one starts; a crash and an activation leave it.
LEMMA SettleInductive ==
  ASSUME TypeInv, TypeInv', CopyInv, Fresh, SettleInv, [Next]_vars,
         {"minority", "single", "reinstall", "unsettled"} \subseteq Spared
  PROVE  SettleInv'
<1> USE DEF TypeInv
<1>a. /\ "minority" \in Spared /\ "single" \in Spared /\ "reinstall" \in Spared
      /\ "unsettled" \in Spared
  OBVIOUS
<1>b. RunInv' /\ Grows
  BY <1>a, RunInductive, ValueGrows DEF SettleInv
<1> SUFFICES ASSUME NEW s \in Descriptor, Base(s)
             PROVE  \E t \in Descriptor : Base(t)'
  BY <1>b DEF SettleInv
<1>c. /\ attached \subseteq PV /\ attached \subseteq pvols /\ pvols \in SUBSET PV
      /\ vgda.members \in SUBSET PV
      /\ s.time \in Nat /\ 1 <= s.time /\ s.time <= time /\ time \in Nat
  BY DEF TypeOK, Descriptor, Base, Reached
<1>d. ASSUME copy' = copy, answered' = answered, time' = time, Current(s)'
      PROVE  Base(s)'
  <2>1. \A d \in Descriptor : OnDisk(d)' => OnDisk(d)
    BY <1>d DEF OnDisk
  <2> QED
    BY <1>b, <1>c, <1>d, <2>1, BaseKept DEF Base
<1>e. ASSUME copy' = copy, active' = FALSE, cmd' = NoCmd
      PROVE  Current(s)'
  BY <1>e DEF Current
<1>f. ASSUME UNCHANGED <<copy, vgda, active>>, cmd' # NoCmd => cmd # NoCmd
      PROVE  Current(s)'
  <2>1. \A d \in Descriptor : OnDisk(d)' <=> OnDisk(d)
    BY <1>f DEF OnDisk
  <2> QED
    BY <1>f, <2>1 DEF Base, Current
<1>1. ASSUME Change
      PROVE  \E t \in Descriptor : Base(t)'
  <2>1. Update(vgda.members, pvols, attached, {}) /\ copy' = copy /\ answered' = answered
    BY <1>1 DEF Change, disks
  <2>2. Adjacent(vgda.members, vgda.members) /\ time' = time + 1
    BY <2>1 DEF Adjacent, Update
  <2> QED
    BY <1>a, <1>b, <1>c, <2>1, <2>2, UpdateSettles
<1>2. ASSUME NEW p \in PV, Install(p)
      PROVE  \E t \in Descriptor : Base(t)'
  <2>1. /\ Update(vgda.members \cup {p}, pvols \cup {p}, attached \cup {p}, {})
        /\ copy' = copy /\ answered' = answered
    BY <1>2 DEF Install
  <2>2. /\ Adjacent(vgda.members, vgda.members \cup {p}) /\ time' = time + 1
        /\ vgda.members \cup {p} \in SUBSET PV /\ pvols \cup {p} \in SUBSET PV
        /\ attached \cup {p} \in SUBSET (pvols \cup {p})
    BY <1>c, <2>1 DEF Adjacent, Update
  <2> QED
    BY <1>a, <1>b, <2>1, <2>2, UpdateSettles
<1>3. ASSUME NEW p \in PV, Delete(p)
      PROVE  \E t \in Descriptor : Base(t)'
  <2>1. /\ Update(vgda.members \ {p}, pvols, attached, {p})
        /\ copy' = copy /\ answered' = answered
    BY <1>3 DEF Delete, disks
  <2>2. /\ Adjacent(vgda.members, vgda.members \ {p}) /\ time' = time + 1
        /\ vgda.members \ {p} \in SUBSET PV /\ attached \in SUBSET pvols
    BY <1>c, <2>1 DEF Adjacent, Update
  <2> QED
    BY <1>a, <1>b, <1>c, <2>1, <2>2, UpdateSettles
<1>4. ASSUME Begin
      PROVE  Base(s)'
  <2>1. /\ copy' = [copy EXCEPT ![Cur][WriteCopy(Cur)] = Torn] /\ cmd # NoCmd
        /\ UNCHANGED <<active, vgda, time, answered>>
    BY <1>4 DEF Begin, NoCmd, group
  <2>2. ASSUME NEW d \in Descriptor, OnDisk(d)'
        PROVE  OnDisk(d) \/ d.time = 0
    <3>1. PICK p \in PV, c \in 1 .. 2 : d = copy'[p][c]
      BY <2>2 DEF OnDisk
    <3>2. copy'[p][c] = copy[p][c] \/ copy'[p][c] = Torn
      BY <2>1 DEF TypeOK
    <3> QED
      BY <3>1, <3>2 DEF OnDisk, Torn
  <2>3. (Reached(s) /\ Overtaken(s))'
    BY <1>b, <1>c, <2>1, <2>2, BaseKept DEF Base
  <2>4. Current(s)'
    <3>1. ASSUME NEW d \in Descriptor, OnDisk(d)', d.time > s.time
          PROVE  OnDisk(d)
      BY <1>c, <2>2, <3>1
    <3> QED
      BY <2>1, <3>1 DEF Base, Current
  <2> QED
    BY <2>3, <2>4 DEF Base
<1>5. ASSUME Written
      PROVE  Base(s)'
  <2>1. /\ copy' = [copy EXCEPT ![Cur][cmd.writing] = vgda] /\ cmd # NoCmd /\ active
        /\ UNCHANGED <<active, vgda, time, answered>>
    BY <1>5 DEF Written, NoCmd, CmdTime
  <2>2. /\ vgda \in Descriptor /\ vgda.time > s.time /\ Adjacent(s.members, vgda.members)
        /\ \A d \in Descriptor : OnDisk(d) /\ d.time > s.time => d = vgda
    <3>1. vgda \in Descriptor /\ vgda.time > s.time
      BY <2>1 DEF TypeOK, Base, Current
    <3>2. vgda # s
      BY <1>c, <3>1
    <3> QED
      BY <2>1, <3>1, <3>2 DEF Base, Current
  <2>3. ASSUME NEW d \in Descriptor, OnDisk(d)'
        PROVE  OnDisk(d) \/ d = vgda
    <3>1. PICK p \in PV, c \in 1 .. 2 : d = copy'[p][c]
      BY <2>3 DEF OnDisk
    <3>2. copy'[p][c] = copy[p][c] \/ copy'[p][c] = vgda
      BY <2>1 DEF TypeOK
    <3> QED
      BY <3>1, <3>2 DEF OnDisk
  <2>4. Reached(s)'
    <3> DEFINE S == {p \in PV : Value(p) >= s.time}
               T == {p \in PV : Value(p)' >= s.time}
    <3>1. \A p \in PV : Value(p) \in Nat /\ Value(p)' \in Nat
      BY NewestOfTwo, NewestPrimed DEF NewestIsLarger
    <3>2. S \subseteq T /\ S \in SUBSET PV /\ T \in SUBSET PV /\ s.members \in SUBSET PV
      BY <1>b, <1>c, <3>1 DEF Grows, Descriptor
    <3>3. Majority(S, s.members)
      BY DEF Base, Reached
    <3> HIDE DEF S, T
    <3>4. Majority(T, s.members)
      BY <3>2, <3>3, MajorityGrows
    <3> QED
      BY <2>1, <3>4 DEF Base, Reached, Majority, T
  <2>5. ASSUME NEW d \in Descriptor, OnDisk(d)'
        PROVE  /\ 0 < d.time /\ d.time < s.time => Superseded(d)'
               /\ d.time = s.time => d = s
               /\ d.time > s.time => d = vgda
    <3>1. CASE d = vgda
      BY <1>c, <2>2, <3>1 DEF Descriptor
    <3>2. CASE OnDisk(d)
      BY <1>b, <2>2, <3>2, SupersededKept DEF Base, Overtaken
    <3> QED
      BY <2>3, <2>5, <3>1, <3>2
  <2>6. Overtaken(s)'
    BY <2>2, <2>5 DEF Overtaken
  <2>7. Current(s)'
    BY <2>1, <2>2, <2>5 DEF Current
  <2> QED
    BY <2>4, <2>6, <2>7 DEF Base
<1>6. ASSUME Return
      PROVE  \E t \in Descriptor : Base(t)'
  <2>v. PICK v \in Descriptor : v = vgda
    BY DEF TypeOK
  <2> DEFINE M == attached \ cmd.failed
  <2>1. /\ copy' = copy /\ vgda' = vgda /\ active' = active /\ time' = time
        /\ cmd' = NoCmd /\ answered' = vgda.time /\ cmd # NoCmd /\ cmd.todo = {}
        /\ active /\ vgda.time = time
    BY <1>6 DEF Return, Idle, CmdTime
  <2>2. v.time > s.time /\ v.time <= time /\ answered' <= v.time /\ time' >= time
    BY <1>c, <2>1, <2>v DEF Base, Current
  <2>3. M \in SUBSET PV /\ Majority(M, v.members) /\ \A p \in M : Value(p) >= v.time
    <3>1. /\ Majority(M, v.members)
          /\ \A p \in attached \ (cmd.todo \cup cmd.failed) : Newest(p) = v.time
      BY <2>1, <2>v DEF SettleInv, RunInv
    <3> QED
      BY <1>c, <2>1, <2>v, <3>1 DEF Value
  <2> HIDE DEF M
  <2>4. (Reached(v) /\ Overtaken(v))'
    BY <1>b, <2>1, <2>2, <2>3, <2>v, BaseMoves
  <2>5. Current(v)'
    BY <2>1, <2>v DEF Current
  <2> QED
    BY <2>4, <2>5 DEF Base
<1>7. ASSUME Activate
      PROVE  Base(s)'
  <2>1. /\ copy' = copy /\ answered' = answered /\ time' = time /\ cmd = NoCmd /\ cmd' = NoCmd
    BY <1>7 DEF Activate, disks, CmdTime
  <2>2. CASE active' = FALSE
    BY <1>d, <1>e, <2>1, <2>2
  <2>3. CASE active' # FALSE
    <3>m. PICK m \in attached : m = Master
      BY <1>7, MasterIsNewest DEF Activate
    <3>d. PICK d \in Descriptor : d = copy[m][NewestCopy(ts[m])]
      BY <1>c, NewestIsACopy DEF TypeOK
    <3>1. /\ vgda' = d /\ Newest(m) > 0 /\ pvols = attached
          /\ Quorum(attached \cap d.members, d.members)
      <4> DEFINE e == copy[Master][NewestCopy(ts[Master])]
      <4>1. /\ ~active /\ Newest(Master) > 0
            /\ IF pvols # attached
               THEN UNCHANGED group
               ELSE /\ vgda' = e
                    /\ attached' = attached \cap e.members
                    /\ active' = Quorum(attached', e.members)
        BY <1>7 DEF Activate
      <4>2. e = d
        BY <3>m, <3>d
      <4> HIDE DEF e
      <4>3. pvols = attached
        <5>1. pvols # attached => active' = active
          BY <4>1 DEF group
        <5>2. active = FALSE
          BY <4>1 DEF TypeOK
        <5> QED
          BY <2>3, <5>1, <5>2
      <4>4. vgda' = d /\ attached' = attached \cap d.members /\ active' = Quorum(attached', d.members)
        BY <4>1, <4>2, <4>3
      <4>5. Quorum(attached', d.members)
        <5>1. Quorum(attached', d.members) \in BOOLEAN
          BY DEF Quorum
        <5> QED
          BY <2>3, <4>4, <5>1
      <4> QED
        BY <3>m, <4>1, <4>3, <4>4, <4>5
    <3>2. m \in PV /\ d.time = Newest(m) /\ OnDisk(d) /\ d.time > 0
      <4>1. m \in PV /\ NewestCopy(ts[m]) \in 1 .. 2
        BY <1>c, NewestIsACopy
      <4>2. d.time = Newest(m)
        BY <2>1, <3>d, <3>1, <4>1 DEF CopyInv, Tracks, Newest, NoCmd
      <4> QED
        BY <3>d, <3>1, <4>1, <4>2 DEF OnDisk
    <3>3. ~Superseded(d)
      <4> DEFINE S == {p \in d.members : Value(p) <= d.time}
                 A == attached \cap d.members
      <4>1. A \subseteq S
        BY <1>7, <3>m, <3>2, MasterIsNewest DEF Activate, Value
      <4>2. d.members \in SUBSET PV /\ A \in SUBSET PV /\ S \in SUBSET PV
        BY <1>c DEF Descriptor
      <4>3. Cardinality(A) > Cardinality(d.members) \div 2
        BY <3>1 DEF Quorum
      <4> HIDE DEF A, S
      <4>4. /\ Cardinality(A) \in Nat /\ Cardinality(S) \in Nat /\ Cardinality(d.members) \in Nat
            /\ IsFiniteSet(S)
        BY <4>2, PVFinite
      <4>5. Cardinality(A) <= Cardinality(S)
        BY <4>1, <4>4, FS_Subset
      <4>6. 2 * Cardinality(S) > Cardinality(d.members)
        BY <4>3, <4>4, <4>5
      <4> QED
        BY <4>4, <4>6 DEF Superseded, S
    <3>4. \/ d = s
          \/ /\ d.time > s.time /\ Adjacent(s.members, d.members)
             /\ \A e \in Descriptor : OnDisk(e) /\ e.time > s.time => e = d
      <4>1. d.time \in Nat
        BY DEF Descriptor
      <4>2. ~(d.time < s.time)
        BY <3>2, <3>3 DEF Base, Overtaken
      <4>3. CASE d.time = s.time
        BY <3>2, <4>3 DEF Base, Overtaken
      <4>4. CASE d.time > s.time
        BY <3>2, <4>4 DEF Base, Overtaken
      <4> QED
        BY <1>c, <4>1, <4>2, <4>3, <4>4
    <3>5. \A e \in Descriptor : OnDisk(e)' <=> OnDisk(e)
      BY <2>1 DEF OnDisk
    <3>6. Current(s)'
      BY <2>1, <3>1, <3>4, <3>5 DEF Current
    <3> QED
      BY <1>d, <2>1, <3>6
  <2> QED
    BY <2>2, <2>3
<1>8. ASSUME Deactivate \/ Crash
      PROVE  Base(s)'
  BY <1>d, <1>e, <1>8 DEF Deactivate, Crash, Idle, disks
<1>9. ASSUME Skip \/ UNCHANGED vars \/ \E p \in PV : Attach(p) \/ GoDown(p) \/ ComeBack(p)
      PROVE  Base(s)'
  <2>1. UNCHANGED <<copy, vgda, active, answered, time>>
    BY <1>9 DEF Skip, vars, Attach, GoDown, ComeBack, disks, group
  <2>2. cmd' # NoCmd => cmd # NoCmd
    BY <1>9 DEF Skip, vars, Attach, GoDown, ComeBack, NoCmd
  <2> QED
    BY <1>d, <1>f, <2>1, <2>2
<1> QED
  BY <1>1, <1>2, <1>3, <1>4, <1>5, <1>6, <1>7, <1>8, <1>9 DEF Next

\* The first descriptor is settled.
LEMMA SettleInit ==
  ASSUME Init, TypeInv
  PROVE  Fresh /\ SettleInv
<1>1. \A p \in First : /\ p \in PV /\ ts[p] = <<0, 1>>
                      /\ copy[p] = [c \in 1 .. 2 |-> IF c = 2 THEN FirstVgda ELSE Torn]
  BY VgdaAssumption DEF Init
<1>2. \A p \in First : Newest(p) = 1
  <2>1. ASSUME NEW p \in First
        PROVE  Newest(p) = 1
    <3>1. ts[p][1] = 0 /\ ts[p][2] = 1
      <4>1. ts[p] = <<0, 1>>
        BY <1>1, <2>1
      <4> QED
        BY <4>1
    <3>2. NewestCopy(ts[p]) = 2
      BY <3>1 DEF NewestCopy
    <3> QED
      BY <3>1, <3>2 DEF Newest
  <2> QED
    BY <2>1
<1>3. Fresh
  BY <1>2 DEF Fresh, Init
<1>4. FirstVgda \in Descriptor /\ FirstVgda.time = 1 /\ FirstVgda.members = First
  BY VgdaAssumption DEF FirstVgda, Descriptor
<1>5. ASSUME NEW d \in Descriptor, OnDisk(d)
      PROVE  d = FirstVgda \/ d.time = 0
  <2>1. PICK p \in PV, c \in 1 .. 2 : d = copy[p][c]
    BY <1>5 DEF OnDisk
  <2> QED
    BY <2>1 DEF Init, Torn
<1>6. Majority({p \in PV : Value(p) >= 1}, First)
  <2>1. First \subseteq {p \in PV : Value(p) >= 1}
    <3>1. \A p \in First : p \in PV /\ Value(p) = 1
      BY <1>1, <1>2 DEF Value, Init
    <3> QED
      BY <3>1
  <2>2. {p \in PV : Value(p) >= 1} \cap First = First
    BY <2>1
  <2>3. Cardinality(First) \in Nat /\ Cardinality(First) # 0
    <3>1. IsFiniteSet(First) /\ First # {}
      BY VgdaAssumption, PVFinite
    <3> QED
      BY <3>1, FS_CardinalityType, FS_EmptySet
  <2> QED
    BY <2>2, <2>3 DEF Majority
<1>7. Reached(FirstVgda)
  BY <1>4, <1>6 DEF Reached, Init
<1>8. Overtaken(FirstVgda)
  BY <1>4, <1>5 DEF Overtaken
<1>9. Current(FirstVgda)
  BY DEF Current, Init
<1> QED
  BY <1>3, <1>4, <1>7, <1>8, <1>9 DEF SettleInv, RunInv, Base, Init

\* A change that was answered is never undone by a crash and the activation that
\* follows it, for any number of PVs, failures and crashes, if every change reaches a
\* majority and starts from a settled descriptor (lv_updatevgda, lv_activatevg).
THEOREM AnsweredChangesSurvive ==
  ASSUME {"minority", "single", "reinstall", "unsettled"} \subseteq Spared
  PROVE  Spec => []AnsweredSurvives
<1> DEFINE Inv == TypeInv /\ CopyInv /\ Fresh /\ SettleInv
<1>1. Init => Inv
  BY TypeInit, CopyInit, SettleInit
<1>2. Inv /\ [Next]_vars => Inv'
  <2>1. TypeInv /\ [Next]_vars => TypeInv'
    BY TypeInductive
  <2>2. "single" \in Spared /\ "reinstall" \in Spared
    OBVIOUS
  <2>3. Inv /\ TypeInv' /\ [Next]_vars => CopyInv' /\ Fresh' /\ SettleInv'
    BY <2>2, CopyInductive, FreshInductive, SettleInductive
  <2> QED
    BY <2>1, <2>3
<1>3. Inv => AnsweredSurvives
  <2>1. ASSUME Inv, active
        PROVE  vgda.time >= answered
    <3>1. PICK s \in Descriptor : Base(s)
      BY <2>1 DEF SettleInv
    <3>2. answered \in Int /\ s.time \in Int /\ vgda.time \in Int
      BY <2>1 DEF TypeInv, TypeOK, Descriptor
    <3>3. answered <= s.time /\ (vgda = s \/ vgda.time > s.time)
      BY <2>1, <3>1 DEF Base, Reached, Current
    <3> QED
      BY <3>2, <3>3
  <2> QED
    BY <2>1 DEF AnsweredSurvives
<1> QED
  BY <1>1, <1>2, <1>3, PTL DEF Spec
====
