------------------------------- MODULE LvVgda -------------------------------
(***************************************************************************)
(* The volume group descriptor area (VGDA): two copies on each physical    *)
(* volume (PV), overwritten in turn whenever the configuration changes     *)
(* (lv_updatevgda, lv_writevgda), and the choice among them when the group *)
(* is activated (lv_readvgdats, lv_getvgda, lv_init_pvols).  A crash may   *)
(* come in the middle of a copy, and the next activation may find other    *)
(* PVs than the last.                                                      *)
(*                                                                         *)
(* A descriptor is its time and the PVs it lists; a change of anything     *)
(* else is a new time (lv_microtime is strictly increasing).  The status   *)
(* area and the consistency records of the same PVs are LvVgsa and         *)
(* LvMircons.  PVs without a VGDA are not supported by the code, and the   *)
(* deletion of the last PV, which ends the group, is left out.             *)
(***************************************************************************)
EXTENDS Integers, FiniteSets, FiniteSetsExt

CONSTANTS
    NPV,
    First,      \* the PVs of the group at the start
    Spared,     \* what does not happen, of the six below
    MaxTime,    \* bound on changes
    MaxFail,    \* bound on PVs that go down
    MaxCrash    \* bound on crashes

PV == 1 .. NPV

(* What a run may be spared.  "minority": a change whose descriptor        *)
(* reaches half of the PVs it lists or fewer.  "ghost": a PV that the      *)
(* active group has not is attached to it.  "retry": a group that had no   *)
(* quorum is activated again before it was deactivated.  "single": a write *)
(* to the only PV of a group is cut short.  "reinstall": a PV that still   *)
(* carries a descriptor is installed.  "unsettled": a group that was       *)
(* activated with what an interrupted change left, or without it, is       *)
(* changed; lv_activatevg settles nothing, see Activate.                   *)
Spares == {"minority", "ghost", "retry", "single", "reinstall", "unsettled"}

ASSUME VgdaAssumption ==
    /\ NPV \in Nat \ {0} /\ First \subseteq PV /\ First # {} /\ Spared \subseteq Spares
    /\ MaxTime \in Nat \ {0} /\ MaxFail \in Nat /\ MaxCrash \in Nat

VARIABLES
    copy,       \* copy[p][c]: the descriptors on the disks
    ingroup,    \* PVs whose LVM record has the group's vg_id
    down,       \* PVs that cannot be reached
    active,     \* VG_ACTIVATED
    vgda,       \* the descriptor in memory (vg_vgda)
    pvols,      \* PVs with a struct pvol
    attached,   \* those that are not LVM_NOTATTACHED
    ts,         \* ts[p][c]: pv_vgdats
    cmd,        \* the command that updates the descriptors
    time,       \* of the last descriptor made
    answered,   \* time of the last descriptor whose command has returned
    chosen,     \* history: the latest descriptor of an active group
    panic, fails, crashes

disks  == <<copy, ingroup>>
group  == <<active, vgda, pvols, attached, ts>>
bounds == <<fails, crashes>>
vars   == <<disks, down, group, cmd, time, answered, chosen, panic, bounds>>

Torn == [time |-> 0, members |-> {}]      \* header and trailer differ, or neither is there
NoTs == [c \in 1 .. 2 |-> 0]
NoCmd == [todo |-> {}, failed |-> {}, gone |-> {}, writing |-> 0]

Idle    == cmd = NoCmd
Running == panic = "none"

Majority(s, of) == 2 * Cardinality(s \cap of) > Cardinality(of)

-----------------------------------------------------------------------------
(* Attaching, activating and deactivating.                                 *)

\* lv_readvgdats: a copy whose header and trailer differ counts as of time 0.
Stamps(p) == [c \in 1 .. 2 |-> copy[p][c].time]

\* lv_attachpv.  It makes a pvol unless the group has one that is not attached.
Attach(p) ==
    /\ Running /\ Idle /\ p \in ingroup \ (down \cup attached)
    /\ "ghost" \in Spared => (active => p \in pvols)
    /\ pvols' = pvols \cup {p}
    /\ attached' = attached \cup {p}
    /\ ts' = [ts EXCEPT ![p] = Stamps(p)]
    /\ UNCHANGED <<disks, down, active, vgda, cmd, time, answered, chosen, panic, bounds>>

\* The copy that lv_readvgda reads and, on a PV of several, that lv_writevgda does
\* not overwrite.
NewestCopy(t) == IF t[1] > t[2] THEN 1 ELSE 2
Newest(p) == ts[p][NewestCopy(ts[p])]

\* lv_getvgda: the newest descriptor of the attached PVs, on the first PV that has it.
Master == CHOOSE p \in attached :
    /\ \A q \in attached : Newest(q) <= Newest(p)
    /\ \A q \in attached : Newest(q) = Newest(p) => p <= q

\* A slip: half of the PVs are enough.
HalfQuorum(present, ms) == 2 * Cardinality(present) >= Cardinality(ms)

\* The test at the end of lv_init_pvols.
Quorum(present, ms) == Cardinality(present) > Cardinality(ms) \div 2

\* lv_activatevg.  PVs that the descriptor does not list are dropped, and those it
\* lists that are not attached get a pvol without an LVM record, which a second
\* attempt would read.  need_update is always 0: lv_getvgda steps the pointer to
\* it (*need_update++), so no descriptor is written.
Activate ==
    /\ Running /\ ~active /\ attached # {}
    /\ LET d == copy[Master][NewestCopy(ts[Master])] IN
       /\ Newest(Master) > 0
       /\ IF pvols # attached
          THEN /\ "retry" \notin Spared
               /\ panic' = "lv_init_pvols" /\ UNCHANGED <<group, chosen>>
          ELSE /\ vgda' = d
               /\ pvols' = d.members
               /\ attached' = attached \cap d.members
               /\ ts' = [p \in PV |-> IF p \in attached' THEN ts[p] ELSE NoTs]
               /\ active' = Quorum(attached', d.members)
               /\ chosen' = IF active' THEN Max({chosen, d.time}) ELSE chosen
               /\ panic' = panic
    /\ UNCHANGED <<disks, down, cmd, time, answered, bounds>>

\* lv_deactivatevg; it does not ask whether the group is active.
Deactivate ==
    /\ Running /\ Idle /\ (active \/ pvols # attached)
    /\ active' = FALSE /\ vgda' = Torn /\ pvols' = attached
    /\ UNCHANGED <<disks, down, attached, ts, cmd, time, answered, chosen, panic, bounds>>

-----------------------------------------------------------------------------
(* Changing the configuration.                                             *)

\* Enough PVs are left for the descriptor to reach, or the run is not spared.
Enough(ms, at, failed) == "minority" \in Spared => Majority(at \ failed, ms)

\* The newest descriptor on a PV, and that of the active group is on more than half
\* of the PVs it lists, and none is newer.
Best(p) == Max({copy[p][c].time : c \in 1 .. 2})
Settled ==
    /\ \A p \in PV : Best(p) <= vgda.time
    /\ Majority({p \in PV : Best(p) = vgda.time}, vgda.members)

\* lv_updatevgda begins: a new descriptor, to be written to every PV in turn.
Update(ms, ps, at, gone) ==
    /\ Running /\ active /\ Idle /\ time < MaxTime
    /\ Enough(ms, at, {})
    /\ "unsettled" \in Spared => Settled
    /\ time' = time + 1
    /\ vgda' = [time |-> time + 1, members |-> ms]
    /\ cmd' = [NoCmd EXCEPT !.todo = ps, !.gone = gone]

\* lv_changepv and the commands on logical volumes.
Change ==
    /\ Update(vgda.members, pvols, attached, {})
    /\ UNCHANGED <<disks, down, active, pvols, attached, ts, answered, chosen, panic, bounds>>

\* lv_installpv_common: the LVM record is written first, and the descriptors that are
\* on the disk stay there, taken for copies of time 0 until they are overwritten.
Install(p) ==
    /\ p \notin ingroup \cup down \cup pvols
    /\ "reinstall" \in Spared => \A c \in 1 .. 2 : copy[p][c] = Torn
    /\ Update(vgda.members \cup {p}, pvols \cup {p}, attached \cup {p}, {})
    /\ ingroup' = ingroup \cup {p}
    /\ pvols' = pvols \cup {p} /\ attached' = attached \cup {p}
    /\ ts' = [ts EXCEPT ![p] = NoTs]
    /\ panic' = IF Cardinality(pvols') # Cardinality(vgda'.members)
                THEN "lv_installpv_common" ELSE panic
    /\ UNCHANGED <<copy, down, active, answered, chosen, bounds>>

\* lv_deletepv: the PV still gets the descriptor that does not list it.
Delete(p) ==
    /\ p \in pvols /\ Cardinality(pvols) > 1
    /\ Update(vgda.members \ {p}, pvols, attached, {p})
    /\ UNCHANGED <<disks, down, active, pvols, attached, ts, answered, chosen, panic, bounds>>

\* A slip: the copy that was written last is written again.
SameCopy(p) == NewestCopy(ts[p])

\* lv_writevgda: the older copy, the first if they are equal; both copies, the first
\* one first, if the PV is the only one.
WriteCopy(p) ==
    IF Cardinality(vgda.members) = 1
    THEN IF ts[p][1] = vgda.time THEN 2 ELSE 1
    ELSE IF ts[p][1] > ts[p][2] THEN 2 ELSE 1

Cur == Min(cmd.todo)

\* A copy is being written: a crash, or a PV that goes down, leaves it torn.
Begin ==
    /\ Running /\ cmd.todo # {} /\ cmd.writing = 0 /\ Cur \in attached \ down
    /\ LET c == WriteCopy(Cur) IN
       /\ copy' = [copy EXCEPT ![Cur][c] = Torn]
       /\ cmd' = [cmd EXCEPT !.writing = c]
    /\ UNCHANGED <<ingroup, down, group, time, answered, chosen, panic, bounds>>

Written ==
    /\ Running /\ cmd.writing # 0 /\ Cur \notin down
    /\ copy' = [copy EXCEPT ![Cur][cmd.writing] = vgda]
    /\ ts' = [ts EXCEPT ![Cur][cmd.writing] = vgda.time]
    /\ cmd' = [cmd EXCEPT !.writing = 0,
                          !.todo = IF Cardinality(vgda.members) = 1 /\ cmd.writing = 1
                                   THEN @ ELSE @ \ {Cur}]
    /\ UNCHANGED <<ingroup, down, active, vgda, pvols, attached, time, answered, chosen, panic, bounds>>

\* The PV is not attached, or the write failed; the error is not looked at.
Skip ==
    /\ Running /\ cmd.todo # {}
    /\ Cur \notin attached \/ Cur \in down
    /\ Enough(vgda.members, attached, cmd.failed \cup {Cur})
    /\ cmd' = [cmd EXCEPT !.writing = 0, !.todo = @ \ {Cur}, !.failed = @ \cup {Cur}]
    /\ UNCHANGED <<disks, down, group, time, answered, chosen, panic, bounds>>

\* The command returns.  A deleted PV's LVM record is cleared if it can be.
Return ==
    /\ Running /\ ~Idle /\ cmd.todo = {}
    /\ cmd' = NoCmd
    /\ ingroup' = ingroup \ ((cmd.gone \cap attached) \ down)
    /\ pvols' = pvols \ cmd.gone /\ attached' = attached \ cmd.gone
    /\ answered' = vgda.time
    /\ chosen' = Max({chosen, vgda.time})
    /\ panic' = IF cmd.gone # {} /\ Cardinality(pvols') # Cardinality(vgda.members)
                THEN "lv_deletepv" ELSE panic
    /\ UNCHANGED <<copy, down, active, vgda, ts, time, bounds>>

-----------------------------------------------------------------------------

MayCut == "single" \in Spared => cmd.writing = 0 \/ Cardinality(vgda.members) > 1

GoDown(p) ==
    /\ p \notin down /\ fails < MaxFail /\ MayCut
    /\ down' = down \cup {p} /\ fails' = fails + 1
    /\ UNCHANGED <<disks, group, cmd, time, answered, chosen, panic, crashes>>

ComeBack(p) ==
    /\ p \in down /\ down' = down \ {p}
    /\ UNCHANGED <<disks, group, cmd, time, answered, chosen, panic, bounds>>

Crash ==
    /\ crashes < MaxCrash /\ crashes' = crashes + 1 /\ MayCut
    /\ active' = FALSE /\ vgda' = Torn /\ pvols' = {} /\ attached' = {}
    /\ ts' = [p \in PV |-> NoTs]
    /\ cmd' = NoCmd
    /\ UNCHANGED <<disks, down, time, answered, chosen, panic, fails>>

\* The group is active, and its descriptor is on the second copies.
FirstVgda == [time |-> 1, members |-> First]

Init ==
    /\ copy = [p \in PV |-> [c \in 1 .. 2 |-> IF p \in First /\ c = 2 THEN FirstVgda ELSE Torn]]
    /\ ingroup = First /\ down = {} /\ active = TRUE /\ vgda = FirstVgda
    /\ pvols = First /\ attached = First
    /\ ts = [p \in PV |-> IF p \in First THEN <<0, 1>> ELSE NoTs]
    /\ cmd = NoCmd /\ time = 1 /\ answered = 1 /\ chosen = 1
    /\ panic = "none" /\ fails = 0 /\ crashes = 0

Next ==
    \/ \E p \in PV : Attach(p) \/ Install(p) \/ Delete(p) \/ GoDown(p) \/ ComeBack(p)
    \/ Activate \/ Deactivate \/ Change
    \/ Begin \/ Written \/ Skip \/ Return
    \/ Crash

Spec == Init /\ [][Next]_vars

-----------------------------------------------------------------------------

Descriptor == [time : 0 .. MaxTime, members : SUBSET PV]

TypeOK ==
    /\ copy \in [PV -> [1 .. 2 -> Descriptor]] /\ vgda \in Descriptor
    /\ ts \in [PV -> [1 .. 2 -> 0 .. MaxTime]]
    /\ ingroup \subseteq PV /\ down \subseteq PV /\ attached \subseteq pvols /\ pvols \subseteq PV
    /\ cmd \in [todo : SUBSET PV, failed : SUBSET PV, gone : SUBSET PV, writing : 0 .. 2]
    /\ active \in BOOLEAN /\ time \in 1 .. MaxTime
    /\ answered \in 1 .. time /\ chosen \in 1 .. time

(* A change that was answered is never undone: whatever PVs a group is     *)
(* activated with after a crash, a quorum of them has a descriptor at      *)
(* least as new (lv_writevgda, lv_getvgda, lv_init_pvols).                 *)
AnsweredSurvives == active => vgda.time >= answered

(* Writing a descriptor never destroys the newest one of a PV, even if the *)
(* write is cut short: only the older copy is overwritten (lv_writevgda).  *)
(* A PV that is being installed has none that matters.                     *)
Kept(p) == Newest(p) > 0 => Best(p)' >= Best(p)
NewestAlwaysKept == [][\A p \in PV : Kept(p)]_vars

(* The same, except for a group of one PV: when the other PVs are deleted  *)
(* its first copy is written first, even if it is the newer.               *)
NewestKept == [][Cardinality(vgda.members) > 1 => \A p \in PV : Kept(p)]_vars

(* The panics of lv_installpv_common and lv_deletepv, and the null pointer *)
(* of lv_init_pvols, do not happen.                                        *)
NoPanic == panic = "none"

(* "once a decision concerning the current Volume Group state is made,     *)
(* that it is propogated to sufficient Physical Volumes so that the        *)
(* decision can never be unmade" (implementation.t, 1395-1397): a group    *)
(* that was active with a descriptor is not activated with an older one.   *)
(* It is violated: lv_activatevg (721) never writes what it chose.         *)
NeverUnmade == active => vgda.time >= chosen

=============================================================================
