----------------------------- MODULE MCLvVgsa -----------------------------
(* Small volume groups for TLC.                                            *)
EXTENDS LvVgsa, TLC

\* Mirror m is on PV m.
MCPvOf == [e \in LX \X Mirror |-> e[2]]

\* Both mirrors are on the first PV (the volume is not LVM_STRICT).
OnePv   == [e \in LX \X Mirror |-> 0]

\* Different physical extents on each PV, or the same ones crosswise.
Apart    == [e \in LX \X Mirror |-> e[1]]
Crossed  == [e \in LX \X Mirror |-> IF e[2] = 0 THEN e[1] ELSE 1 - e[1]]

\* The second mirror of logical extent 0 is not there yet.
SecondMirror == {<<0, 1>>}

ThirdMirror  == {<<0, 2>>}

\* Logical extent 1 is not allocated yet.
SecondExtent == {<<1, 0>>}

AllAttached == {{}}
OneAway     == {{}, {2}}
=============================================================================
