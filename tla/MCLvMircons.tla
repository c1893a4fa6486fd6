---------------------------- MODULE MCLvMircons ----------------------------
(* Instances of LvMircons: three PVs and two LTGs, or three: a1 is in a   *)
(* volume mirrored on PVs 0 and 1, and a2 and a3 in one on PVs 1 and 2.    *)
EXTENDS LvMircons

CONSTANTS a1, a2, a3

MCMirror == {0, 1}
MCLv == {"lv1", "lv2"}
MCLvOf == [x \in Ltg |-> IF x = a1 THEN "lv1" ELSE "lv2"]
MCPvOf == [m \in Ltg \X MCMirror |-> IF m[1] = a1 THEN m[2] ELSE m[2] + 1]

\* All three mirrors allocated for a1; a2 has one mirror and two holes.
MCMirror3 == {0, 1, 2}
MCPvOf3 ==
    [m \in Ltg \X MCMirror3 |->
        IF m[1] = a1 THEN m[2] ELSE IF m[2] = 0 THEN 1 ELSE NoPv]

ReqSymmetry == Permutations(Req)
=============================================================================
