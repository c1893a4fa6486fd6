------------------------------ MODULE MCLvOpen ------------------------------
(* LvOpen on small instances: three volumes, a1 and a2 of one volume group. *)
EXTENDS LvOpen

CONSTANTS a1, a2, b1, big, one

MCVgOf == [lv \in Lv |-> IF lv \in {a1, a2} THEN "a" ELSE "b"]
MCLvOf == [r \in Req |-> a1]
MCNeed == [r \in Req |-> IF r = big THEN 3 ELSE 1]
=============================================================================
