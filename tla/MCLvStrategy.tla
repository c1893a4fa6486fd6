---------------------------- MODULE MCLvStrategy ----------------------------
(* Small instances of LvStrategy for TLC.                                  *)
EXTENDS LvStrategy, TLC

\* A volume of one extent of two LTGs; LTG 2 is beyond its end and shares a
\* hash chain with LTG 0.
MCShapes == {[ltg |-> 0, pages |-> {1},    read |-> TRUE],
             [ltg |-> 0, pages |-> {1, 2}, read |-> FALSE],
             [ltg |-> 0, pages |-> {2},    read |-> FALSE],
             [ltg |-> 2, pages |-> {2},    read |-> FALSE]}

MCFewShapes == {[ltg |-> 0, pages |-> {1}, read |-> TRUE],
                [ltg |-> 0, pages |-> {1, 2}, read |-> FALSE]}

Symmetry == Permutations(Bufs) \cup Permutations(Callers)
=============================================================================
