----------------------------- MODULE MCLvDefect -----------------------------
(* An instance of LvDefect: requests are interchangeable.                  *)
EXTENDS LvDefect

Symmetry == Permutations(Request)

=============================================================================
