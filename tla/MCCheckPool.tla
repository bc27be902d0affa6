---------------------------- MODULE MCCheckPool ----------------------------
(* Instances of CheckPool for model checking. *)
EXTENDS CheckPool

CONSTANTS r1, r2, a, b, c

Pool == {r1, r2}
Three == {a, b, c}
OnlyA == {a}
None == {}
=============================================================================
