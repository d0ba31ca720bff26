----------------------------- MODULE MCRotation -----------------------------
(* The two sides of Rotation as model values, which symmetry may exchange. *)
EXTENDS Rotation, TLC

CONSTANTS a, b

MCSides == {a, b}
Swap == Permutations(MCSides)
=============================================================================
