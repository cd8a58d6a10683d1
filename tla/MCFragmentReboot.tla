-------------------------- MODULE MCFragmentReboot --------------------------
(* FragmentReboot for TLC. *)
EXTENDS FragmentReboot, TLC

CONSTANTS n1, d1, d2

OneSender == {n1}
TwoBodies == {d1, d2}
BodySymmetry == Permutations(TwoBodies)
=============================================================================
