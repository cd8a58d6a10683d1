--------------------------- MODULE MCFragmentLink ---------------------------
(* FragmentLink for TLC: model values for addresses and message bodies. *)
EXTENDS FragmentLink, TLC

CONSTANTS n1, n2, d1, d2

OneSender == {n1}
TwoSenders == {n1, n2}
OneBody == {d1}
TwoBodies == {d1, d2}

SenderSymmetry == Permutations(TwoSenders)
BodySymmetry == Permutations(TwoBodies)
BothSymmetry == SenderSymmetry \cup BodySymmetry
=============================================================================
