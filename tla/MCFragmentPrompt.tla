-------------------------- MODULE MCFragmentPrompt --------------------------
(* FragmentPrompt for TLC. *)
EXTENDS FragmentPrompt

CONSTANTS n1, d1

OneSender == {n1}
OneBody == {d1}
=============================================================================
