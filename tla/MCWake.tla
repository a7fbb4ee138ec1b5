------------------------------- MODULE MCWake -------------------------------
(* Instances of Wake for TLC. *)
EXTENDS Wake, TLC

CONSTANTS w1, w2

TwoCallers == {w1, w2}

Symmetry == Permutations(TwoCallers)
=============================================================================
