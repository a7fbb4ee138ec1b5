----------------------------- MODULE MCDirLock -----------------------------
(* Instances of DirLock for TLC. *)
EXTENDS DirLock

CONSTANTS p1, p2, p3

TwoProcs == {p1, p2}

ThreeProcs == {p1, p2, p3}
=============================================================================
