----------------------------- MODULE MCMailbox -----------------------------
(* Instances of Mailbox for TLC. *)
EXTENDS Mailbox

CONSTANTS p1, p2, a, b, c

TwoProcs == {p1, p2}
ThreeIds == {a, b, c}
OneOrTwo == {1, 2}
UpToFour == 0..4
=============================================================================
