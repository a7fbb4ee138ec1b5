------------------------- MODULE MCMailboxOnDirLock -------------------------
(* Instances of MailboxOnDirLock for TLC. *)
EXTENDS MailboxOnDirLock

CONSTANTS p1, p2, a, b

TwoProcs == {p1, p2}
TwoIds == {a, b}
One == {1}
=============================================================================
