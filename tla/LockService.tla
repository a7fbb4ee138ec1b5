---------------------------- MODULE LockService ----------------------------
(***************************************************************************)
(* What the callers of acquireLock rely on: "several server processes can  *)
(* write to the same mailbox without interleaving lines" (mailbox.go, type *)
(* Mailbox).  At any time at most one process is between acquireLock       *)
(* returning and its release.  DirLock implements it, under conditions.    *)
(***************************************************************************)
CONSTANT Procs        \* the server processes and the agents view

VARIABLE holders      \* the processes that were granted the lock

Init == holders = {}

Grant(p) == holders = {} /\ holders' = {p}

Release(p) == p \in holders /\ holders' = holders \ {p}

Next == \E p \in Procs : Grant(p) \/ Release(p)

Spec == Init /\ [][Next]_holders
=============================================================================
