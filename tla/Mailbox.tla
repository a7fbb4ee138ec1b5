------------------------------ MODULE Mailbox ------------------------------
(***************************************************************************)
(* A mailbox whose lock keeps its promise: every call runs between a Grant *)
(* and a Release of LockService.  A call that does not get the lock        *)
(* changes nothing and is left out.  The lock of a process that died is    *)
(* free again once the stale window has passed (DirLock, AbandonedIs-      *)
(* Recovered); here, at once.                                              *)
(***************************************************************************)
EXTENDS MailboxOps

VARIABLE holders      \* the calls that have the mailbox's lock

vars == <<opvars, holders>>

MailboxLock == INSTANCE LockService

Init == InitOps /\ MailboxLock!Init

Enter(p) == MailboxLock!Grant(p) /\ Start(p)

Work(p) == Step(p) /\ UNCHANGED holders

Leave(p) == MailboxLock!Release(p) /\ Return(p)

Crash(p) == MailboxLock!Release(p) /\ Die(p)

Next == \E p \in Procs : Enter(p) \/ Work(p) \/ Leave(p) \/ Crash(p)

Spec == Init /\ [][Next]_vars

TypeOK == OpsTypeOK /\ holders \subseteq Procs
=============================================================================
