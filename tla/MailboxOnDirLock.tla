-------------------------- MODULE MailboxOnDirLock --------------------------
(***************************************************************************)
(* A mailbox under the lock it really uses (Mailbox.lock: acquireLock on   *)
(* the log's path): the operations of MailboxOps between Mkdir and Release *)
(* of DirLock.  It implements Mailbox as long as no holder dies or keeps   *)
(* the lock past the stale window; a process that is suspended in the      *)
(* middle of a Fetch does just that.                                       *)
(***************************************************************************)
EXTENDS MailboxOps

CONSTANTS None, Stale, Wait, MaxHold, MaxCrashes, Removable

ASSUME NoneAssumption == None \notin Procs
ASSUME TimeAssumption == Stale \in Nat /\ Wait \in Nat /\ MaxHold \in Nat
ASSUME FaultAssumption == MaxCrashes \in Nat /\ Removable \in BOOLEAN

VARIABLES
  at,         \* DirLock's pc
  maker, age, waited, held, crashes

DL == INSTANCE DirLock WITH pc <- at

lockvars == <<maker, age, at, waited, held, crashes>>

vars == <<opvars, lockvars>>

Init == InitOps /\ DL!Init

\* A call waits for the lock; what it is for is settled when it has it.
Queue(p) == DL!Call(p) /\ UNCHANGED opvars

Contend(p) ==
  /\ \/ DL!MkdirExists(p) \/ DL!MkdirFails(p) \/ DL!Stat(p)
     \/ DL!Steal(p) \/ DL!GiveUp(p) \/ DL!Retry(p)
  /\ UNCHANGED opvars

Enter(p) == DL!Mkdir(p) /\ Start(p)

Work(p) == Step(p) /\ UNCHANGED lockvars

Leave(p) == DL!Release(p) /\ Return(p)

Crash(p) ==
  /\ DL!Crash(p)
  /\ \/ at[p] = "held" /\ Die(p)
     \/ at[p] # "held" /\ UNCHANGED opvars

Pass == DL!Tick /\ UNCHANGED opvars

Next ==
  \/ \E p \in Procs :
       Queue(p) \/ Contend(p) \/ Enter(p) \/ Work(p) \/ Leave(p) \/ Crash(p)
  \/ Pass

Spec == Init /\ [][Next]_vars

-----------------------------------------------------------------------------
TypeOK == OpsTypeOK /\ DL!TypeOK

MB == INSTANCE Mailbox WITH holders <- DL!Holders

\* "several server processes can write to the same mailbox without interleaving
\* lines or handing one message to two readers" (type Mailbox): everything
\* Mailbox promises, of the mailbox on disk.
ImplementsMailbox == MB!Spec
=============================================================================
