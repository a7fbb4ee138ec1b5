------------------------------ MODULE DirLock ------------------------------
(***************************************************************************)
(* The mkdir lock of fleet.go (acquireLockWait and the release it          *)
(* returns): a process owns the lock on a target when its Mkdir of         *)
(* "<target>.lock" succeeded.  A lock directory whose mtime is older than  *)
(* the stale window is removed by whoever looks at it, and Mkdir is tried  *)
(* again; a process that found it fresh gives up once its own wait is      *)
(* over.  release removes the directory, whoever made it.                  *)
(*                                                                         *)
(* Time is counted in ticks.  The age of the directory and each process's  *)
(* wait saturate one tick past the limit they are compared with, so the    *)
(* state space is finite without a horizon.                                *)
(***************************************************************************)
EXTENDS Integers

CONSTANTS
  Procs,        \* the processes that use one lock
  None,         \* not a process: there is no lock directory
  Stale,        \* ticks: const stale
  Wait,         \* ticks: the caller's bound on the wait
  MaxHold,      \* ticks: the longest time a process keeps the lock
  MaxCrashes,   \* bound: how many crashes a behaviour has
  Removable     \* FALSE: os.Remove fails (a file inside, a read-only parent)

ASSUME NoneAssumption == None \notin Procs
ASSUME TimeAssumption == Stale \in Nat /\ Wait \in Nat /\ MaxHold \in Nat
ASSUME FaultAssumption == MaxCrashes \in Nat /\ Removable \in BOOLEAN

VARIABLES
  maker,    \* the process whose Mkdir made the lock directory, None without one
  age,      \* time.Since(mtime of the lock directory)
  pc,       \* where in acquireLockWait a process is; "held" until it releases
  waited,   \* how long it has been in acquireLockWait
  held,     \* how long it has had the lock
  crashes   \* how many crashes there were

vars == <<maker, age, pc, waited, held, crashes>>

PCs == {"idle", "mkdir", "stat", "steal", "deadline", "held"}

Init ==
  /\ maker = None
  /\ age = 0
  /\ pc = [p \in Procs |-> "idle"]
  /\ waited = [p \in Procs |-> 0]
  /\ held = [p \in Procs |-> 0]
  /\ crashes = 0

Goto(p, l) == pc' = [pc EXCEPT ![p] = l]

RemoveDir == maker' = IF Removable THEN None ELSE maker

-----------------------------------------------------------------------------
(* A call of acquireLockWait. *)

Call(p) ==
  /\ pc[p] = "idle"
  /\ Goto(p, "mkdir")
  /\ waited' = [waited EXCEPT ![p] = 0]
  /\ UNCHANGED <<maker, age, held, crashes>>

\* Mutant of Mkdir: MkdirAll, which has no objection to a directory.
MkdirAll(p) ==
  /\ pc[p] = "mkdir"
  /\ maker' = IF maker = None THEN p ELSE maker
  /\ age' = IF maker = None THEN 0 ELSE age
  /\ held' = [held EXCEPT ![p] = 0]
  /\ Goto(p, "held")
  /\ UNCHANGED <<waited, crashes>>

Mkdir(p) ==
  /\ pc[p] = "mkdir"
  /\ maker = None
  /\ maker' = p
  /\ age' = 0
  /\ held' = [held EXCEPT ![p] = 0]
  /\ Goto(p, "held")
  /\ UNCHANGED <<waited, crashes>>

MkdirExists(p) ==
  /\ pc[p] = "mkdir"
  /\ maker # None
  /\ Goto(p, "stat")
  /\ UNCHANGED <<maker, age, waited, held, crashes>>

\* Any other error of Mkdir is returned at once.
MkdirFails(p) ==
  /\ pc[p] = "mkdir"
  /\ maker = None
  /\ Goto(p, "idle")
  /\ UNCHANGED <<maker, age, waited, held, crashes>>

\* Mutants of IsStale: one tick too early; never.
StaleTooEarly == maker # None /\ age >= Stale
StaleNever == FALSE

IsStale == maker # None /\ age > Stale

Stat(p) ==
  /\ pc[p] = "stat"
  /\ Goto(p, IF IsStale THEN "steal" ELSE "deadline")
  /\ UNCHANGED <<maker, age, waited, held, crashes>>

\* os.Remove names the path, not the directory that was stat'ed.
Steal(p) ==
  /\ pc[p] = "steal"
  /\ RemoveDir
  /\ Goto(p, "mkdir")
  /\ UNCHANGED <<age, waited, held, crashes>>

GiveUp(p) ==
  /\ pc[p] = "deadline"
  /\ waited[p] > Wait
  /\ Goto(p, "idle")
  /\ UNCHANGED <<maker, age, waited, held, crashes>>

\* Mutant of Retry: the deadline is not looked at.
RetryAnyway(p) ==
  /\ pc[p] = "deadline"
  /\ Goto(p, "mkdir")
  /\ UNCHANGED <<maker, age, waited, held, crashes>>

\* The 25 ms sleep is shorter than a tick: it takes no time of its own.
Retry(p) ==
  /\ pc[p] = "deadline"
  /\ waited[p] <= Wait
  /\ Goto(p, "mkdir")
  /\ UNCHANGED <<maker, age, waited, held, crashes>>

Release(p) ==
  /\ pc[p] = "held"
  /\ RemoveDir
  /\ Goto(p, "idle")
  /\ UNCHANGED <<age, waited, held, crashes>>

-----------------------------------------------------------------------------
(* The environment: a process that dies leaves its directory behind; time  *)
(* passes for everybody, and a holder is done within MaxHold.              *)

Crash(p) ==
  /\ pc[p] # "idle"
  /\ crashes < MaxCrashes
  /\ crashes' = crashes + 1
  /\ Goto(p, "idle")
  /\ UNCHANGED <<maker, age, waited, held>>

\* Mutant of UpTo: the clock runs on.
UpAndUp(n, limit) == n + 1

UpTo(n, limit) == IF n < limit THEN n + 1 ELSE limit

Tick ==
  /\ \A p \in Procs : pc[p] = "held" => held[p] < MaxHold
  /\ age' = IF maker = None THEN age ELSE UpTo(age, Stale + 1)
  /\ waited' = [p \in Procs |->
                  IF pc[p] \in {"idle", "held"} THEN waited[p]
                                                ELSE UpTo(waited[p], Wait + 1)]
  /\ held' = [p \in Procs |-> IF pc[p] = "held" THEN held[p] + 1 ELSE held[p]]
  /\ UNCHANGED <<maker, pc, crashes>>

Acquiring(p) ==
  Mkdir(p) \/ MkdirExists(p) \/ MkdirFails(p) \/ Stat(p) \/ Steal(p) \/ GiveUp(p) \/ Retry(p)

Next ==
  \/ \E p \in Procs : Call(p) \/ Acquiring(p) \/ Release(p) \/ Crash(p)
  \/ Tick

Spec == Init /\ [][Next]_vars

(* Every process runs, the clock runs; nobody has to call, or to crash. *)
FairSpec ==
  /\ Spec
  /\ \A p \in Procs : WF_vars(Acquiring(p)) /\ WF_vars(Release(p))
  /\ WF_vars(Tick)

-----------------------------------------------------------------------------
Holders == {p \in Procs : pc[p] = "held"}

Thieves == {p \in Procs : pc[p] = "steal"}

Lock == INSTANCE LockService WITH holders <- Holders

Stealable == INSTANCE StealableLock WITH holders <- Holders, thieves <- Thieves

TypeOK ==
  /\ maker \in Procs \cup {None}
  /\ age \in 0..(Stale + 1)
  /\ pc \in [Procs -> PCs]
  /\ waited \in [Procs -> 0..(Wait + 1)]
  /\ held \in [Procs -> 0..MaxHold]
  /\ crashes \in 0..MaxCrashes

\* "so it mutually excludes a concurrently-running picker" (acquireLock): at
\* most one process is between acquireLock and its release.
MutualExclusion == \A p, q \in Holders : p = q

\* A process that has the lock has its own directory on disk, so what it
\* removes at release, and what a newcomer's Mkdir runs into, is its own.
HolderMadeDir == \A p \in Holders : maker = p

\* Nobody removes a directory another process made and still relies on:
\* neither a waiter that judged an earlier directory stale nor a late release.
RemovesOwnOrAbandoned ==
  [][\A p \in Procs :
       (Steal(p) \/ Release(p)) /\ maker' # maker => Holders \subseteq {p}]_vars

\* The clients' view while nobody dies: the promise of LockService.
ImplementsLock == Lock!Spec

\* "assumed abandoned and stolen" (acquireLock), with deaths: no directory is judged
\* abandoned while its maker has the lock, and a lock is granted over none, so what a
\* live holder has to fear is only a thief that judged an earlier directory, and a
\* release of one robbed before.
ImplementsStealable == Stealable!Spec

\* "acquireLock with a caller-chosen bound on the wait" (acquireLockWait): a
\* call comes back, with the lock or without it.
BoundedWait ==
  \A p \in Procs : pc[p] \notin {"idle", "held"} ~> pc[p] \in {"idle", "held"}

\* "assumed abandoned and stolen" (acquireLock): a directory whose maker no
\* longer holds the lock does not stay for ever while processes keep calling.
Abandoned == maker # None /\ maker \notin Holders

Attempted == \A p \in Procs : []<>(pc[p] = "mkdir")

AbandonedIsRecovered == Attempted => (Abandoned ~> ~Abandoned)
=============================================================================
