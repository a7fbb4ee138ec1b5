---------------------------- MODULE StealableLock ---------------------------
(***************************************************************************)
(* What is left of the promise of acquireLock (fleet.go) when processes    *)
(* die: a directory whose maker no longer has the lock may be judged stale *)
(* and removed, one whose maker has it is never judged so.  But who has    *)
(* judged a directory stale removes whatever directory is there by then,   *)
(* and so does a release.  There is no clock: DirLock implements it as     *)
(* long as no process keeps the lock past the stale window.                *)
(***************************************************************************)
CONSTANTS
  Procs,        \* the processes that use one lock
  None          \* not a process: there is no lock directory

VARIABLES
  maker,    \* the process whose Mkdir made the directory, None without one
  holders,  \* the processes between acquireLock's return and their release
  thieves   \* the processes that judged a directory stale and will remove one

lock == <<maker, holders, thieves>>

\* There may be a directory that an earlier life of a process has left.
Init == maker \in Procs \cup {None} /\ holders = {} /\ thieves = {}

\* os.Remove may fail, its error is not looked at.
Removal == maker' \in {None, maker}

Grant(p) ==
  /\ maker = None
  /\ p \notin thieves
  /\ maker' = p
  /\ holders' = holders \cup {p}
  /\ UNCHANGED thieves

Judge(p) ==
  /\ maker # None
  /\ maker \notin holders
  /\ thieves' = thieves \cup {p}
  /\ UNCHANGED <<maker, holders>>

Steal(p) ==
  /\ p \in thieves
  /\ Removal
  /\ thieves' = thieves \ {p}
  /\ UNCHANGED holders

Release(p) ==
  /\ p \in holders
  /\ Removal
  /\ holders' = holders \ {p}
  /\ UNCHANGED thieves

\* A process that dies leaves the directory behind.
Die(p) ==
  /\ holders' = holders \ {p}
  /\ thieves' = thieves \ {p}
  /\ UNCHANGED maker

Next == \E p \in Procs : Grant(p) \/ Judge(p) \/ Steal(p) \/ Release(p) \/ Die(p)

Spec == Init /\ [][Next]_lock

\* A step that takes the directory from under a process that has the lock.
Robs == maker' # maker /\ maker \in holders'
=============================================================================
