--------------------------- MODULE DirLockProofs ---------------------------
(***************************************************************************)
(* DirLock for any number of processes and any times.  TypeOK holds        *)
(* whatever fails.  Exclusion needs what the ten-second window takes for   *)
(* granted: no holder dies, and none keeps the lock past the window.  Up   *)
(* to the first death of a process the latter is enough, and so it is, for *)
(* any number of deaths, for a caller's bound on its wait.                 *)
(***************************************************************************)
EXTENDS DirLock, TLAPS

\* Every value the variables take is of its type (acquireLockWait, release).
THEOREM TypeCorrect == Spec => []TypeOK
<1> USE NoneAssumption, TimeAssumption, FaultAssumption DEF TypeOK, PCs
<1>1. Init => TypeOK
  BY DEF Init
<1>2. TypeOK /\ [Next]_vars => TypeOK'
  <2> SUFFICES ASSUME TypeOK, [Next]_vars
               PROVE  TypeOK'
    OBVIOUS
  <2>1. ASSUME NEW p \in Procs, Call(p) \/ Acquiring(p) \/ Release(p) \/ Crash(p)
        PROVE  TypeOK'
    BY <2>1 DEF Call, Acquiring, Mkdir, MkdirExists, MkdirFails, Stat, Steal,
                GiveUp, Retry, Release, Crash, Goto, RemoveDir
  <2>2. CASE Tick
    <3>1. held' \in [Procs -> 0..MaxHold]
      BY <2>2 DEF Tick
    <3>2. waited' \in [Procs -> 0..(Wait + 1)] /\ age' \in 0..(Stale + 1)
      BY <2>2 DEF Tick, UpTo
    <3>3. QED
      BY <2>2, <3>1, <3>2 DEF Tick
  <2>3. CASE UNCHANGED vars
    BY <2>3 DEF vars
  <2>4. QED
    BY <2>1, <2>2, <2>3 DEF Next
<1>3. QED
  BY <1>1, <1>2, PTL DEF Spec

-----------------------------------------------------------------------------
(***************************************************************************)
(* The inductive invariant.  MutualExclusion alone is not inductive: it    *)
(* takes the link between a holder and the directory on disk, and the fact *)
(* that this directory is no older than its maker's hold, hence never      *)
(* stale, hence nobody is about to remove it.                              *)
(***************************************************************************)
HoldsAreShort == MaxHold <= Stale

NoStalls == MaxCrashes = 0 /\ HoldsAreShort

DirOfHolder == maker \in Procs /\ pc[maker] = "held" => age <= held[maker]

NothingAbandoned == Removable => maker = None \/ maker \in Holders

NobodySteals == Removable => \A p \in Procs : pc[p] # "steal"

LockInv == TypeOK /\ HolderMadeDir /\ DirOfHolder /\ NothingAbandoned /\ NobodySteals

LEMMA NeverStale ==
  ASSUME HoldsAreShort, LockInv, Removable
  PROVE  ~IsStale
BY NoneAssumption, TimeAssumption
   DEF HoldsAreShort, LockInv, TypeOK, DirOfHolder, NothingAbandoned, Holders, IsStale

LEMMA LockInvInit == Init => LockInv
BY NoneAssumption, TimeAssumption, FaultAssumption
   DEF Init, LockInv, TypeOK, PCs, HolderMadeDir, DirOfHolder, NothingAbandoned,
       NobodySteals, Holders

LEMMA LockInvStep ==
  ASSUME HoldsAreShort, LockInv, TypeOK', [Next]_vars, crashes' = crashes
  PROVE  LockInv'
<1> USE NoneAssumption, TimeAssumption, FaultAssumption
<1> USE DEF LockInv, TypeOK, PCs, HolderMadeDir, DirOfHolder, NothingAbandoned,
            NobodySteals, Holders
<1>1. ASSUME NEW p \in Procs,
             Call(p) \/ MkdirExists(p) \/ MkdirFails(p) \/ GiveUp(p) \/ Retry(p)
      PROVE  LockInv'
  BY <1>1 DEF Call, MkdirExists, MkdirFails, GiveUp, Retry, Goto
<1>2. ASSUME NEW p \in Procs, Mkdir(p)
      PROVE  LockInv'
  <2>1. Holders = {}
    BY <1>2 DEF Mkdir
  <2>2. QED
    BY <1>2, <2>1 DEF Mkdir, Goto
<1>3. ASSUME NEW p \in Procs, Stat(p)
      PROVE  LockInv'
  BY <1>3, NeverStale DEF Stat, Goto
<1>4. ASSUME NEW p \in Procs, Steal(p)
      PROVE  LockInv'
  BY <1>4 DEF Steal, Goto, RemoveDir
<1>5. ASSUME NEW p \in Procs, Release(p)
      PROVE  LockInv'
  <2>1. Holders = {p}
    BY <1>5 DEF Release
  <2>2. QED
    BY <1>5, <2>1 DEF Release, Goto, RemoveDir
<1>6. ASSUME NEW p \in Procs, Crash(p)
      PROVE  FALSE
  BY <1>6 DEF Crash
<1>7. CASE Tick
  <2>1. UNCHANGED <<maker, pc>>
    BY <1>7 DEF Tick
  <2>2. ASSUME maker \in Procs, pc[maker] = "held"
        PROVE  age' <= held'[maker]
    BY <1>7, <2>2 DEF Tick, UpTo
  <2>3. QED
    BY <2>1, <2>2
<1>8. CASE UNCHANGED vars
  BY <1>8 DEF vars
<1>9. QED
  BY <1>1, <1>2, <1>3, <1>4, <1>5, <1>6, <1>7, <1>8 DEF Next, Acquiring

\* A crash is not forgotten, so the steps before the first one are no crashes.
LEMMA LockInvUntilCrash ==
  ASSUME HoldsAreShort PROVE Spec => [](crashes = 0 => LockInv)
<1> DEFINE I == crashes = 0 => LockInv
<1>1. Init => I
  BY LockInvInit
<1>2. TypeOK /\ TypeOK' /\ I /\ [Next]_vars => I'
  <2> SUFFICES ASSUME TypeOK, TypeOK', I, [Next]_vars, crashes' = 0 PROVE LockInv'
    OBVIOUS
  <2>1. crashes' = crashes \/ crashes' = crashes + 1
    BY DEF Next, Call, Acquiring, Mkdir, MkdirExists, MkdirFails, Stat, Steal, GiveUp, Retry,
           Release, Crash, Tick, vars
  <2>2. crashes' = crashes
    BY <2>1 DEF TypeOK
  <2>3. QED
    BY <2>2, LockInvStep
<1>3. QED
  BY <1>1, <1>2, TypeCorrect, PTL DEF Spec

LEMMA LockInvHolds == ASSUME NoStalls PROVE Spec => []LockInv
<1>1. HoldsAreShort
  BY DEF NoStalls
<1>2. TypeOK => crashes = 0
  BY DEF TypeOK, NoStalls
<1>3. QED
  BY <1>1, <1>2, LockInvUntilCrash, TypeCorrect, PTL

\* Two processes never both have the lock.
THEOREM Exclusion == ASSUME NoStalls PROVE Spec => []MutualExclusion
<1>1. LockInv => MutualExclusion
  BY DEF LockInv, HolderMadeDir, MutualExclusion
<1>2. QED
  BY <1>1, LockInvHolds, PTL

\* A stale check or a late release never takes the directory from under a
\* process that still has the lock.
THEOREM NoTheft == ASSUME NoStalls PROVE Spec => RemovesOwnOrAbandoned
<1> DEFINE Removes(p) == (Steal(p) \/ Release(p)) /\ maker' # maker
<1>1. LockInv => [\A p \in Procs : Removes(p) => Holders \subseteq {p}]_vars
  <2> SUFFICES ASSUME LockInv, NEW p \in Procs, Removes(p)
               PROVE  Holders \subseteq {p}
    OBVIOUS
  <2>1. CASE Steal(p)
    BY <2>1, FaultAssumption DEF Steal, RemoveDir, LockInv, NobodySteals
  <2>2. CASE Release(p)
    BY <2>2 DEF Release, LockInv, HolderMadeDir, Holders
  <2>3. QED
    BY <2>1, <2>2
<1>2. QED
  BY <1>1, LockInvHolds, PTL DEF RemovesOwnOrAbandoned

\* What acquireLock's callers rely on: DirLock implements LockService.
THEOREM DirLockImplementsLock == ASSUME NoStalls PROVE Spec => ImplementsLock
<1>1. Init => Lock!Init
  BY DEF Init, Lock!Init, Holders
<1>2. LockInv /\ TypeOK' /\ [Next]_vars => [Lock!Next]_Holders
  <2> SUFFICES ASSUME LockInv, TypeOK', [Next]_vars
               PROVE  [Lock!Next]_Holders
    OBVIOUS
  <2> USE NoneAssumption DEF LockInv, TypeOK, HolderMadeDir, Holders
  <2>1. ASSUME NEW p \in Procs,
               Call(p) \/ MkdirExists(p) \/ MkdirFails(p) \/ Stat(p) \/ Steal(p) \/ GiveUp(p) \/ Retry(p)
        PROVE  UNCHANGED Holders
    BY <2>1 DEF Call, MkdirExists, MkdirFails, Stat, Steal, GiveUp, Retry, Goto
  <2>2. ASSUME NEW p \in Procs, Mkdir(p)
        PROVE  Lock!Grant(p)
    BY <2>2 DEF Mkdir, Goto, Lock!Grant
  <2>3. ASSUME NEW p \in Procs, Release(p)
        PROVE  Lock!Release(p)
    BY <2>3 DEF Release, Goto, Lock!Release
  <2>4. ASSUME NEW p \in Procs, Crash(p)
        PROVE  FALSE
    BY <2>4, FaultAssumption DEF Crash, NoStalls
  <2>5. CASE Tick
    BY <2>5 DEF Tick
  <2>6. CASE UNCHANGED vars
    BY <2>6 DEF vars
  <2>7. QED
    BY <2>1, <2>2, <2>3, <2>4, <2>5, <2>6 DEF Next, Acquiring, Lock!Next
<1>3. QED
  BY <1>1, <1>2, TypeCorrect, LockInvHolds, PTL DEF Spec, ImplementsLock, Lock!Spec

-----------------------------------------------------------------------------
(***************************************************************************)
(* With deaths.  A directory is no older than the hold of a maker that has *)
(* the lock, so what is stale is nobody's any more.                        *)
(***************************************************************************)
AgeInv == TypeOK /\ DirOfHolder

LEMMA AgeInvStep == ASSUME AgeInv, TypeOK', [Next]_vars PROVE AgeInv'
<1> USE NoneAssumption, TimeAssumption, FaultAssumption DEF AgeInv, TypeOK, DirOfHolder
<1>1. ASSUME NEW p \in Procs, Call(p) \/ Acquiring(p) \/ Release(p) \/ Crash(p)
      PROVE  AgeInv'
  BY <1>1 DEF Call, Acquiring, Mkdir, MkdirExists, MkdirFails, Stat, Steal, GiveUp, Retry,
              Release, Crash, Goto, RemoveDir
<1>2. CASE Tick
  <2>1. UNCHANGED <<maker, pc>>
    BY <1>2 DEF Tick
  <2>2. ASSUME maker \in Procs, pc[maker] = "held"
        PROVE  age' <= held'[maker]
    BY <1>2, <2>2 DEF Tick, UpTo
  <2>3. QED
    BY <2>1, <2>2
<1>3. CASE UNCHANGED vars
  BY <1>3 DEF vars
<1>4. QED
  BY <1>1, <1>2, <1>3 DEF Next

LEMMA AgeInvHolds == Spec => []AgeInv
<1>1. Init => DirOfHolder
  BY NoneAssumption DEF Init, DirOfHolder
<1>2. AgeInv /\ TypeOK' /\ [Next]_vars => AgeInv'
  BY AgeInvStep
<1>3. QED
  BY <1>1, <1>2, TypeCorrect, PTL DEF Spec, AgeInv

\* What is left of the lock when processes die, and its callers build on (claimKey):
\* DirLock implements StealableLock for any number of deaths, also if directories
\* cannot be removed. 
THEOREM DirLockImplementsStealable == ASSUME HoldsAreShort PROVE Spec => ImplementsStealable
<1> USE NoneAssumption, TimeAssumption DEF Holders, Thieves
<1>1. Init => Stealable!Init
  BY DEF Init, Stealable!Init
<1>2. AgeInv /\ TypeOK' /\ [Next]_vars => [Stealable!Next]_(Stealable!lock)
  <2> SUFFICES ASSUME AgeInv, TypeOK', [Next]_vars
               PROVE  Stealable!Next \/ UNCHANGED <<maker, Holders, Thieves>>
    BY DEF Stealable!lock
  <2> USE DEF AgeInv, TypeOK, PCs, Goto
  <2>1. ASSUME NEW p \in Procs,
               Call(p) \/ MkdirExists(p) \/ MkdirFails(p) \/ GiveUp(p) \/ Retry(p)
        PROVE  UNCHANGED <<maker, Holders, Thieves>>
    BY <2>1 DEF Call, MkdirExists, MkdirFails, GiveUp, Retry
  <2>2. ASSUME NEW p \in Procs, Mkdir(p)
        PROVE  Stealable!Grant(p)
    BY <2>2 DEF Mkdir, Stealable!Grant
  <2>3. ASSUME NEW p \in Procs, Stat(p)
        PROVE  Stealable!Judge(p) \/ UNCHANGED <<maker, Holders, Thieves>>
    <3>1. CASE IsStale
      <4>1. maker # None /\ maker \notin Holders
        BY <3>1 DEF IsStale, DirOfHolder, HoldsAreShort
      <4>2. Holders' = Holders /\ Thieves' = Thieves \cup {p} /\ maker' = maker
        BY <2>3, <3>1 DEF Stat
      <4>3. QED
        BY <4>1, <4>2 DEF Stealable!Judge
    <3>2. CASE ~IsStale
      BY <2>3, <3>2 DEF Stat
    <3>3. QED
      BY <3>1, <3>2
  <2>4. ASSUME NEW p \in Procs, Steal(p)
        PROVE  Stealable!Steal(p)
    BY <2>4 DEF Steal, RemoveDir, Stealable!Steal, Stealable!Removal
  <2>5. ASSUME NEW p \in Procs, Release(p)
        PROVE  Stealable!Release(p)
    BY <2>5 DEF Release, RemoveDir, Stealable!Release, Stealable!Removal
  <2>6. ASSUME NEW p \in Procs, Crash(p)
        PROVE  Stealable!Die(p)
    BY <2>6 DEF Crash, Stealable!Die
  <2>7. CASE Tick
    BY <2>7 DEF Tick
  <2>8. CASE UNCHANGED vars
    BY <2>8 DEF vars
  <2>9. QED
    BY <2>1, <2>2, <2>3, <2>4, <2>5, <2>6, <2>7, <2>8 DEF Next, Acquiring, Stealable!Next
<1>3. QED
  BY <1>1, <1>2, AgeInvHolds, TypeCorrect, PTL
     DEF Spec, ImplementsStealable, Stealable!Spec

-----------------------------------------------------------------------------
(***************************************************************************)
(* The deadline holds.  A call that is past it leaves at the next fresh    *)
(* directory it sees; what can send it round once more is a stale one, and *)
(* each of those is what a death has left.                                 *)
(***************************************************************************)

\* A directory is stale only when its maker has died.
RecoveryInv == TypeOK /\ DirOfHolder /\ (Abandoned => crashes >= 1)

\* The directories that deaths have left, or may still leave.
Leavings == MaxCrashes - crashes + (IF Abandoned THEN 1 ELSE 0)

\* The most steps a call past its deadline can still take: a round for each of them.
\* One that is about to steal is on its round for the directory it saw.
StepsLeft(p) ==
  CASE pc[p] = "mkdir" -> 3 * Leavings + 3
    [] pc[p] = "stat" -> 3 * Leavings + 2
    [] pc[p] = "steal" -> 3 * (MaxCrashes - crashes) + 4
    [] pc[p] = "deadline" -> 1
    [] OTHER -> 0

StepsAtPlace(p) ==
  /\ pc[p] = "mkdir" => StepsLeft(p) = 3 * Leavings + 3
  /\ pc[p] = "stat" => StepsLeft(p) = 3 * Leavings + 2
  /\ pc[p] = "steal" => StepsLeft(p) = 3 * (MaxCrashes - crashes) + 4
  /\ pc[p] = "deadline" => StepsLeft(p) = 1
  /\ pc[p] \in {"idle", "held"} => StepsLeft(p) = 0

StepsByPlace == \A p \in Procs : StepsAtPlace(p)

\* The steps left at each place.
LEMMA StepsTable == StepsByPlace
<1> SUFFICES ASSUME NEW p \in Procs PROVE StepsAtPlace(p)
  BY Zenon DEF StepsByPlace
<1> QED
  BY DEF StepsAtPlace, StepsLeft

\* A call that is past its deadline.
Late(p) == pc[p] \notin {"idle", "held"} /\ waited[p] > Wait

LEMMA RecoveryInvStep ==
  ASSUME Removable, RecoveryInv, TypeOK', [Next]_vars PROVE RecoveryInv'
<1> USE NoneAssumption, TimeAssumption, FaultAssumption
<1> USE DEF RecoveryInv, TypeOK, DirOfHolder, Abandoned, Holders
<1>1. ASSUME NEW p \in Procs,
             Call(p) \/ MkdirExists(p) \/ MkdirFails(p) \/ Stat(p) \/ GiveUp(p) \/ Retry(p)
      PROVE  RecoveryInv'
  BY <1>1 DEF Call, MkdirExists, MkdirFails, Stat, GiveUp, Retry, Goto
<1>2. ASSUME NEW p \in Procs, Mkdir(p)
      PROVE  RecoveryInv'
  BY <1>2 DEF Mkdir, Goto
<1>3. ASSUME NEW p \in Procs, Steal(p) \/ Release(p)
      PROVE  RecoveryInv'
  BY <1>3 DEF Steal, Release, Goto, RemoveDir
<1>4. ASSUME NEW p \in Procs, Crash(p)
      PROVE  RecoveryInv'
  BY <1>4 DEF Crash, Goto
<1>5. CASE Tick
  <2>1. UNCHANGED <<maker, pc, crashes>>
    BY <1>5 DEF Tick
  <2>2. ASSUME maker \in Procs, pc[maker] = "held"
        PROVE  age' <= held'[maker]
    BY <1>5, <2>2 DEF Tick, UpTo
  <2>3. QED
    BY <2>1, <2>2
<1>6. CASE UNCHANGED vars
  BY <1>6 DEF vars
<1>7. QED
  BY <1>1, <1>2, <1>3, <1>4, <1>5, <1>6 DEF Next, Acquiring

LEMMA RecoveryInvHolds == ASSUME Removable PROVE Spec => []RecoveryInv
<1>1. Init => RecoveryInv
  BY NoneAssumption, TimeAssumption, FaultAssumption
     DEF Init, RecoveryInv, TypeOK, PCs, DirOfHolder, Abandoned
<1>2. RecoveryInv /\ TypeOK' /\ [Next]_vars => RecoveryInv'
  BY RecoveryInvStep
<1>3. QED
  BY <1>1, <1>2, TypeCorrect, PTL DEF Spec

\* A death may leave a directory, and takes its place in the count if it does; nothing
\* else leaves one.
LEMMA LeavingsNeverGrow ==
  ASSUME Removable, RecoveryInv, RecoveryInv', [Next]_vars
  PROVE  Leavings' <= Leavings /\ crashes <= crashes'
<1>1. /\ crashes \in Nat /\ crashes' \in Nat /\ MaxCrashes \in Nat
      /\ pc \in [Procs -> PCs] /\ maker \in Procs \cup {None} /\ None \notin Procs
  BY NoneAssumption, FaultAssumption DEF RecoveryInv, TypeOK
<1>2. CASE \E p \in Procs : Crash(p)
  <2>1. crashes' = crashes + 1
    BY <1>2 DEF Crash
  <2>2. QED
    BY <1>1, <2>1 DEF Leavings
<1>3. CASE \A p \in Procs : ~Crash(p)
  <2>1. crashes' = crashes
    BY <1>3 DEF Next, Call, Acquiring, Mkdir, MkdirExists, MkdirFails, Stat, Steal, GiveUp, Retry,
           Release, Tick, vars
  <2>2. Abandoned' => Abandoned
    <3> USE <1>1 DEF Abandoned, Holders
    <3>1. ASSUME NEW p \in Procs,
                 Call(p) \/ MkdirExists(p) \/ MkdirFails(p) \/ Stat(p) \/ GiveUp(p) \/ Retry(p)
          PROVE  Abandoned' => Abandoned
      BY <3>1 DEF Call, MkdirExists, MkdirFails, Stat, GiveUp, Retry, Goto
    <3>2. ASSUME NEW p \in Procs, Mkdir(p) \/ Steal(p) \/ Release(p)
          PROVE  Abandoned' => Abandoned
      BY <3>2 DEF Mkdir, Steal, Release, RemoveDir, Goto
    <3>3. CASE Tick \/ UNCHANGED vars
      BY <3>3 DEF Tick, vars
    <3>4. QED
      BY <1>3, <3>1, <3>2, <3>3 DEF Next, Acquiring
  <2>3. QED
    BY <1>1, <2>1, <2>2 DEF Leavings
<1>4. QED
  BY <1>2, <1>3

\* A late call has a step to go, and not more than three for each death and four.
LEMMA StepsOfLate ==
  ASSUME RecoveryInv, NEW p \in Procs, Late(p)
  PROVE  StepsLeft(p) \in 1..(3 * MaxCrashes + 4)
<1>1. StepsAtPlace(p)
  BY StepsTable, Zenon DEF StepsByPlace
<1>2. pc[p] \in PCs /\ crashes \in 0..MaxCrashes /\ MaxCrashes \in Nat /\ (Abandoned => crashes >= 1)
  BY FaultAssumption DEF RecoveryInv, TypeOK
<1>3. QED
  BY <1>1, <1>2 DEF StepsAtPlace, Leavings, Late, PCs

\* Each step of a late call is one less to go: what it sees stale, a death has left.
LEMMA LateGoesOn ==
  ASSUME HoldsAreShort, Removable, RecoveryInv, RecoveryInv', NEW p \in Procs, Late(p), Acquiring(p)
  PROVE  /\ StepsLeft(p)' < StepsLeft(p)
         /\ pc'[p] \in {"idle", "held"} \/ Late(p)'
<1> USE DEF RecoveryInv, TypeOK
<1>1. StepsAtPlace(p) /\ StepsAtPlace(p)'
  <2>1. StepsByPlace'
    BY StepsTable, PTL
  <2>2. QED
    BY <2>1, StepsTable, Zenon DEF StepsByPlace
<1>2. crashes \in Nat /\ MaxCrashes \in Nat /\ crashes <= MaxCrashes /\ crashes' = crashes
  BY FaultAssumption
     DEF Acquiring, Mkdir, MkdirExists, MkdirFails, Stat, Steal, GiveUp, Retry
<1>3. CASE Mkdir(p) \/ MkdirFails(p) \/ GiveUp(p)
  <2>1. pc'[p] \in {"idle", "held"} /\ pc[p] \notin {"idle", "held"}
    BY <1>3 DEF Mkdir, MkdirFails, GiveUp, Goto
  <2>2. StepsLeft(p) \in 1..(3 * MaxCrashes + 4)
    BY StepsOfLate
  <2>3. QED
    BY <1>1, <1>2, <2>1, <2>2 DEF StepsAtPlace
<1>4. CASE MkdirExists(p)
  <2>1. pc[p] = "mkdir" /\ pc'[p] = "stat" /\ Late(p)'
    BY <1>4 DEF MkdirExists, Goto, Late
  <2>2. Leavings' = Leavings /\ Leavings \in Int
    BY <1>2, <1>4, NoneAssumption DEF MkdirExists, Goto, Leavings, Abandoned, Holders
  <2>3. QED
    BY <1>1, <2>1, <2>2 DEF StepsAtPlace
<1>5. CASE Stat(p)
  <2>1. pc[p] = "stat" /\ pc'[p] = (IF IsStale THEN "steal" ELSE "deadline") /\ Late(p)'
    BY <1>5 DEF Stat, Goto, Late
  <2>2. IsStale => Abandoned
    BY NoneAssumption, TimeAssumption DEF IsStale, Abandoned, DirOfHolder, Holders, HoldsAreShort
  <2>3. QED
    BY <1>1, <1>2, <2>1, <2>2 DEF StepsAtPlace, Leavings
<1>6. CASE Steal(p)
  <2>1. pc[p] = "steal" /\ pc'[p] = "mkdir" /\ Late(p)'
    BY <1>6 DEF Steal, Goto, Late
  <2>2. ~Abandoned'
    BY <1>6 DEF Steal, RemoveDir, Abandoned
  <2>3. QED
    BY <1>1, <1>2, <2>1, <2>2 DEF StepsAtPlace, Leavings
<1>7. CASE Retry(p)
  <2>1. waited[p] \in Nat /\ Wait \in Nat
    BY TimeAssumption
  <2>2. QED
    BY <1>7, <2>1 DEF Retry, Late
<1>8. QED
  BY <1>3, <1>4, <1>5, <1>6, <1>7 DEF Acquiring

\* Nobody else gives a late call more to do, or more time.
LEMMA OthersLeaveLate ==
  ASSUME Removable, RecoveryInv, RecoveryInv', [Next]_vars, NEW p \in Procs, Late(p), ~Acquiring(p)
  PROVE  /\ StepsLeft(p)' <= StepsLeft(p)
         /\ pc'[p] \in {"idle", "held"} \/ Late(p)'
<1> USE DEF RecoveryInv, TypeOK
<1>1. StepsAtPlace(p) /\ StepsAtPlace(p)'
  <2>1. StepsByPlace'
    BY StepsTable, PTL
  <2>2. QED
    BY <2>1, StepsTable, Zenon DEF StepsByPlace
<1>2. Leavings' <= Leavings /\ crashes <= crashes'
  BY LeavingsNeverGrow
<1>3. crashes \in Int /\ crashes' \in Int /\ MaxCrashes \in Int /\ Leavings \in Int /\ Leavings' \in Int
  BY FaultAssumption DEF Leavings
<1>4. CASE Crash(p)
  <2>1. pc'[p] = "idle"
    BY <1>4 DEF Crash, Goto
  <2>2. StepsLeft(p) \in 1..(3 * MaxCrashes + 4)
    BY StepsOfLate
  <2>3. QED
    BY <1>1, <1>3, <2>1, <2>2 DEF StepsAtPlace
<1>5. CASE ~Crash(p)
  <2>1. pc'[p] = pc[p] /\ waited'[p] > Wait
    <3>1. ASSUME NEW q \in Procs, q # p, Call(q) \/ Acquiring(q) \/ Release(q) \/ Crash(q)
          PROVE  pc'[p] = pc[p] /\ waited'[p] = waited[p]
      BY <3>1 DEF Call, Acquiring, Mkdir, MkdirExists, MkdirFails, Stat, Steal, GiveUp, Retry, Release,
             Crash, Goto
    <3>2. ~Call(p) /\ ~Release(p)
      BY DEF Late, Call, Release
    <3>3. CASE Tick
      BY <3>3, TimeAssumption DEF Tick, UpTo, Late
    <3>4. CASE UNCHANGED vars
      BY <3>4 DEF vars, Late
    <3>5. QED
      BY <1>5, <3>1, <3>2, <3>3, <3>4 DEF Next, Late
  <2>2. pc[p] \in {"mkdir", "stat", "steal", "deadline"} /\ Late(p)'
    BY <2>1 DEF Late, PCs
  <2>3. QED
    BY <1>1, <1>2, <1>3, <2>1, <2>2 DEF StepsAtPlace
<1>6. QED
  BY <1>4, <1>5

\* Past its deadline a call stays so until it is over; each of its steps is one less to
\* go, and whoever dies, waits or takes the lock in between gives it none more.
LateRunsOut ==
  [][\A p \in Procs :
       Late(p) =>
         /\ StepsLeft(p) \in 1..(3 * MaxCrashes + 4)
         /\ Acquiring(p) => StepsLeft(p)' < StepsLeft(p)
         /\ StepsLeft(p)' <= StepsLeft(p)
         /\ pc'[p] \in {"idle", "held"} \/ Late(p)']_vars

\* "acquireLock with a caller-chosen bound on the wait": although the steal branch
\* skips the deadline, a call that is past it takes at most three more steps for each
\* process that dies with the lock, and four, if directories can be removed.
THEOREM LockLateRunsOut == ASSUME HoldsAreShort, Removable PROVE Spec => LateRunsOut
<1>1. ASSUME RecoveryInv, RecoveryInv', [Next]_vars, NEW p \in Procs, Late(p)
      PROVE  /\ StepsLeft(p) \in 1..(3 * MaxCrashes + 4)
             /\ Acquiring(p) => StepsLeft(p)' < StepsLeft(p)
             /\ StepsLeft(p)' <= StepsLeft(p)
             /\ pc'[p] \in {"idle", "held"} \/ Late(p)'
  <2>1. StepsLeft(p) \in 1..(3 * MaxCrashes + 4) /\ MaxCrashes \in Nat
    BY <1>1, StepsOfLate, FaultAssumption
  <2>2. CASE ~Acquiring(p)
    BY <1>1, <2>1, <2>2, OthersLeaveLate
  <2>3. CASE Acquiring(p)
    <3>1. /\ StepsLeft(p)' < StepsLeft(p)
          /\ pc'[p] \in {"idle", "held"} \/ Late(p)'
      BY <1>1, <2>3, LateGoesOn
    <3>2. StepsLeft(p)' \in Nat
      <4>1. StepsByPlace'
        BY StepsTable, PTL
      <4>2. StepsAtPlace(p)'
        BY <4>1, Zenon DEF StepsByPlace
      <4>3. pc'[p] \in PCs /\ crashes' \in 0..MaxCrashes
        BY <1>1 DEF RecoveryInv, TypeOK
      <4>4. QED
        BY <2>1, <4>2, <4>3 DEF StepsAtPlace, Leavings, PCs
    <3>3. QED
      BY <2>1, <2>3, <3>1, <3>2
  <2>4. QED
    BY <2>2, <2>3
<1>2. RecoveryInv /\ RecoveryInv' /\ [Next]_vars =>
        [\A p \in Procs :
           Late(p) =>
             /\ StepsLeft(p) \in 1..(3 * MaxCrashes + 4)
             /\ Acquiring(p) => StepsLeft(p)' < StepsLeft(p)
             /\ StepsLeft(p)' <= StepsLeft(p)
             /\ pc'[p] \in {"idle", "held"} \/ Late(p)']_vars
  BY <1>1
<1>3. QED
  BY <1>2, RecoveryInvHolds, PTL DEF Spec, LateRunsOut
=============================================================================
