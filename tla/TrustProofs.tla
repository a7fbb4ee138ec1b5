---------------------------- MODULE TrustProofs ----------------------------
(***************************************************************************)
(* Proofs about Trust, for any calls, claude processes, projects and       *)
(* times.                                                                  *)
(***************************************************************************)
EXTENDS Trust, TLAPS

Edits == SUBSET (Inside \cup Claudes)

LockTypes ==
  /\ maker \in Procs \cup {None}
  /\ age \in 0..(Stale + 1)
  /\ held \in [Procs -> Nat]
  /\ due \in [Procs -> Nat]
  /\ robbed \in [Procs -> BOOLEAN]

FileTypes ==
  /\ there \in BOOLEAN
  /\ file \in Edits
  /\ copy \in [Procs -> Edits]
  /\ same \in [Trusters -> BOOLEAN]
  /\ quiet \in [Procs -> BOOLEAN]
  /\ taken \in [Trusters -> BOOLEAN]

CallTypes ==
  /\ pc \in [Procs -> PCs]
  /\ project \in [Trusters -> Inside \cup {None}]
  /\ attempt \in [Trusters -> 0..MaxAttempts]
  /\ then \in [Trusters -> {"none", "retry", "confirm", "already", "missing"}]
  /\ result \in [Trusters -> Results]
  /\ crashes \in 0..MaxCrashes

\* A call has its project.
Called == \A t \in Trusters : pc[t] \in PCs \ {"idle", "done"} => project[t] \in Inside

Types == LockTypes /\ FileTypes /\ CallTypes /\ Called

-----------------------------------------------------------------------------
LEMMA TypesInit == Init => Types
  BY BoundsAssumption, TimesAssumption
  DEF Init, Types, LockTypes, FileTypes, CallTypes, Called, Edits, PCs, UnderLock, Tail, Results, Procs

\* What a steal does to the lock.
LEMMA StealsLock ==
  ASSUME Types, NEW p \in Procs, Steals(p)
  PROVE  /\ robbed' \in [Procs -> BOOLEAN]
         /\ \A q \in Procs :
              robbed'[q] <=> robbed[q] \/ (q = maker /\ pc[q] \in UnderLock /\ age <= Stale)
  <1> DEFINE taking == [q \in Procs |-> robbed[q] \/ (q = maker /\ pc[q] \in UnderLock /\ age <= Stale)]
  <1>1. robbed' = taking /\ robbed \in [Procs -> BOOLEAN]
    BY DEF Steals, Types, LockTypes
  <1> QED
    BY <1>1, Zenon

\* What releasing does to it.
LEMMA RemovesLock ==
  ASSUME Types, NEW p \in Procs, RemoveLock(p)
  PROVE  /\ robbed' \in [Procs -> BOOLEAN]
         /\ \A q \in Procs :
              robbed'[q] <=> q # p /\ (robbed[q] \/ (q = maker /\ pc[q] \in UnderLock))
  <1> DEFINE taking == [q \in Procs |-> q # p /\ (robbed[q] \/ (q = maker /\ pc[q] \in UnderLock))]
  <1>1. robbed' = taking /\ robbed \in [Procs -> BOOLEAN]
    BY DEF RemoveLock, Types, LockTypes
  <1> QED
    BY <1>1, Zenon

\* Each step keeps the types of the lock.
LEMMA LockTypesStep == Types /\ [Next]_vars => LockTypes'
  <1> SUFFICES ASSUME Types, [Next]_vars PROVE LockTypes'
    OBVIOUS
  <1> USE TimesAssumption DEF Types, LockTypes, lockvars, Procs
  <1>1. CASE UNCHANGED lockvars
    BY <1>1
  <1>2. ASSUME NEW p \in Procs, NEW l, Lock(p, l) PROVE LockTypes'
    BY <1>2 DEF Lock
  <1>3. ASSUME NEW p \in Procs, RemoveLock(p) \/ FindsStale(p) \/ Steals(p) PROVE LockTypes'
    <2>1. CASE RemoveLock(p)
      BY <2>1, RemovesLock DEF RemoveLock
    <2>2. CASE FindsStale(p)
      BY <2>2 DEF FindsStale
    <2>3. CASE Steals(p)
      BY <2>3, StealsLock DEF Steals
    <2> QED
      BY <1>3, <2>1, <2>2, <2>3
  <1>4. ASSUME NEW t \in Trusters, Prepare(t) PROVE LockTypes'
    BY <1>4 DEF Prepare
  <1>5. ASSUME NEW t \in Trusters, Crash(t) PROVE LockTypes'
    BY <1>5 DEF Crash
  <1>6. CASE Tick
    BY <1>6 DEF Tick
  <1>7. ASSUME NEW t \in Trusters, Begin(t) \/ Refuse(t) \/ Step(t) PROVE LockTypes'
    <2>1. CASE Begin(t) \/ Refuse(t) \/ LockTimesOut(t) \/ Confirm(t) \/ Unconfirmed(t)
      BY <2>1, <1>1 DEF Begin, Refuse, LockTimesOut, Confirm, Unconfirmed
    <2>2. CASE Stat(t) \/ StatMissing(t) \/ Already(t) \/ Read(t) \/ TooLong(t)
      BY <2>2, <1>1 DEF Stat, StatMissing, Already, Read, TooLong, GiveUp, Leave
    <2>3. CASE Restat(t) \/ Changed(t) \/ Rename(t) \/ Fails(t)
      BY <2>3, <1>1 DEF Restat, Changed, Rename, Fails, GiveUp, Leave
    <2>4. CASE Release(t)
      BY <2>4, <1>3 DEF Release
    <2> QED
      BY <1>7, <1>2, <1>3, <1>4, <2>1, <2>2, <2>3, <2>4 DEF Step, Once
  <1>8. ASSUME NEW c \in Claudes, Claude(c) PROVE LockTypes'
    <2>1. CASE ClaudeBegins(c) \/ ClaudeSkipsLock(c) \/ ClaudeReads(c) \/ ClaudeWrites(c)
      BY <2>1, <1>1 DEF ClaudeBegins, ClaudeSkipsLock, ClaudeReads, ClaudeWrites
    <2>2. CASE ClaudeReleases(c)
      BY <2>2, <1>3 DEF ClaudeReleases
    <2> QED
      BY <1>8, <1>2, <1>3, <2>1, <2>2 DEF Claude
  <1>9. CASE UNCHANGED vars
    BY <1>9, <1>1 DEF vars
  <1> QED
    BY <1>5, <1>6, <1>7, <1>8, <1>9 DEF Next

\* A new file, with edits of the projects and of claude, keeps the types of the file.
LEMMA ReplaceTypes ==
  ASSUME Types, NEW p \in Procs, NEW new \in Edits, Replace(p, new)
  PROVE  FileTypes'
  BY DEF Types, FileTypes, Replace, Edits

\* Each step keeps the types of the file and of what was read of it.
LEMMA FileTypesStep == Types /\ [Next]_vars => FileTypes'
  <1> SUFFICES ASSUME Types, [Next]_vars PROVE FileTypes'
    OBVIOUS
  <1> USE DEF Types, FileTypes, filevars, Procs
  <1>1. CASE UNCHANGED <<filevars, copy>>
    BY <1>1
  <1>2. ASSUME NEW t \in Trusters, Begin(t) \/ Refuse(t) \/ Step(t) PROVE FileTypes'
    <2>1. CASE Begin(t) \/ Refuse(t) \/ LockTimesOut(t) \/ Confirm(t) \/ Unconfirmed(t)
      BY <2>1, <1>1 DEF Begin, Refuse, LockTimesOut, Confirm, Unconfirmed
    <2>6. CASE Lock(t, "stat") \/ FindsStale(t) \/ Steals(t)
      BY <2>6, <1>1 DEF Lock, FindsStale, Steals
    <2>2. CASE StatMissing(t) \/ Already(t) \/ TooLong(t) \/ Changed(t) \/ Fails(t)
      <3>1. UNCHANGED <<there, file, taken>> /\ copy' = [copy EXCEPT ![t] = {}]
            /\ same' = [same EXCEPT ![t] = FALSE] /\ quiet' = [quiet EXCEPT ![t] = FALSE]
        BY <2>2 DEF StatMissing, Already, TooLong, Changed, Fails, GiveUp
      <3> QED
        BY <3>1 DEF Edits
    <2>3. CASE Stat(t) \/ Read(t) \/ Restat(t)
      BY <2>3 DEF Stat, Read, Restat
    <2>4. CASE Prepare(t) \/ Release(t)
      BY <2>4, <1>1 DEF Prepare, Release
    <2>5. CASE Rename(t)
      <3>1. project[t] \in Inside
        BY <2>5 DEF Rename, Called, PCs, UnderLock, Tail
      <3>2. WithTrust(copy[t], project[t]) \in Edits
        BY <3>1 DEF WithTrust, Edits
      <3> QED
        BY <2>5, <3>2, ReplaceTypes DEF Rename
    <2> QED
      BY <1>2, <2>1, <2>2, <2>3, <2>4, <2>5, <2>6 DEF Step, Once
  <1>3. ASSUME NEW t \in Trusters, Crash(t) PROVE FileTypes'
    BY <1>3 DEF Crash, Edits
  <1>4. ASSUME NEW c \in Claudes, Claude(c) PROVE FileTypes'
    <2>1. CASE \/ ClaudeBegins(c) \/ Lock(c, "read") \/ FindsStale(c) \/ Steals(c)
               \/ ClaudeSkipsLock(c) \/ ClaudeReleases(c)
      BY <2>1, <1>1 DEF ClaudeBegins, Lock, FindsStale, Steals, ClaudeSkipsLock, ClaudeReleases
    <2>2. CASE ClaudeReads(c)
      BY <2>2 DEF ClaudeReads
    <2>3. CASE ClaudeWrites(c)
      <3>1. copy[c] \cup {c} \in Edits
        BY DEF Edits
      <3> QED
        BY <2>3, <3>1, ReplaceTypes DEF ClaudeWrites
    <2> QED
      BY <1>4, <2>1, <2>2, <2>3 DEF Claude
  <1>5. CASE Tick \/ UNCHANGED vars
    BY <1>5, <1>1 DEF Tick, vars
  <1> QED
    BY <1>2, <1>3, <1>4, <1>5 DEF Next

\* Each step keeps the types of where a call is and of what it returns.
LEMMA CallTypesStep == Types /\ [Next]_vars => CallTypes' /\ Called'
  <1> SUFFICES ASSUME Types, [Next]_vars PROVE CallTypes' /\ Called'
    OBVIOUS
  <1> USE BoundsAssumption DEF Types, CallTypes, Called, PCs, UnderLock, Tail, Results, Procs, Goto, Return, callvars
  <1>1. ASSUME NEW t \in Trusters, Begin(t) \/ Refuse(t) PROVE CallTypes' /\ Called'
    BY <1>1, InsideAssumption DEF Begin, Refuse
  <1>2. ASSUME NEW t \in Trusters, Step(t) PROVE CallTypes' /\ Called'
    <2>1. CASE Lock(t, "stat") \/ FindsStale(t) \/ Steals(t) \/ LockTimesOut(t) \/ Confirm(t)
      BY <2>1 DEF Lock, FindsStale, Steals, Locked, LockTimesOut, Confirm
    <2>2. CASE Unconfirmed(t)
      BY <2>2 DEF Unconfirmed, Again
    <2>3. CASE StatMissing(t) \/ Already(t) \/ TooLong(t) \/ Changed(t) \/ Fails(t)
      BY <2>3 DEF StatMissing, Already, TooLong, Changed, Fails, GiveUp, Leave
    <2>4. CASE Stat(t) \/ Read(t) \/ Prepare(t) \/ Restat(t)
      BY <2>4 DEF Stat, Read, Prepare, Restat
    <2>5. CASE Rename(t)
      BY <2>5 DEF Rename, Leave
    <2>6. CASE Release(t)
      BY <2>6 DEF Release, Again
    <2> QED
      BY <1>2, <2>1, <2>2, <2>3, <2>4, <2>5, <2>6 DEF Step, Once
  <1>3. ASSUME NEW t \in Trusters, Crash(t) PROVE CallTypes' /\ Called'
    BY <1>3 DEF Crash
  <1>4. ASSUME NEW c \in Claudes, Claude(c) PROVE CallTypes' /\ Called'
    BY <1>4, ProcsAssumption
    DEF Claude, ClaudeBegins, Lock, FindsStale, Steals, ClaudeSkipsLock, ClaudeReads, ClaudeWrites, ClaudeReleases
  <1>5. CASE Tick \/ UNCHANGED vars
    BY <1>5 DEF Tick, vars
  <1> QED
    BY <1>1, <1>2, <1>3, <1>4, <1>5 DEF Next

LEMMA TypesStep == Types /\ [Next]_vars => Types'
  BY LockTypesStep, FileTypesStep, CallTypesStep DEF Types

LEMMA TypesAlways == Spec => []Types
  BY TypesInit, TypesStep, PTL DEF Spec

\* The variables keep their types; a call makes no more attempts than it may.
THEOREM TrustTypeOK == Spec => []TypeOK
  <1>1. Types => TypeOK
    BY DEF Types, LockTypes, FileTypes, CallTypes, Edits, TypeOK
  <1> QED
    BY <1>1, TypesAlways, PTL

-----------------------------------------------------------------------------
\* Who was robbed does not have the directory, nor has a claude process before it
\* got the lock or when it did without.
Owners ==
  /\ \A p \in Procs : robbed[p] => maker # p
  /\ \A c \in Claudes : pc[c] \in {"idle", "lock", "steal", "bare", "overwrite"} => maker # c

\* What a call or claude read is the file, if no other write was seen since.
Copies ==
  /\ \A t \in Trusters : same[t] /\ pc[t] \in {"prepare", "restat"} => copy[t] = file
  /\ \A p \in Procs : pc[p] \in {"rename", "write"} /\ quiet[p] /\ maker = p => copy[p] = file

LEMMA OwnersStep == Types /\ Owners /\ [Next]_vars => Owners'
  <1> SUFFICES ASSUME Types, Owners, [Next]_vars PROVE Owners'
    OBVIOUS
  <1> USE ProcsAssumption DEF Types, LockTypes, CallTypes, Owners, lockvars, Procs, Goto, Return
  <1>1. ASSUME NEW t \in Trusters, Begin(t) \/ Refuse(t) \/ Step(t) \/ Crash(t) PROVE Owners'
    <2>1. CASE Begin(t) \/ Refuse(t) \/ LockTimesOut(t) \/ Confirm(t) \/ Unconfirmed(t) \/ Crash(t)
      BY <2>1 DEF Begin, Refuse, LockTimesOut, Confirm, Unconfirmed, Again, Crash
    <2>2. CASE Lock(t, "stat") \/ FindsStale(t)
      BY <2>2 DEF Lock, FindsStale
    <2>6. CASE Steals(t)
      BY <2>6, StealsLock DEF Steals
    <2>3. CASE Stat(t) \/ StatMissing(t) \/ Already(t) \/ Read(t) \/ Prepare(t) \/ TooLong(t)
      BY <2>3 DEF Stat, StatMissing, Already, Read, Prepare, TooLong, GiveUp, Leave
    <2>4. CASE Restat(t) \/ Changed(t) \/ Rename(t) \/ Fails(t)
      BY <2>4 DEF Restat, Changed, Rename, Fails, GiveUp, Leave
    <2>5. CASE Release(t)
      BY <2>5 DEF Release, RemoveLock, Again
    <2> QED
      BY <1>1, <2>1, <2>2, <2>3, <2>4, <2>5, <2>6 DEF Step, Once
  <1>2. ASSUME NEW c \in Claudes, Claude(c) PROVE Owners'
    <2>1. CASE ClaudeBegins(c) \/ ClaudeSkipsLock(c) \/ ClaudeReads(c) \/ ClaudeWrites(c)
      BY <2>1 DEF ClaudeBegins, ClaudeSkipsLock, Locked, ClaudeReads, ClaudeWrites
    <2>2. CASE Lock(c, "read") \/ FindsStale(c)
      BY <2>2 DEF Lock, FindsStale
    <2>4. CASE Steals(c)
      BY <2>4, StealsLock DEF Steals
    <2>3. CASE ClaudeReleases(c)
      BY <2>3 DEF ClaudeReleases, RemoveLock
    <2> QED
      BY <1>2, <2>1, <2>2, <2>3, <2>4 DEF Claude
  <1>3. CASE Tick \/ UNCHANGED vars
    BY <1>3 DEF Tick, vars
  <1> QED
    BY <1>1, <1>2, <1>3 DEF Next

\* After a new file, nobody else thinks to have read it while having the lock.
LEMMA ReplaceCopies ==
  ASSUME Types, NEW p \in Procs, NEW new, Replace(p, new), UNCHANGED maker
  PROVE  Copies'
  BY DEF Types, LockTypes, FileTypes, CallTypes, Copies, Replace, Procs

LEMMA CopiesStep == Types /\ Copies /\ [Next]_vars => Copies'
  <1> SUFFICES ASSUME Types, Copies, [Next]_vars PROVE Copies'
    OBVIOUS
  <1> USE ProcsAssumption DEF Types, LockTypes, FileTypes, CallTypes, lockvars, filevars, Procs, Goto, Return
  <1>1. ASSUME NEW t \in Trusters, Begin(t) \/ Refuse(t) \/ Step(t) \/ Crash(t) PROVE Copies'
    <2>1. CASE Begin(t) \/ Refuse(t) \/ LockTimesOut(t) \/ Confirm(t) \/ Unconfirmed(t) \/ Crash(t)
      BY <2>1 DEF Copies, Begin, Refuse, LockTimesOut, Confirm, Unconfirmed, Again, Crash
    <2>2. CASE Lock(t, "stat") \/ FindsStale(t) \/ Steals(t)
      BY <2>2 DEF Copies, Lock, FindsStale, Steals
    <2>3. CASE StatMissing(t) \/ Already(t) \/ TooLong(t) \/ Changed(t) \/ Fails(t)
      BY <2>3 DEF Copies, StatMissing, Already, TooLong, Changed, Fails, GiveUp, Leave
    <2>4. CASE Stat(t) \/ Read(t) \/ Prepare(t)
      BY <2>4 DEF Copies, Stat, Read, Prepare
    <2>5. CASE Restat(t)
      BY <2>5 DEF Copies, Restat, Unchanged
    <2>6. CASE Rename(t)
      BY <2>6, ReplaceCopies DEF Rename, Leave
    <2>7. CASE Release(t)
      BY <2>7 DEF Copies, Release, RemoveLock, Again
    <2> QED
      BY <1>1, <2>1, <2>2, <2>3, <2>4, <2>5, <2>6, <2>7 DEF Step, Once
  <1>2. ASSUME NEW c \in Claudes, Claude(c) PROVE Copies'
    <2>1. CASE ClaudeBegins(c) \/ ClaudeSkipsLock(c) \/ Lock(c, "read") \/ FindsStale(c) \/ Steals(c)
      BY <2>1 DEF Copies, ClaudeBegins, ClaudeSkipsLock, Lock, FindsStale, Steals
    <2>2. CASE ClaudeReads(c)
      BY <2>2 DEF Copies, ClaudeReads
    <2>3. CASE ClaudeWrites(c)
      BY <2>3, ReplaceCopies DEF ClaudeWrites
    <2>4. CASE ClaudeReleases(c)
      BY <2>4 DEF Copies, ClaudeReleases, RemoveLock
    <2> QED
      BY <1>2, <2>1, <2>2, <2>3, <2>4 DEF Claude
  <1>3. CASE Tick \/ UNCHANGED vars
    BY <1>3 DEF Copies, Tick, vars
  <1> QED
    BY <1>1, <1>2, <1>3 DEF Next

-----------------------------------------------------------------------------
\* Nobody is under the lock for longer than allowed, a call not past the stale
\* window once it has looked; and whoever is within the window has the directory,
\* as old as the time it has held it, unless it was robbed.
Kept(p) ==
  pc[p] \in UnderLock /\ ~robbed[p] /\ held[p] <= Stale => maker = p /\ age = held[p]

Timely ==
  /\ \A p \in Procs : pc[p] \in UnderLock => held[p] <= due[p]
  /\ \A t \in Trusters : pc[t] \in Tail => due[t] <= Limit + MaxTail
  /\ \A p \in Procs : Kept(p)

\* Who is within the stale window is not robbed of a stale directory, and is known to
\* be robbed of any other.
LEMMA StealRound ==
  ASSUME Types, Timely, NEW p \in Procs, FindsStale(p) \/ Steals(p)
  PROVE  Timely'
  <1> USE DEF Types, LockTypes, CallTypes, Timely, Kept, lockvars, Goto, UnderLock, Tail
  <1>1. CASE FindsStale(p)
    BY <1>1 DEF FindsStale
  <1>2. CASE Steals(p)
    <2>1. /\ pc[p] = "steal" /\ pc' = [pc EXCEPT ![p] = "lock"]
          /\ held' = held /\ due' = due
      BY <1>2 DEF Steals
    <2>2. ASSUME NEW q \in Procs, pc'[q] \in UnderLock, ~robbed'[q], held'[q] <= Stale
          PROVE  FALSE
      <3>1. q # p /\ pc[q] \in UnderLock /\ held[q] <= Stale /\ held[q] \in Nat
        BY <2>1, <2>2
      <3>2. ~robbed[q] /\ ~(q = maker /\ pc[q] \in UnderLock /\ age <= Stale)
        BY <1>2, <2>2, StealsLock
      <3> QED
        BY <3>1, <3>2
    <2>3. \A q \in Procs : Kept(q)'
      BY <2>2 DEF Kept
    <2>4. \A q \in Procs : pc'[q] \in UnderLock => pc'[q] = pc[q]
      BY <2>1
    <2> QED
      BY <2>1, <2>3, <2>4 DEF Procs
  <1> QED
    BY <1>1, <1>2

LEMMA TimelyStep == Types /\ Timely /\ [Next]_vars => Timely'
  <1> SUFFICES ASSUME Types, Timely, [Next]_vars PROVE Timely'
    OBVIOUS
  <1> USE ProcsAssumption, TimesAssumption
      DEF Types, LockTypes, CallTypes, Timely, Kept, lockvars, Procs, Goto, Return, UnderLock, Tail
  <1>1. ASSUME NEW t \in Trusters, Begin(t) \/ Refuse(t) \/ Step(t) \/ Crash(t) PROVE Timely'
    <2>1. CASE Begin(t) \/ Refuse(t) \/ LockTimesOut(t) \/ Confirm(t) \/ Unconfirmed(t) \/ Crash(t)
      BY <2>1 DEF Begin, Refuse, LockTimesOut, Confirm, Unconfirmed, Again, Crash
    <2>2. CASE Lock(t, "stat")
      BY <2>2 DEF Lock
    <2>7. CASE FindsStale(t) \/ Steals(t)
      BY <2>7, StealRound DEF Timely, Procs
    <2>3. CASE Stat(t) \/ StatMissing(t) \/ Already(t) \/ Read(t)
      BY <2>3 DEF Stat, StatMissing, Already, Read, GiveUp, Leave
    <2>4. CASE Prepare(t)
      BY <2>4 DEF Prepare, HeldTooLong
    <2>5. CASE TooLong(t) \/ Restat(t) \/ Changed(t) \/ Rename(t) \/ Fails(t)
      BY <2>5 DEF TooLong, Restat, Changed, Rename, Fails, GiveUp, Leave
    <2>6. CASE Release(t)
      BY <2>6 DEF Release, RemoveLock, Again
    <2> QED
      BY <1>1, <2>1, <2>2, <2>3, <2>4, <2>5, <2>6, <2>7 DEF Step, Once
  <1>2. ASSUME NEW c \in Claudes, Claude(c) PROVE Timely'
    <2>1. CASE ClaudeBegins(c) \/ ClaudeSkipsLock(c) \/ ClaudeReads(c) \/ ClaudeWrites(c)
      BY <2>1 DEF ClaudeBegins, ClaudeSkipsLock, Locked, ClaudeReads, ClaudeWrites
    <2>2. CASE Lock(c, "read")
      BY <2>2 DEF Lock
    <2>4. CASE FindsStale(c) \/ Steals(c)
      BY <2>4, StealRound DEF Timely, Procs
    <2>3. CASE ClaudeReleases(c)
      BY <2>3 DEF ClaudeReleases, RemoveLock
    <2> QED
      BY <1>2, <2>1, <2>2, <2>3, <2>4 DEF Claude
  <1>3. CASE Tick
    BY <1>3 DEF Tick
  <1>4. CASE UNCHANGED vars
    BY <1>4 DEF vars
  <1> QED
    BY <1>1, <1>2, <1>3, <1>4 DEF Next

-----------------------------------------------------------------------------
\* A call vouches for nothing before it begins, nor longer than it lasts.
Silent ==
  \A t \in Trusters : /\ result[t] # "none" => pc[t] = "done"
                      /\ then[t] # "none" => pc[t] = "release"

LEMMA SilentStep == Types /\ Silent /\ [Next]_vars => Silent'
  <1> SUFFICES ASSUME Types, Silent, [Next]_vars PROVE Silent'
    OBVIOUS
  <1> USE DEF Types, CallTypes, Silent, callvars, Procs, Goto, Return
  <1>1. ASSUME NEW t \in Trusters, Begin(t) \/ Refuse(t) \/ Step(t) \/ Crash(t) PROVE Silent'
    <2>1. CASE Begin(t) \/ Refuse(t) \/ LockTimesOut(t) \/ Confirm(t) \/ Crash(t)
      BY <2>1 DEF Begin, Refuse, LockTimesOut, Locked, Confirm, Crash
    <2>6. CASE Lock(t, "stat") \/ FindsStale(t) \/ Steals(t)
      BY <2>6 DEF Lock, FindsStale, Steals
    <2>2. CASE Unconfirmed(t)
      BY <2>2 DEF Unconfirmed, Again
    <2>3. CASE Stat(t) \/ StatMissing(t) \/ Already(t) \/ Read(t) \/ Prepare(t) \/ TooLong(t)
      BY <2>3 DEF Stat, StatMissing, Already, Read, Prepare, TooLong, GiveUp, Leave
    <2>4. CASE Restat(t) \/ Changed(t) \/ Rename(t) \/ Fails(t)
      BY <2>4 DEF Restat, Changed, Rename, Fails, Tail, GiveUp, Leave
    <2>5. CASE Release(t)
      BY <2>5 DEF Release, Again
    <2> QED
      BY <1>1, <2>1, <2>2, <2>3, <2>4, <2>5, <2>6 DEF Step, Once
  <1>2. ASSUME NEW c \in Claudes, Claude(c) PROVE Silent'
    BY <1>2, ProcsAssumption
    DEF Claude, ClaudeBegins, Lock, FindsStale, Steals, ClaudeSkipsLock, ClaudeReads, ClaudeWrites, ClaudeReleases
  <1>3. CASE Tick \/ UNCHANGED vars
    BY <1>3 DEF Tick, vars
  <1> QED
    BY <1>1, <1>2, <1>3 DEF Next

\* A new file takes trust away that a call has found only if it is written outside
\* the lock.
LEMMA ReplaceStays ==
  ASSUME Types, TrustedStays, NEW p \in Procs, NEW new, Replace(p, new),
         maker = p /\ quiet[p] => file \subseteq new,
         UNCHANGED project,
         \A t \in Trusters : Vouches(t)' => Vouches(t)
  PROVE  TrustedStays'
  <1> SUFFICES ASSUME NEW t \in Trusters, Vouches(t)' PROVE (project[t] \in file \/ taken[t])'
    BY DEF TrustedStays
  <1>1. Vouches(t) /\ (project[t] \in file \/ taken[t])
    BY DEF TrustedStays
  <1>2. file' = new /\ taken'[t] = (taken[t] \/ (t \in Undone(new) /\ ~(maker = p /\ quiet[p])))
    BY DEF Replace
  <1>3. project[t] \in new \/ t \in Undone(new) \/ taken[t]
    BY <1>1 DEF Undone
  <1>4. CASE maker = p /\ quiet[p]
    BY <1>1, <1>2, <1>4
  <1>5. CASE ~(maker = p /\ quiet[p])
    BY <1>2, <1>3, <1>5
  <1> QED
    BY <1>4, <1>5

LEMMA StaysStep == Types /\ Owners /\ Copies /\ Silent /\ TrustedStays /\ [Next]_vars => TrustedStays'
  <1> SUFFICES ASSUME Types, Owners, Copies, Silent, TrustedStays, [Next]_vars PROVE TrustedStays'
    OBVIOUS
  <1> USE DEF Types, CallTypes, filevars, callvars, Goto, Return
  <1>1. ASSUME UNCHANGED <<file, taken>>,
               \A t \in Trusters : Vouches(t)' => project[t]' = project[t] /\ (Vouches(t) \/ project[t] \in file)
        PROVE  TrustedStays'
    BY <1>1 DEF TrustedStays
  <1>2. ASSUME NEW t \in Trusters, Begin(t) \/ Refuse(t) \/ Step(t) \/ Crash(t) PROVE TrustedStays'
    <2>1. CASE Begin(t) \/ Refuse(t) \/ LockTimesOut(t) \/ Crash(t)
      <3>1. UNCHANGED <<file, taken>>
        BY <2>1 DEF Begin, Refuse, LockTimesOut, Crash
      <3>2. ASSUME NEW u \in Trusters, Vouches(u)' PROVE Vouches(u) /\ project'[u] = project[u]
        <4>1. u # t
          BY <2>1, <3>2 DEF Begin, Refuse, LockTimesOut, Locked, Crash, Vouches, Silent, Procs
        <4> QED
          BY <2>1, <3>2, <4>1 DEF Begin, Refuse, LockTimesOut, Crash, Vouches
      <3> QED
        BY <1>1, <3>1, <3>2
    <2>7. CASE Lock(t, "stat") \/ FindsStale(t) \/ Steals(t)
      BY <2>7, <1>1 DEF Lock, FindsStale, Steals, Vouches, Silent
    <2>2. CASE Confirm(t) \/ Unconfirmed(t)
      <3>1. UNCHANGED <<file, taken, then>>
        BY <2>2 DEF Confirm, Unconfirmed
      <3>2. /\ \A u \in Trusters \ {t} : result'[u] = result[u] /\ project'[u] = project[u]
            /\ result'[t] = result[t] \/ result'[t] = "failed" \/ (result'[t] = "trusted" /\ project[t] \in file)
            /\ result'[t] # "failed" => project'[t] = project[t]
            /\ then[t] = "none"
        BY <2>2 DEF Confirm, Confirmed, Unconfirmed, Again, Silent
      <3> QED
        BY <1>1, <3>1, <3>2 DEF Vouches
    <2>3. CASE StatMissing(t) \/ Already(t) \/ TooLong(t) \/ Changed(t) \/ Fails(t)
      BY <2>3, <1>1 DEF StatMissing, Already, TooLong, Changed, Fails, GiveUp, Leave, Vouches
    <2>4. CASE Stat(t) \/ Read(t) \/ Prepare(t) \/ Restat(t)
      BY <2>4, <1>1 DEF Stat, Read, Prepare, Restat, Vouches
    <2>5. CASE Release(t)
      BY <2>5, <1>1 DEF Release, Again, Vouches
    <2>6. CASE Rename(t)
      <3>1. maker = t /\ quiet[t] => file \subseteq WithTrust(copy[t], project[t])
        BY <2>6 DEF Rename, Copies, Procs, WithTrust
      <3>2. \A u \in Trusters : Vouches(u)' => Vouches(u)
        BY <2>6 DEF Rename, Leave, Vouches
      <3> QED
        BY <2>6, <3>1, <3>2, ReplaceStays DEF Rename, Leave, Procs
    <2> QED
      BY <1>2, <2>1, <2>2, <2>3, <2>4, <2>5, <2>6, <2>7 DEF Step, Once
  <1>3. ASSUME NEW c \in Claudes, Claude(c) PROVE TrustedStays'
    <2>1. CASE \/ ClaudeBegins(c) \/ Lock(c, "read") \/ FindsStale(c) \/ Steals(c)
               \/ ClaudeSkipsLock(c) \/ ClaudeReads(c) \/ ClaudeReleases(c)
      BY <2>1, <1>1 DEF ClaudeBegins, Lock, FindsStale, Steals, ClaudeSkipsLock, ClaudeReads, ClaudeReleases, Vouches
    <2>2. CASE ClaudeWrites(c)
      <3>1. maker = c => pc[c] = "write"
        BY <2>2 DEF ClaudeWrites, Owners
      <3>2. maker = c /\ quiet[c] => file \subseteq copy[c] \cup {c}
        BY <3>1 DEF Copies, Procs
      <3> QED
        BY <2>2, <3>2, ReplaceStays DEF ClaudeWrites, Vouches, Procs
    <2> QED
      BY <1>3, <2>1, <2>2 DEF Claude
  <1>4. CASE Tick \/ UNCHANGED vars
    BY <1>4, <1>1 DEF Tick, vars, Vouches
  <1> QED
    BY <1>2, <1>3, <1>4 DEF Next

-----------------------------------------------------------------------------
TrustInv == Types /\ Owners /\ Copies /\ Timely /\ Silent /\ TrustedStays

LEMMA TrustInvInit == Init => TrustInv
  <1> SUFFICES ASSUME Init PROVE TrustInv
    OBVIOUS
  <1>1. Owners /\ Copies /\ Timely /\ Silent /\ TrustedStays
    BY ProcsAssumption DEF Init, Owners, Copies, Timely, Kept, Silent, TrustedStays, Vouches, UnderLock, Tail, Procs
  <1> QED
    BY <1>1, TypesInit DEF TrustInv

LEMMA TrustInvStep == TrustInv /\ [Next]_vars => TrustInv'
  BY TypesStep, OwnersStep, CopiesStep, TimelyStep, SilentStep, StaysStep DEF TrustInv

LEMMA TrustInvAlways == Spec => []TrustInv
  BY TrustInvInit, TrustInvStep, PTL DEF Spec

\* Trust that a call found in the file stays until a write outside the lock undoes
\* it, whatever crashes, stalls and fails.
THEOREM TrustTrustedStays == Spec => []TrustedStays
  BY TrustInvAlways, PTL DEF TrustInv

\* If the limit on holding the lock and the time from there to the rename fit in the
\* stale window, a trust write drops no edit, unless somebody wrote outside the lock
\* between its second stat and its rename, or its fresh lock was removed by another: by
\* the release of one that had itself lost it, or by the steal of one that had found an
\* older directory stale.
THEOREM TrustLosesNothing == ASSUME Limit + MaxTail <= Stale PROVE Spec => LosesNothing
  <1>1. ASSUME TrustInv, NEW t \in Trusters, Rename(t), quiet[t], ~robbed[t]
        PROVE  file \subseteq file'
    <2>1. held[t] \in Nat /\ due[t] \in Nat /\ held[t] <= due[t] /\ due[t] <= Limit + MaxTail
      BY <1>1 DEF TrustInv, Types, LockTypes, Timely, Rename, UnderLock, Tail, Procs
    <2>2. held[t] <= Stale
      BY <2>1, TimesAssumption
    <2>3. maker = t
      BY <1>1, <2>2 DEF TrustInv, Timely, Kept, Rename, UnderLock, Tail, Procs
    <2>4. copy[t] = file
      BY <1>1, <2>3 DEF TrustInv, Copies, Rename, Procs
    <2> QED
      BY <1>1, <2>4 DEF Rename, Replace, WithTrust
  <1>2. TrustInv /\ [Next]_vars =>
          [\A t \in Trusters : Rename(t) /\ quiet[t] /\ ~robbed[t] => file \subseteq file']_vars
    BY <1>1
  <1> QED
    BY <1>2, TrustInvAlways, PTL DEF Spec, LosesNothing

-----------------------------------------------------------------------------
(* Without deaths and stalls nobody's lock is removed by another. *)

NoStalls == MaxCrashes = 0 /\ MaxHold <= Stale /\ Limit + MaxTail <= Stale

\* A directory has a maker under the lock, who is within its time; so none is stale.
Fresh ==
  /\ \A p \in Procs : ~robbed[p] /\ pc[p] # "steal"
  /\ \A p \in Procs : pc[p] \in UnderLock => maker = p /\ age = held[p] /\ due[p] <= Stale
  /\ maker # None => pc[maker] \in UnderLock

\* A call or claude gets the lock.
LEMMA FreshLock ==
  ASSUME NoStalls, Types, Fresh, NEW p \in Procs, NEW l \in UnderLock, Lock(p, l)
  PROVE  Fresh'
  <1> USE DEF Types, LockTypes, CallTypes, Goto
  <1>1. \A q \in Procs : pc[q] \notin UnderLock
    BY ProcsAssumption DEF Lock, Fresh, Procs
  <1>2. /\ maker' = p /\ age' = 0 /\ held'[p] = 0 /\ due'[p] = MaxHold
        /\ pc'[p] = l /\ \A q \in Procs \ {p} : pc'[q] = pc[q]
    BY DEF Lock
  <1>3. \A q \in Procs : ~robbed'[q]
    BY DEF Lock, Fresh
  <1>4. \A q \in Procs : pc'[q] # "steal"
    BY <1>2 DEF Fresh, UnderLock, Tail
  <1>5. MaxHold <= Stale
    BY DEF NoStalls
  <1> QED
    BY <1>1, <1>2, <1>3, <1>4, <1>5 DEF Fresh

LEMMA FreshStep ==
  ASSUME NoStalls PROVE Types /\ Timely /\ Fresh /\ [Next]_vars => Fresh'
  <1> SUFFICES ASSUME Types, Timely, Fresh, [Next]_vars PROVE Fresh'
    OBVIOUS
  <1> USE ProcsAssumption, TimesAssumption, NoStalls
      DEF Types, LockTypes, CallTypes, Fresh, lockvars, Procs, Goto, Return, UnderLock, Tail
  <1>0. \A p \in Procs : ~FindsStale(p) /\ ~Steals(p)
    BY DEF FindsStale, Steals, Timely
  <1>1. ASSUME NEW t \in Trusters, Begin(t) \/ Refuse(t) \/ Step(t) PROVE Fresh'
    <2>1. CASE Begin(t) \/ Refuse(t) \/ LockTimesOut(t) \/ Confirm(t) \/ Unconfirmed(t)
      BY <2>1 DEF Begin, Refuse, LockTimesOut, Locked, Confirm, Unconfirmed, Again
    <2>2. CASE Lock(t, "stat")
      BY <2>2, FreshLock
    <2>3. CASE Stat(t) \/ StatMissing(t) \/ Already(t) \/ Read(t)
      BY <2>3 DEF Stat, StatMissing, Already, Read, GiveUp, Leave
    <2>4. CASE Prepare(t)
      BY <2>4 DEF Prepare, HeldTooLong, NoStalls
    <2>5. CASE TooLong(t) \/ Restat(t) \/ Changed(t) \/ Rename(t) \/ Fails(t)
      BY <2>5 DEF TooLong, Restat, Changed, Rename, Fails, GiveUp, Leave
    <2>6. CASE Release(t)
      BY <2>6 DEF Release, RemoveLock, Again
    <2> QED
      BY <1>0, <1>1, <2>1, <2>2, <2>3, <2>4, <2>5, <2>6 DEF Step, Once
  <1>2. ASSUME NEW c \in Claudes, Claude(c) PROVE Fresh'
    <2>1. CASE ClaudeBegins(c) \/ ClaudeSkipsLock(c) \/ ClaudeReads(c) \/ ClaudeWrites(c)
      BY <2>1 DEF ClaudeBegins, ClaudeSkipsLock, Locked, ClaudeReads, ClaudeWrites
    <2>2. CASE Lock(c, "read")
      BY <2>2, FreshLock
    <2>3. CASE ClaudeReleases(c)
      BY <2>3 DEF ClaudeReleases, RemoveLock
    <2> QED
      BY <1>0, <1>2, <2>1, <2>2, <2>3 DEF Claude
  <1>3. ASSUME NEW t \in Trusters, Crash(t) PROVE FALSE
    BY <1>3 DEF Crash, NoStalls
  <1>4. CASE Tick
    BY <1>4 DEF Tick
  <1>5. CASE UNCHANGED vars
    BY <1>5 DEF vars
  <1> QED
    BY <1>1, <1>2, <1>3, <1>4, <1>5 DEF Next

\* Without deaths, and with nobody under the lock past the stale window, a trust write
\* drops no edit but one that was written outside the lock (markTrusted): the lock
\* itself takes nothing from it.
THEOREM TrustLosesNothingUnlocked ==
  ASSUME NoStalls
  PROVE  Spec => [][\A t \in Trusters : Rename(t) /\ quiet[t] => file \subseteq file']_vars
  <1>1. Init => Fresh
    BY ProcsAssumption DEF Init, Fresh, UnderLock, Tail, Procs
  <1>2. Spec => LosesNothing
    BY TrustLosesNothing, NoStalls DEF NoStalls
  <1>3. Spec => []Fresh
    BY <1>1, FreshStep, TrustInvAlways, PTL DEF Spec, TrustInv
  <1>4. Fresh /\ [\A t \in Trusters : Rename(t) /\ quiet[t] /\ ~robbed[t] => file \subseteq file']_vars
          => [\A t \in Trusters : Rename(t) /\ quiet[t] => file \subseteq file']_vars
    BY DEF Fresh, Procs
  <1> QED
    BY <1>2, <1>3, <1>4, PTL DEF LosesNothing

-----------------------------------------------------------------------------
(* A call runs out of steps. *)

\* The steps of an attempt from where the call is.
ToEnd == [lock |-> 8, steal |-> 8, stat |-> 7, read |-> 6, prepare |-> 5, restat |-> 4, rename |-> 3,
          release |-> 2, confirm |-> 1]

\* A call that is under way.
UnderWay(t) == pc[t] \in DOMAIN ToEnd

\* The most steps a call can still take.
StepsLeft(t) == IF UnderWay(t) THEN 8 * (MaxAttempts - attempt[t]) + ToEnd[pc[t]] ELSE 0

\* A call is nowhere else, and counts its attempts from 1.
Counting ==
  \A t \in Trusters : /\ pc[t] \in {"idle", "done"} \/ UnderWay(t)
                      /\ UnderWay(t) => attempt[t] >= 1

LEMMA CountingStep == Types /\ Counting /\ [Next]_vars => Counting'
  <1> SUFFICES ASSUME Types, Counting, [Next]_vars PROVE Counting'
    OBVIOUS
  <1> USE ProcsAssumption, BoundsAssumption
      DEF Types, CallTypes, Counting, UnderWay, ToEnd, Procs, Goto, Return, callvars
  <1>1. ASSUME NEW t \in Trusters, Begin(t) \/ Refuse(t) \/ Step(t) \/ Crash(t) PROVE Counting'
    <2>1. CASE Begin(t) \/ Refuse(t) \/ LockTimesOut(t) \/ Confirm(t) \/ Unconfirmed(t) \/ Crash(t)
      BY <2>1 DEF Begin, Refuse, LockTimesOut, Locked, Confirm, Unconfirmed, Again, Crash
    <2>5. CASE Lock(t, "stat") \/ FindsStale(t) \/ Steals(t)
      BY <2>5 DEF Lock, FindsStale, Steals
    <2>2. CASE Stat(t) \/ StatMissing(t) \/ Already(t) \/ Read(t) \/ Prepare(t) \/ TooLong(t)
      BY <2>2 DEF Stat, StatMissing, Already, Read, Prepare, TooLong, GiveUp, Leave
    <2>3. CASE Restat(t) \/ Changed(t) \/ Rename(t) \/ Fails(t)
      BY <2>3 DEF Restat, Changed, Rename, Fails, GiveUp, Leave, Tail
    <2>4. CASE Release(t)
      BY <2>4 DEF Release, Again
    <2> QED
      BY <1>1, <2>1, <2>2, <2>3, <2>4, <2>5 DEF Step, Once
  <1>2. ASSUME NEW c \in Claudes, Claude(c) PROVE Counting'
    BY <1>2 DEF Claude, ClaudeBegins, Lock, FindsStale, Steals, ClaudeSkipsLock, ClaudeReads, ClaudeWrites, ClaudeReleases
  <1>3. CASE Tick \/ UNCHANGED vars
    BY <1>3 DEF Tick, vars
  <1> QED
    BY <1>1, <1>2, <1>3 DEF Next

\* A round of the lock's loop, which a call makes for as long as others leave lock
\* directories to grow stale.
Round(t) == FindsStale(t) \/ Steals(t)

LEMMA RoundLeavesSteps ==
  ASSUME Types, NEW t \in Trusters, Round(t)
  PROVE  StepsLeft(t)' = StepsLeft(t)
  BY DEF Types, CallTypes, StepsLeft, UnderWay, ToEnd, Procs, Goto, callvars, Round, FindsStale, Steals

\* Any other step of a call is one less to go.
LEMMA StepLeavesLess ==
  ASSUME Types, Counting, NEW t \in Trusters, Step(t) \/ Crash(t), ~Round(t)
  PROVE  StepsLeft(t)' < StepsLeft(t)
  <1> USE BoundsAssumption DEF Types, CallTypes, Counting, StepsLeft, UnderWay, ToEnd, Procs, Goto, Return, callvars
  <1>1. CASE LockTimesOut(t) \/ Confirm(t) \/ Crash(t)
    BY <1>1 DEF LockTimesOut, Locked, Confirm, Crash
  <1>2. CASE Unconfirmed(t)
    BY <1>2 DEF Unconfirmed, Again
  <1>3. CASE Lock(t, "stat") \/ Stat(t) \/ Read(t) \/ Prepare(t) \/ Restat(t)
    BY <1>3 DEF Lock, Stat, Read, Prepare, Restat
  <1>4. CASE StatMissing(t) \/ Already(t) \/ TooLong(t) \/ Changed(t) \/ Fails(t)
    BY <1>4 DEF StatMissing, Already, TooLong, Changed, Fails, GiveUp, Leave, Tail
  <1>5. CASE Rename(t)
    BY <1>5 DEF Rename, Leave
  <1>6. CASE Release(t)
    BY <1>6 DEF Release, Again
  <1> QED
    BY <1>1, <1>2, <1>3, <1>4, <1>5, <1>6 DEF Step, Once, Round

\* Nobody else gives a call more to do.
LEMMA OthersLeaveSteps ==
  ASSUME Types, Counting, [Next]_vars, NEW t \in Trusters, ~(Begin(t) \/ Step(t) \/ Crash(t))
  PROVE  StepsLeft(t)' = StepsLeft(t)
  <1> USE ProcsAssumption DEF Types, CallTypes, Procs, Goto, Return, callvars
  <1>1. SUFFICES StepsLeft(t)' = StepsLeft(t)
    OBVIOUS
  <1>2. CASE Refuse(t)
    BY <1>2 DEF Refuse, StepsLeft, UnderWay, ToEnd
  <1>3. ASSUME NEW u \in Trusters, u # t, Begin(u) \/ Refuse(u) \/ Step(u) \/ Crash(u)
        PROVE  pc'[t] = pc[t] /\ attempt'[t] = attempt[t]
    <2>1. CASE Begin(u) \/ Refuse(u) \/ LockTimesOut(u) \/ Confirm(u) \/ Unconfirmed(u) \/ Crash(u)
      BY <1>3, <2>1 DEF Begin, Refuse, LockTimesOut, Confirm, Unconfirmed, Again, Crash
    <2>5. CASE Lock(u, "stat") \/ FindsStale(u) \/ Steals(u)
      BY <1>3, <2>5 DEF Lock, FindsStale, Steals
    <2>2. CASE Stat(u) \/ StatMissing(u) \/ Already(u) \/ Read(u) \/ Prepare(u) \/ TooLong(u)
      BY <1>3, <2>2 DEF Stat, StatMissing, Already, Read, Prepare, TooLong, GiveUp, Leave
    <2>3. CASE Restat(u) \/ Changed(u) \/ Rename(u) \/ Fails(u)
      BY <1>3, <2>3 DEF Restat, Changed, Rename, Fails, GiveUp, Leave
    <2>4. CASE Release(u)
      BY <1>3, <2>4 DEF Release, Again
    <2> QED
      BY <1>3, <2>1, <2>2, <2>3, <2>4, <2>5 DEF Step, Once
  <1>4. ASSUME NEW c \in Claudes, Claude(c) PROVE pc'[t] = pc[t] /\ attempt'[t] = attempt[t]
    BY <1>4 DEF Claude, ClaudeBegins, Lock, FindsStale, Steals, ClaudeSkipsLock, ClaudeReads, ClaudeWrites, ClaudeReleases
  <1>5. CASE Tick \/ UNCHANGED vars
    BY <1>5 DEF Tick, vars, StepsLeft, UnderWay
  <1> QED
    BY <1>2, <1>3, <1>4, <1>5 DEF Next, StepsLeft, UnderWay

\* A call that is under way has between 1 and 8 * MaxAttempts steps to go, one that is
\* over has none.
Limited(t) ==
  /\ StepsLeft(t) \in 0..(8 * MaxAttempts)
  /\ StepsLeft(t) = 0 <=> pc[t] \in {"idle", "done"}

InLimits == \A t \in Trusters : Limited(t)

LEMMA StepsInLimits == Types /\ Counting => InLimits
  <1> SUFFICES ASSUME Types, Counting, NEW t \in Trusters PROVE Limited(t)
    BY Zenon DEF InLimits
  <1>1. /\ attempt[t] \in 0..MaxAttempts /\ MaxAttempts \in Nat
        /\ pc[t] \in {"idle", "done"} \/ UnderWay(t)
    BY BoundsAssumption DEF Types, CallTypes, Counting
  <1>2. CASE UnderWay(t)
    <2>1. attempt[t] >= 1 /\ ToEnd[pc[t]] \in 1..8 /\ pc[t] \notin {"idle", "done"}
      BY <1>2 DEF Counting, UnderWay, ToEnd
    <2> QED
      BY <1>1, <1>2, <2>1 DEF Limited, StepsLeft
  <1>3. CASE ~UnderWay(t)
    BY <1>1, <1>3 DEF Limited, StepsLeft
  <1> QED
    BY <1>2, <1>3

\* Each step of a call but the rounds of the lock's loop is one less to go, and no step
\* of anybody else, claude, the clock or another call, gives it one more.
RunsOut ==
  [][\A t \in Trusters :
       /\ Step(t) /\ ~Round(t) => StepsLeft(t)' < StepsLeft(t)
       /\ ~Begin(t) => StepsLeft(t)' <= StepsLeft(t)]_vars

\* A call of PreTrust takes at most eight steps for each attempt, besides those that
\* steal a stale lock, and is then over, whoever gets in its way (the loop of
\* markTrusted).
THEOREM TrustCallsRunOut == Spec => []InLimits /\ RunsOut
  <1>1. Init => Counting
    <2> SUFFICES ASSUME Init PROVE Counting
      OBVIOUS
    <2>1. \A t \in Trusters : pc[t] = "idle"
      BY Zenon DEF Init, Procs
    <2> QED
      BY <2>1, Zenon DEF Counting, UnderWay, ToEnd
  <1>2. ASSUME Types, Counting, [Next]_vars, NEW t \in Trusters
        PROVE  /\ Step(t) /\ ~Round(t) => StepsLeft(t)' < StepsLeft(t)
               /\ ~Begin(t) => StepsLeft(t)' <= StepsLeft(t)
    <2>1. Types' /\ Counting' => InLimits'
      BY StepsInLimits, PTL
    <2>2. StepsLeft(t) \in Int /\ StepsLeft(t)' \in Int
      BY <1>2, <2>1, StepsInLimits, TypesStep, CountingStep, BoundsAssumption DEF InLimits, Limited
    <2> QED
      BY <1>2, <2>2, StepLeavesLess, RoundLeavesSteps, OthersLeaveSteps
  <1>3. Types /\ Counting /\ [Next]_vars =>
          [\A t \in Trusters :
             /\ Step(t) /\ ~Round(t) => StepsLeft(t)' < StepsLeft(t)
             /\ ~Begin(t) => StepsLeft(t)' <= StepsLeft(t)]_vars
    BY <1>2
  <1> QED
    BY <1>1, <1>3, StepsInLimits, CountingStep, TypesAlways, PTL DEF Spec, RunsOut
=============================================================================
