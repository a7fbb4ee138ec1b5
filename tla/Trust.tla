------------------------------- MODULE Trust -------------------------------
(***************************************************************************)
(* PreTrust and markTrusted of trust.go: a call sets one flag in           *)
(* ~/.claude.json, a file every running claude process rewrites as well.   *)
(* It takes the directory lock claude takes for its own read-modify-write, *)
(* reads the file under it, writes the new one beside it, and renames it   *)
(* into place unless it has had the lock for too long or the file is no    *)
(* longer the one it stat'ed; afterwards it looks whether the flag stayed. *)
(*                                                                         *)
(* The file is the set of edits it holds: the projects trusted in it, and  *)
(* the edit of each claude process that has written.  claude takes the     *)
(* lock too, and goes on without it when it does not get it.               *)
(*                                                                         *)
(* The lock is acquireLockWait (DirLock has it with all its branches): who *)
(* finds a directory older than the stale window removes, some time later, *)
(* whatever directory is there then, and tries again; release does the     *)
(* same.  That such a removal fails is left to DirLock.  Time is counted   *)
(* in ticks, as in DirLock.                                                *)
(***************************************************************************)
EXTENDS Integers

CONSTANTS
  Trusters,     \* calls of PreTrust
  Claudes,      \* claude processes that edit the file, each of them once
  Inside,       \* the projects that lie strictly inside a trust root
  Asks,         \* by call: the projects among those that it may be for
  None,         \* not a process: there is no lock directory
  Stale,        \* ticks: the stale window of the lock
  Limit,        \* ticks: lockHoldLimit
  MaxTail,      \* ticks: the longest time from the check of lockHoldLimit to the rename
  MaxHold,      \* ticks: the longest time the lock is held before that check, or by claude
  MaxAttempts,  \* the attempts of markTrusted: 5
  MaxCrashes,   \* bound: how many crashes a behaviour has
  IOFaults      \* whether file operations fail

Procs == Trusters \cup Claudes

ASSUME ProcsAssumption == Trusters \cap Claudes = {} /\ None \notin Procs \cup Inside
ASSUME InsideAssumption == Inside \cap Claudes = {} /\ Asks \in [Trusters -> SUBSET Inside]
ASSUME TimesAssumption ==
  Stale \in Nat /\ Limit \in Nat /\ MaxTail \in Nat /\ MaxHold \in Nat
ASSUME BoundsAssumption == MaxAttempts \in Nat \ {0} /\ MaxCrashes \in Nat /\ IOFaults \in BOOLEAN

VARIABLES
  there,    \* whether the file exists
  file,     \* the edits in it
  maker,    \* the process that made the lock directory, None without one
  age,      \* time since its mtime
  pc,       \* where a process is
  held,     \* time.Since(acquired)
  due,      \* what held is at most when the process releases
  copy,     \* the edits a process has read
  project,  \* trustProject(cwd), None before the call
  same,     \* whether a stat still shows the mtime and size of the call's first one
  attempt,  \* the attempt a call is at
  then,     \* what markTrustedOnce returns after release
  result,   \* what PreTrust returned
  quiet,    \* no write without the lock since a process read, or stat'ed again
  robbed,   \* whether another removed the directory of a process before it was stale, or
            \* released it
  taken,    \* whether a write outside the lock undid what the call had found
  crashes   \* how many crashes there were

lockvars == <<maker, age, held, due, robbed>>
filevars == <<there, file, same, quiet, taken>>
callvars == <<project, attempt, then, result>>
vars == <<lockvars, filevars, callvars, pc, copy, crashes>>

\* From the lock to the second stat and the rename; and all that is under the lock.
Tail == {"restat", "rename"}
UnderLock == {"stat", "read", "prepare", "release", "write"} \cup Tail
PCs == {"idle", "lock", "steal", "confirm", "bare", "overwrite", "done"} \cup UnderLock
Results == {"none", "refused", "trusted", "failed", "died"}

Init ==
  /\ there \in BOOLEAN
  /\ file = {}
  /\ maker = None
  /\ age = 0
  /\ pc = [p \in Procs |-> "idle"]
  /\ held = [p \in Procs |-> 0]
  /\ due = [p \in Procs |-> 0]
  /\ copy = [p \in Procs |-> {}]
  /\ project = [t \in Trusters |-> None]
  /\ same = [t \in Trusters |-> FALSE]
  /\ attempt = [t \in Trusters |-> 0]
  /\ then = [t \in Trusters |-> "none"]
  /\ result = [t \in Trusters |-> "none"]
  /\ quiet = [p \in Procs |-> FALSE]
  /\ robbed = [p \in Procs |-> FALSE]
  /\ taken = [t \in Trusters |-> FALSE]
  /\ crashes = 0

Goto(p, l) == pc' = [pc EXCEPT ![p] = l]

-----------------------------------------------------------------------------
(* The lock, for calls and for claude. *)

Lock(p, l) ==
  /\ pc[p] = "lock"
  /\ maker = None
  /\ maker' = p
  /\ age' = 0
  /\ held' = [held EXCEPT ![p] = 0]
  /\ due' = [due EXCEPT ![p] = MaxHold]
  /\ robbed' = [robbed EXCEPT ![p] = FALSE]
  /\ Goto(p, l)
  /\ UNCHANGED <<filevars, callvars, copy, crashes>>

FindsStale(p) ==
  /\ pc[p] = "lock"
  /\ maker # None
  /\ age > Stale
  /\ Goto(p, "steal")
  /\ UNCHANGED <<lockvars, filevars, callvars, copy, crashes>>

\* What is there by now: a directory that is as old, or a new one, or none.
Steals(p) ==
  /\ pc[p] = "steal"
  /\ maker' = None
  /\ age' = 0
  /\ robbed' =
       [q \in Procs |-> robbed[q] \/ (q = maker /\ pc[q] \in UnderLock /\ age <= Stale)]
  /\ Goto(p, "lock")
  /\ UNCHANGED <<held, due, filevars, callvars, copy, crashes>>

\* Somebody else had it all the time, or mkdir failed.
Locked(p) ==
  /\ pc[p] = "lock"
  /\ IOFaults \/ (maker # None /\ age <= Stale)

\* Whoever has it.
RemoveLock(p) ==
  /\ maker' = None
  /\ age' = 0
  /\ held' = [held EXCEPT ![p] = 0]
  /\ due' = [due EXCEPT ![p] = 0]
  /\ robbed' = [q \in Procs |-> q # p /\ (robbed[q] \/ (q = maker /\ pc[q] \in UnderLock))]

\* What calls have found in the file and a new one lacks.
Vouches(t) == result[t] = "trusted" \/ then[t] = "already"
Undone(new) == {t \in Trusters : Vouches(t) /\ project[t] \in file \ new}

\* A new file: other processes see another mtime or size than they stat'ed, and a
\* write is outside the lock when its process does not have the directory, or has
\* read the file before another such write.
Replace(p, new) ==
  /\ there' = TRUE
  /\ file' = new
  /\ copy' = [copy EXCEPT ![p] = {}]
  /\ same' = [t \in Trusters |-> FALSE]
  /\ quiet' = [q \in Procs |-> q # p /\ quiet[q] /\ maker = p]
  /\ taken' = [t \in Trusters |->
       taken[t] \/ (t \in Undone(new) /\ ~(maker = p /\ quiet[p]))]

-----------------------------------------------------------------------------
(* A call of PreTrust. *)

Begin(t) ==
  /\ pc[t] = "idle"
  /\ \E pr \in Asks[t] : project' = [project EXCEPT ![t] = pr]
  /\ attempt' = [attempt EXCEPT ![t] = 1]
  /\ Goto(t, "lock")
  /\ UNCHANGED <<lockvars, filevars, then, result, copy, crashes>>

\* The call is over; what it trusted is kept for as long as it vouches for it.
Return(t, r) ==
  /\ result' = [result EXCEPT ![t] = r]
  /\ attempt' = [attempt EXCEPT ![t] = 0]
  /\ project' = [project EXCEPT ![t] = IF r = "trusted" THEN @ ELSE None]
  /\ Goto(t, "done")

\* There are no trust roots, the project is not strictly inside one, or is the home.
Refuse(t) ==
  /\ pc[t] = "idle"
  /\ Return(t, "refused")
  /\ UNCHANGED <<lockvars, filevars, then, copy, crashes>>

LockTimesOut(t) ==
  /\ Locked(t)
  /\ Return(t, "failed")
  /\ UNCHANGED <<lockvars, filevars, then, copy, crashes>>

\* markTrustedOnce returns: its lock is released first.
Leave(t, what) ==
  /\ then' = [then EXCEPT ![t] = what]
  /\ Goto(t, "release")
  /\ UNCHANGED <<lockvars, project, attempt, result, crashes>>

\* The same without a write.
GiveUp(t, what) ==
  /\ Leave(t, what)
  /\ copy' = [copy EXCEPT ![t] = {}]
  /\ same' = [same EXCEPT ![t] = FALSE]
  /\ quiet' = [quiet EXCEPT ![t] = FALSE]
  /\ UNCHANGED <<there, file, taken>>

Stat(t) ==
  /\ pc[t] = "stat"
  /\ there
  /\ same' = [same EXCEPT ![t] = TRUE]
  /\ Goto(t, "read")
  /\ UNCHANGED <<lockvars, there, file, quiet, taken, callvars, copy, crashes>>

StatMissing(t) ==
  /\ pc[t] = "stat"
  /\ ~there
  /\ GiveUp(t, "missing")

Already(t) ==
  /\ pc[t] = "read"
  /\ project[t] \in file
  /\ GiveUp(t, "already")

Read(t) ==
  /\ pc[t] = "read"
  /\ project[t] \notin file
  /\ copy' = [copy EXCEPT ![t] = file]
  /\ Goto(t, "prepare")
  /\ UNCHANGED <<lockvars, filevars, callvars, crashes>>

\* Every other key and value is carried over.
WithTrust(data, pr) == data \cup {pr}

\* Mutant of HeldTooLong: the lock may be kept for the whole stale window.
HeldPastStale(t) == held[t] > Stale

HeldTooLong(t) == held[t] > Limit

\* The temporary file is written and synced.
Prepare(t) ==
  /\ pc[t] = "prepare"
  /\ ~HeldTooLong(t)
  /\ due' = [due EXCEPT ![t] = held[t] + MaxTail]
  /\ Goto(t, "restat")
  /\ UNCHANGED <<maker, age, held, robbed, filevars, callvars, copy, crashes>>

TooLong(t) ==
  /\ pc[t] = "prepare"
  /\ HeldTooLong(t)
  /\ GiveUp(t, "retry")

Unchanged(t) == same[t]

Restat(t) ==
  /\ pc[t] = "restat"
  /\ Unchanged(t)
  /\ quiet' = [quiet EXCEPT ![t] = TRUE]
  /\ Goto(t, "rename")
  /\ UNCHANGED <<lockvars, there, file, same, taken, callvars, copy, crashes>>

Changed(t) ==
  /\ pc[t] = "restat"
  /\ ~Unchanged(t)
  /\ GiveUp(t, "retry")

Rename(t) ==
  /\ pc[t] = "rename"
  /\ Replace(t, WithTrust(copy[t], project[t]))
  /\ Leave(t, "confirm")

Fails(t) ==
  /\ IOFaults
  /\ pc[t] \in {"stat", "read", "prepare"} \cup Tail
  /\ GiveUp(t, "retry")

\* Mutant of Again: attempts are not counted.
AgainForever(t) ==
  /\ Goto(t, "lock")
  /\ UNCHANGED <<project, attempt, result>>

\* The next attempt, after a sleep, or the last error.
Again(t) ==
  \/ /\ attempt[t] < MaxAttempts
     /\ attempt' = [attempt EXCEPT ![t] = @ + 1]
     /\ Goto(t, "lock")
     /\ UNCHANGED <<project, result>>
  \/ /\ attempt[t] = MaxAttempts
     /\ Return(t, "failed")

Release(t) ==
  /\ pc[t] = "release"
  /\ RemoveLock(t)
  /\ then' = [then EXCEPT ![t] = "none"]
  /\ \/ then[t] = "retry" /\ Again(t)
     \/ then[t] = "confirm" /\ Goto(t, "confirm") /\ UNCHANGED <<project, attempt, result>>
     \/ then[t] = "already" /\ Return(t, "trusted")
     \/ then[t] = "missing" /\ Return(t, "failed")
  /\ UNCHANGED <<filevars, copy, crashes>>

\* Mutant of Confirmed: the write is taken for granted.
ConfirmedUnseen(t) == TRUE

Confirmed(t) == project[t] \in file

Confirm(t) ==
  /\ pc[t] = "confirm"
  /\ Confirmed(t)
  /\ Return(t, "trusted")
  /\ UNCHANGED <<lockvars, filevars, then, copy, crashes>>

\* Also when the file cannot be read.
Unconfirmed(t) ==
  /\ pc[t] = "confirm"
  /\ IOFaults \/ ~Confirmed(t)
  /\ Again(t)
  /\ UNCHANGED <<lockvars, filevars, then, copy, crashes>>

-----------------------------------------------------------------------------
(* claude: a read-modify-write under the lock, or without it. *)

ClaudeBegins(c) ==
  /\ pc[c] = "idle"
  /\ Goto(c, "lock")
  /\ UNCHANGED <<lockvars, filevars, callvars, copy, crashes>>

ClaudeSkipsLock(c) ==
  /\ Locked(c)
  /\ Goto(c, "bare")
  /\ UNCHANGED <<lockvars, filevars, callvars, copy, crashes>>

ClaudeReads(c) ==
  /\ \/ pc[c] = "read" /\ Goto(c, "write")
     \/ pc[c] = "bare" /\ Goto(c, "overwrite")
  /\ copy' = [copy EXCEPT ![c] = file]
  /\ quiet' = [quiet EXCEPT ![c] = TRUE]
  /\ UNCHANGED <<lockvars, there, file, same, taken, callvars, crashes>>

ClaudeWrites(c) ==
  /\ \/ pc[c] = "write" /\ Goto(c, "release")
     \/ pc[c] = "overwrite" /\ Goto(c, "done")
  /\ Replace(c, copy[c] \cup {c})
  /\ UNCHANGED <<lockvars, callvars, crashes>>

ClaudeReleases(c) ==
  /\ pc[c] = "release"
  /\ RemoveLock(c)
  /\ Goto(c, "done")
  /\ UNCHANGED <<filevars, callvars, copy, crashes>>

-----------------------------------------------------------------------------
(* A server process that dies leaves its lock behind; time passes. *)

Crash(t) ==
  /\ pc[t] \notin {"idle", "done"}
  /\ crashes < MaxCrashes
  /\ crashes' = crashes + 1
  /\ Return(t, "died")
  /\ then' = [then EXCEPT ![t] = "none"]
  /\ copy' = [copy EXCEPT ![t] = {}]
  /\ same' = [same EXCEPT ![t] = FALSE]
  /\ quiet' = [quiet EXCEPT ![t] = FALSE]
  /\ held' = [held EXCEPT ![t] = 0]
  /\ due' = [due EXCEPT ![t] = 0]
  /\ robbed' = [robbed EXCEPT ![t] = FALSE]
  /\ UNCHANGED <<maker, age, there, file, taken>>

Tick ==
  /\ \A p \in Procs : pc[p] \in UnderLock => held[p] < due[p]
  /\ age' = IF maker # None /\ age <= Stale THEN age + 1 ELSE age
  /\ held' = [p \in Procs |-> IF pc[p] \in UnderLock THEN held[p] + 1 ELSE held[p]]
  /\ UNCHANGED <<maker, due, robbed, filevars, callvars, pc, copy, crashes>>

Once(t) ==
  \/ Stat(t) \/ StatMissing(t) \/ Already(t) \/ Read(t) \/ Prepare(t) \/ TooLong(t)
  \/ Restat(t) \/ Changed(t) \/ Rename(t) \/ Fails(t) \/ Release(t)

Step(t) ==
  \/ Lock(t, "stat") \/ FindsStale(t) \/ Steals(t) \/ LockTimesOut(t)
  \/ Once(t) \/ Confirm(t) \/ Unconfirmed(t)

Claude(c) ==
  \/ ClaudeBegins(c) \/ Lock(c, "read") \/ FindsStale(c) \/ Steals(c) \/ ClaudeSkipsLock(c)
  \/ ClaudeReads(c) \/ ClaudeWrites(c) \/ ClaudeReleases(c)

Next ==
  \/ \E t \in Trusters : Begin(t) \/ Refuse(t) \/ Step(t) \/ Crash(t)
  \/ \E c \in Claudes : Claude(c)
  \/ Tick

Spec == Init /\ [][Next]_vars

\* A call runs; claude and the clock may stop.
FairSpec == Spec /\ \A t \in Trusters : WF_vars(Step(t))

-----------------------------------------------------------------------------
TypeOK ==
  /\ there \in BOOLEAN
  /\ file \subseteq Inside \cup Claudes
  /\ maker \in Procs \cup {None}
  /\ age \in 0..(Stale + 1)
  /\ pc \in [Procs -> PCs]
  /\ held \in [Procs -> Nat]
  /\ due \in [Procs -> Nat]
  /\ copy \in [Procs -> SUBSET (Inside \cup Claudes)]
  /\ project \in [Trusters -> Inside \cup {None}]
  /\ same \in [Trusters -> BOOLEAN]
  /\ attempt \in [Trusters -> 0..MaxAttempts]
  /\ then \in [Trusters -> {"none", "retry", "confirm", "already", "missing"}]
  /\ result \in [Trusters -> Results]
  /\ quiet \in [Procs -> BOOLEAN]
  /\ robbed \in [Procs -> BOOLEAN]
  /\ taken \in [Trusters -> BOOLEAN]
  /\ crashes \in 0..MaxCrashes

\* "so other keys and other writers' edits made under the lock survive"
\* (markTrusted): a trust write drops no edit, but for two cases: somebody wrote
\* outside the lock between its second stat and its rename, or its fresh lock was
\* removed by another, who released a lock it had itself lost, or stole one it had
\* found stale before.
LosesNothing ==
  [][\A t \in Trusters : Rename(t) /\ quiet[t] /\ ~robbed[t] => file \subseteq file']_vars

\* "A write that cannot be confirmed afterwards is retried" (markTrusted): trust
\* that was found in the file stays there, until a write outside the lock undoes it.
TrustedStays == \A t \in Trusters : Vouches(t) => project[t] \in file \/ taken[t]

\* A call comes back, however often others get in its way.
CallsEnd == \A t \in Trusters : (pc[t] = "lock") ~> (pc[t] = "done")
=============================================================================
