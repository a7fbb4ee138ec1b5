------------------------------- MODULE Fleet -------------------------------
(***************************************************************************)
(* The agents view's files under ~/.claude/jobs, fleet.go: the pin set,    *)
(* written under the directory lock; the two order files of a session,     *)
(* written one after the other and neither at once; and the state.json of  *)
(* a session, which RenameJobState and SetJobPermissionMode (permission.go)*)
(* read, change and replace without a lock, as the daemon does.  Messages  *)
(* are addressed to sessions by what these files and the roster say of     *)
(* them.                                                                   *)
(*                                                                         *)
(* The lock is LockService.  A sort key is an integer number of grid       *)
(* steps, Unit of them to 1.0: the midpoint of two keys is rounded to a    *)
(* step, to the even one when it falls between two, as a float64 is when   *)
(* its precision is spent.                                                 *)
(***************************************************************************)
EXTENDS Integers, Address

CONSTANTS
  Callers,    \* processes that call pin_session, reorder_session, ...
  Sids,       \* the session ids
  StartedAt,  \* the time a session was started, in grid steps
  Unit,       \* grid steps to 1.0
  Unset,      \* not a key: an order file that is absent, or empty while it is written
  Names,      \* the display names that sessions and mailboxes are given
  Titles,     \* those of them that calls of rename give to sessions
  Refs,       \* the strings messages are addressed to
  Concerns,   \* bound: what the calls of a behaviour are about, "pins", "order" or "state"
  MaxCalls,   \* bound: calls in a behaviour
  MaxEvents   \* bound: sessions that start, exit and are removed, mailboxes that are made

ASSUME FleetAssumption ==
  /\ Unit \in Nat \ {0}
  /\ HexDigits \subseteq Int
  /\ IsFiniteSet(Sids)
  /\ \A s \in Sids : s \in Seq(HexDigits) /\ Len(s) = SidLen
  /\ \A ref \in Refs : ref \in Seq(Range(ref))
  /\ StartedAt \in [Sids -> Int]
  /\ \A s, t \in Sids : Short(s) = Short(t) => s = t
  /\ MaxCalls \in Nat /\ MaxEvents \in Nat

VARIABLES
  about,       \* what the calls of this behaviour are about: the three share no file
  roster,      \* the sessions that run
  listed,      \* the sessions the agents view has, and job state for
  mailboxes,   \* MailboxNames
  state,       \* state.json: name, nameSource, and the launch flags for name and mode
  pins,        \* pins.json
  holders,     \* LockService, of pins.json
  order,       \* the order files
  stateOrder,  \* the stateOrder files
  pc,          \* where a call is
  op,          \* what it was called with
  rows,        \* the sessions it has from the roster
  todo,        \* those whose key it has still to read
  keys,        \* the sort keys it has read
  newVal,      \* the key it writes
  seenPins,    \* the pin set it has read
  seenState,   \* the state.json it has read
  calm,        \* no other call wrote an order file since it began
  calls,       \* how many calls there were
  events       \* how many events there were

view == <<about, roster, listed, mailboxes>>
orders == <<order, stateOrder>>
reordering == <<rows, todo, keys, newVal>>
vars == <<view, state, pins, holders, orders, pc, op, reordering, seenPins, seenState, calm, calls, events>>

Lock == INSTANCE LockService WITH Procs <- Callers

NoName == <<>>
NoOp == [kind |-> "none", sid |-> <<>>, arg |-> 0, text |-> NoName]
NoState == [name |-> NoName, user |-> FALSE, flag |-> NoName, mode |-> 0]

Init ==
  /\ about \in Concerns
  /\ roster = Sids
  /\ listed = Sids
  /\ mailboxes = {}
  /\ \E n \in {NoName} \cup IF about = "state" THEN Titles ELSE {} :
       state = [s \in Sids |-> [NoState EXCEPT !.name = n, !.flag = n]]
  /\ pins = {}
  /\ holders = {}
  /\ order = [s \in Sids |-> Unset]
  /\ stateOrder = [s \in Sids |-> Unset]
  /\ pc = [c \in Callers |-> "idle"]
  /\ op = [c \in Callers |-> NoOp]
  /\ rows = [c \in Callers |-> {}]
  /\ todo = [c \in Callers |-> {}]
  /\ keys = [c \in Callers |-> StartedAt]
  /\ newVal = [c \in Callers |-> 0]
  /\ seenPins = [c \in Callers |-> {}]
  /\ seenState = [c \in Callers |-> NoState]
  /\ calm = [c \in Callers |-> FALSE]
  /\ calls = 0
  /\ events = 0

Goto(c, l) == pc' = [pc EXCEPT ![c] = l]
Target(c) == op[c].sid

\* A call begins at l; a call is over, and what it knew no longer matters.
Call(c, concern, l, o) ==
  /\ about = concern
  /\ pc[c] = "idle"
  /\ calls < MaxCalls
  /\ calls' = calls + 1
  /\ op' = [op EXCEPT ![c] = o]
  /\ Goto(c, l)

Return(c) ==
  /\ Goto(c, "idle")
  /\ op' = [op EXCEPT ![c] = NoOp]

-----------------------------------------------------------------------------
(* Pin. *)

pinUnchanged == <<view, state, orders, reordering, seenState, calm, events>>

Pin(c) ==
  /\ \E s \in Sids, pinned \in {"pin", "unpin"} : Call(c, "pins", "lock", [NoOp EXCEPT !.kind = pinned, !.sid = s])
  /\ UNCHANGED <<pinUnchanged, pins, holders, seenPins>>

\* Mutant of AcquireLock: the lock is not waited for.
AcquireNone(c) == holders' = holders \cup {c}

AcquireLock(c) == Lock!Grant(c)

Locks(c) ==
  /\ pc[c] = "lock"
  /\ AcquireLock(c)
  /\ Goto(c, "readpins")
  /\ UNCHANGED <<pinUnchanged, pins, op, seenPins, calls>>

\* The wait for the lock ends without it.
LockFails(c) ==
  /\ pc[c] = "lock"
  /\ Return(c)
  /\ UNCHANGED <<pinUnchanged, pins, holders, seenPins, calls>>

InDesiredState(c) == (Target(c) \in pins) = (op[c].kind = "pin")

ReadPins(c) ==
  /\ pc[c] = "readpins"
  /\ ~InDesiredState(c)
  /\ seenPins' = [seenPins EXCEPT ![c] = pins]
  /\ Goto(c, "writepins")
  /\ UNCHANGED <<pinUnchanged, pins, holders, op, calls>>

WritePins(c) ==
  /\ pc[c] = "writepins"
  /\ pins' = IF op[c].kind = "pin" THEN seenPins[c] \cup {Target(c)} ELSE seenPins[c] \ {Target(c)}
  /\ seenPins' = [seenPins EXCEPT ![c] = {}]
  /\ Goto(c, "release")
  /\ UNCHANGED <<pinUnchanged, holders, op, calls>>

\* Nothing is to be done, or it fails; then, and after a write, the lock is released.
ReleaseLock(c) ==
  /\ pc[c] \in {"readpins", "writepins", "release"}
  /\ Lock!Release(c)
  /\ Return(c)
  /\ seenPins' = [seenPins EXCEPT ![c] = {}]
  /\ UNCHANGED <<pinUnchanged, pins, calls>>

-----------------------------------------------------------------------------
(* Reorder. *)

orderUnchanged == <<view, state, pins, holders, seenPins, seenState, events>>

\* op:list: the roster as it is now.
Reorder(c) ==
  /\ \E s \in roster, to \in {<<"up", 0>>, <<"down", 0>>} \cup ({"at"} \X (0..Cardinality(roster))) :
       Call(c, "order", "key", [NoOp EXCEPT !.kind = to[1], !.sid = s, !.arg = to[2]])
  /\ rows' = [rows EXCEPT ![c] = roster]
  /\ todo' = [todo EXCEPT ![c] = roster]
  /\ calm' = [calm EXCEPT ![c] = TRUE]
  /\ UNCHANGED <<orderUnchanged, orders, keys, newVal>>

\* sortOrder ?? createdAt
Eff(s) == IF order[s] = Unset THEN StartedAt[s] ELSE order[s]

ReadKey(c) ==
  /\ pc[c] = "key"
  /\ todo[c] # {}
  /\ LET s == The(todo[c])
     IN  /\ keys' = [keys EXCEPT ![c][s] = Eff(s)]
         /\ todo' = [todo EXCEPT ![c] = @ \ {s}]
  /\ UNCHANGED <<orderUnchanged, orders, pc, op, rows, newVal, calm, calls>>

Smaller(a, b) == \E i \in 1..ShortLen : a[i] < b[i] /\ \A j \in 1..(i - 1) : a[j] = b[j]

Before(key, s, t) == key[s] < key[t] \/ (key[s] = key[t] /\ Smaller(Short(s), Short(t)))

\* The midpoint, to the nearest step, or the even one of two.
Midpoint(a, b) ==
  LET half == (a + b) \div 2
  IN  IF (a + b) % 2 = 0 THEN half ELSE half + (half % 2)

Clamp(n, last) == IF n < 0 THEN 0 ELSE IF n > last THEN last ELSE n

\* The slot of s among the sessions of S: how many of the others come before it.
Rank(key, S, s) == Cardinality({t \in S \ {s} : Before(key, t, s)})

Cur(c) == Rank(keys[c], rows[c], Target(c))

Desired(c, cur) ==
  Clamp(CASE op[c].kind = "up" -> cur - 1 [] op[c].kind = "down" -> cur + 1 [] OTHER -> op[c].arg,
        Cardinality(rows[c]) - 1)

\* Mutant of Rest: the neighbours are looked up with the session among them.
RestAll(S, s) == S

Rest(S, s) == S \ {s}

\* A key between the neighbours at the slot, or one past the only one.
KeyAt(c, desired) ==
  LET rest == Rest(rows[c], Target(c))
      key(slot) == keys[c][The({t \in rest : Rank(keys[c], rest, t) = slot})]
  IN  IF desired = 0 THEN key(0) - Unit
      ELSE IF desired > Cardinality(rows[c]) - 2 THEN key(desired - 1) + Unit
      ELSE Midpoint(key(desired - 1), key(desired))

Place(c) ==
  /\ pc[c] = "key"
  /\ todo[c] = {}
  /\ Desired(c, Cur(c)) # Cur(c)
  /\ newVal' = [newVal EXCEPT ![c] = KeyAt(c, Desired(c, Cur(c)))]
  /\ Goto(c, "order")
  /\ UNCHANGED <<orderUnchanged, orders, op, rows, todo, keys, calm, calls>>

\* What a call knew of the roster and the keys.
ForgetKeys(c) ==
  /\ rows' = [rows EXCEPT ![c] = {}]
  /\ todo' = [todo EXCEPT ![c] = {}]
  /\ keys' = [keys EXCEPT ![c] = StartedAt]
  /\ newVal' = [newVal EXCEPT ![c] = 0]

\* The session is at the slot already, or a write fails.
StopReorder(c) ==
  /\ \/ pc[c] = "key" /\ todo[c] = {} /\ Desired(c, Cur(c)) = Cur(c)
     \/ pc[c] \in {"order", "fill", "stateOrder", "stateFill"}
  /\ Return(c)
  /\ ForgetKeys(c)
  /\ calm' = [calm EXCEPT ![c] = FALSE]
  /\ UNCHANGED <<orderUnchanged, orders, calls>>

Disturb(c) == calm' = [d \in Callers |-> calm[d] /\ d = c]

\* os.WriteFile empties the file before it writes it.
WriteOrder(c) ==
  \/ /\ pc[c] = "order"
     /\ order' = [order EXCEPT ![Target(c)] = Unset]
     /\ Goto(c, "fill")
  \/ /\ pc[c] = "fill"
     /\ order' = [order EXCEPT ![Target(c)] = newVal[c]]
     /\ Goto(c, "stateOrder")

WriteStateOrder(c) ==
  /\ pc[c] = "stateOrder"
  /\ stateOrder' = [stateOrder EXCEPT ![Target(c)] = Unset]
  /\ Goto(c, "stateFill")

Write(c) ==
  /\ \/ WriteOrder(c) /\ UNCHANGED stateOrder
     \/ WriteStateOrder(c) /\ UNCHANGED order
  /\ Disturb(c)
  /\ UNCHANGED <<orderUnchanged, op, reordering, calls>>

WriteLast(c) ==
  /\ pc[c] = "stateFill"
  /\ stateOrder' = [stateOrder EXCEPT ![Target(c)] = newVal[c]]
  /\ Return(c)
  /\ ForgetKeys(c)
  /\ calm' = [d \in Callers |-> FALSE]
  /\ UNCHANGED <<orderUnchanged, order, calls>>

-----------------------------------------------------------------------------
(* RenameJobState and SetJobPermissionMode; the daemon. *)

stateUnchanged == <<view, pins, holders, orders, reordering, seenPins, calm>>

Edit(c) ==
  /\ \E s \in Sids : \/ \E n \in Titles : Call(c, "state", "readstate", [NoOp EXCEPT !.kind = "rename", !.sid = s, !.text = n])
                     \/ Call(c, "state", "readstate", [NoOp EXCEPT !.kind = "mode", !.sid = s, !.arg = 1])
  /\ UNCHANGED <<stateUnchanged, state, seenState, events>>

ReadState(c) ==
  /\ pc[c] = "readstate"
  /\ Target(c) \in listed
  /\ seenState' = [seenState EXCEPT ![c] = state[Target(c)]]
  /\ Goto(c, "writestate")
  /\ UNCHANGED <<stateUnchanged, state, op, calls, events>>

\* Mutant of Renamed: the launch flags keep the old name.
RenamedNameOnly(st, title) == [st EXCEPT !.name = title, !.user = TRUE]

\* nameSource is the user, and a --name among the launch flags follows.
Renamed(st, title) ==
  [st EXCEPT !.name = title, !.user = TRUE,
             !.flag = IF @ = NoName THEN NoName ELSE title]

Edited(c) ==
  IF op[c].kind = "rename" THEN Renamed(seenState[c], op[c].text)
  ELSE [seenState[c] EXCEPT !.mode = op[c].arg]

WriteState(c) ==
  /\ pc[c] = "writestate"
  /\ Target(c) \in listed
  /\ state' = [state EXCEPT ![Target(c)] = Edited(c)]
  /\ seenState' = [seenState EXCEPT ![c] = NoState]
  /\ Return(c)
  /\ UNCHANGED <<stateUnchanged, calls, events>>

\* There is no state.json, or it cannot be read or written.
EditFails(c) ==
  /\ pc[c] \in {"readstate", "writestate"}
  /\ seenState' = [seenState EXCEPT ![c] = NoState]
  /\ Return(c)
  /\ UNCHANGED <<stateUnchanged, state, calls, events>>

Event ==
  /\ about = "state"
  /\ events < MaxEvents
  /\ events' = events + 1
  /\ UNCHANGED <<pins, holders, orders, pc, op, reordering, seenPins, seenState, calm, calls>>

\* The daemon names a session nobody has named; a worker starts again with its flags.
AutoName(s) ==
  /\ s \in listed /\ ~state[s].user /\ state[s].name = NoName
  /\ \E n \in Titles : state' = [state EXCEPT ![s].name = n]
  /\ Event
  /\ UNCHANGED view

Respawn(s) ==
  /\ s \in listed /\ state[s].flag # NoName
  /\ state' = [state EXCEPT ![s].name = state[s].flag]
  /\ Event
  /\ UNCHANGED view

-----------------------------------------------------------------------------
(* What the agents view shows, and who is addressed by it. *)

Exit(s) ==
  /\ s \in roster
  /\ roster' = roster \ {s}
  /\ Event
  /\ UNCHANGED <<about, listed, mailboxes, state>>

\* claude rm: the transcript stays.
ClaudeRm(s) ==
  /\ s \in listed
  /\ listed' = listed \ {s}
  /\ Event
  /\ UNCHANGED <<about, roster, mailboxes, state>>

CreateMailbox(name) ==
  /\ ValidateMailboxName(name)
  /\ mailboxes' = mailboxes \cup {name}
  /\ Event
  /\ UNCHANGED <<about, roster, listed, state>>

\* What List returns when the daemon answers and when the CLI does.  A name is what
\* the CLI's agents view says, being alive is what the daemon's roster says; with
\* neither there is an error and no list.
ListOf(daemon, cli) ==
  LET live == IF daemon THEN roster ELSE {}
      all == IF cli THEN listed ELSE {}
  IN  {[short |-> Short(s), sid |-> s, live |-> s \in live,
        name |-> IF s \in all THEN state[s].name ELSE NoName] : s \in live \cup all}

List == ListOf(TRUE, TRUE)

Resolved(ref) == ResolveTarget(ref, List, mailboxes, Sids)

Next ==
  \/ \E c \in Callers :
       \/ Pin(c) \/ Locks(c) \/ LockFails(c) \/ ReadPins(c) \/ WritePins(c) \/ ReleaseLock(c)
       \/ Reorder(c) \/ ReadKey(c) \/ Place(c) \/ StopReorder(c) \/ Write(c) \/ WriteLast(c)
       \/ Edit(c) \/ ReadState(c) \/ WriteState(c) \/ EditFails(c)
  \/ \E s \in Sids : AutoName(s) \/ Respawn(s) \/ Exit(s) \/ ClaudeRm(s)
  \/ \E name \in Names : CreateMailbox(name)

Spec == Init /\ [][Next]_vars

-----------------------------------------------------------------------------
\* "It takes a ... lock on target" (acquireLock): a call pins or unpins its session
\* in the set that is there, and undoes no pin of another call.
PinsAreKept ==
  [][\A c \in Callers : WritePins(c) =>
       pins' = IF op[c].kind = "pin" THEN pins \cup {Target(c)} ELSE pins \ {Target(c)}]_vars

\* The keys of the others are apart enough for a midpoint.
Roomy(c) ==
  \A s, t \in rows[c] \ {Target(c)} : keys[c][s] < keys[c][t] => keys[c][t] - keys[c][s] > 1

Distinct(c) == \A s, t \in rows[c] \ {Target(c)} : keys[c][s] = keys[c][t] => s = t

\* "leaving every other session untouched", "honoured in flat and state-grouped
\* views alike" (Reorder, writeOrderFiles): a reorder that nothing disturbed, among
\* keys with room between them, puts the session where it was to go.
ReorderLands ==
  [][\A c \in Callers : WriteLast(c) /\ calm[c] /\ Roomy(c) /\ Distinct(c) =>
       LET s == Target(c)
           before == Rank(keys[c], rows[c], s)
           after(file) == Rank([keys[c] EXCEPT ![s] = file[s]], rows[c], s)
       IN  after(order') = Desired(c, before) /\ after(stateOrder') = Desired(c, before)]_vars

\* "the daemon's auto-namer leaves it alone", "a daemon respawn re-applies the new
\* title" (RenameJobState): what a user named keeps its name when the daemon acts.
NameSticks ==
  [][\A s \in Sids : (AutoName(s) \/ Respawn(s)) /\ state[s].user
       => state'[s].name = state[s].name]_vars

PicksWhatIsMeant ==
  \A sessions \in {List}, ref \in Refs :
    LET target == PickTarget(ref, sessions, mailboxes)
    IN  Meant(ref, sessions, mailboxes) =
          IF target \in {Ambiguous, NotFound} THEN {} ELSE {target}

Reaches(ref, sessions) == ResolveTarget(ref, sessions, mailboxes, Sids) \ {Ambiguous, NotFound}

NamesNoSession(ref) == \A s \in listed : state[s].name # ref

NamesNoneUnlisted(ref) == \A s \in roster \ listed : ~HasPrefix(s, ref)

HalfListsAgree ==
  \A sessions \in {List}, roll \in {ListOf(TRUE, FALSE)}, shown \in {ListOf(FALSE, TRUE)} :
    \A ref \in Refs :
      /\ NamesNoSession(ref) => Reaches(ref, roll) \subseteq Reaches(ref, sessions)
      /\ NamesNoneUnlisted(ref) => Reaches(ref, shown) \subseteq Reaches(ref, sessions)

\* What a message is addressed by.
Lists == <<List, ListOf(TRUE, FALSE), ListOf(FALSE, TRUE), mailboxes>>

\* "a message is not something to silently misroute" (AmbiguousRefError): a reference
\* finds a recipient exactly when it means that one and no other.  When the CLI fails,
\* and the list has no names, one that is no session's name reaches nobody else than it
\* would; nor, when the daemon fails, does one that is no start of the id of a session
\* only the roster has.
NeverMisrouted == [][Lists' # Lists => PicksWhatIsMeant' /\ HalfListsAgree']_vars

AddressesHold ==
  /\ \A s \in List : Resolved(AddressOf(s)) = {Sess(s)}
  /\ \A m \in mailboxes : Resolved(m) \subseteq {Box(m), Ambiguous}
  /\ \A t \in Sids \ (roster \cup listed) : Resolved(t) = {Sess([sid |-> t])}

\* "Address is what a sender writes in `to` to reach this recipient again": it finds
\* the session, also one that is only a transcript, and never somebody else.
AddressReturns == [][List' # List \/ mailboxes' # mailboxes => AddressesHold']_vars
=============================================================================
