---------------------------- MODULE FleetProofs ----------------------------
(***************************************************************************)
(* Proofs about Fleet and Address, for any callers, sessions, names and    *)
(* references: no pin of another call is undone, a name a user gave sticks,*)
(* no message is misrouted, an address finds its session again, and a      *)
(* reorder lands where it was to.                                          *)
(***************************************************************************)
EXTENDS Fleet, FiniteSetTheorems, SequenceTheorems, WellFoundedInduction, TLAPS

Pinning == {"readpins", "writepins", "release"}
PCs == Pinning \cup {"idle", "lock", "key", "order", "fill", "stateOrder", "stateFill", "readstate", "writestate"}

Kinds == {"none", "pin", "unpin", "up", "down", "at", "rename", "mode"}

Ops == [kind : Kinds, sid : Sids \cup {<<>>}, arg : Int, text : Titles \cup {NoName}]

\* A call is about a session.
CallTypes ==
  /\ pc \in [Callers -> PCs] /\ op \in [Callers -> Ops]
  /\ \A c \in Callers : pc[c] # "idle" => op[c].sid \in Sids

\* What a call that has the lock has read of the pins is what there is.
PinInv ==
  /\ seenPins \in [Callers -> SUBSET Sids] /\ pins \subseteq Sids
  /\ \A c, d \in holders : c = d
  /\ \A c \in Callers : pc[c] \in Pinning => c \in holders
  /\ \A c \in Callers : pc[c] = "writepins" => seenPins[c] = pins

\* A name that a user gave is the one a worker is started with, if it is started with one.
Agrees(st) == st.user => st.flag \in {NoName, st.name}

JobStates == [name : Titles \cup {NoName}, user : BOOLEAN, flag : Titles \cup {NoName}, mode : Int]

StateInv ==
  /\ state \in [Sids -> JobStates] /\ \A s \in Sids : Agrees(state[s])
  /\ seenState \in [Callers -> JobStates] /\ \A c \in Callers : Agrees(seenState[c])

ViewInv ==
  /\ roster \subseteq Sids /\ listed \subseteq Sids
  /\ \A m \in mailboxes : ValidateMailboxName(m)

FleetInv == CallTypes /\ PinInv /\ StateInv /\ ViewInv

LEMMA NoOpType == NoOp \in Ops /\ NoOp = [kind |-> "none", sid |-> <<>>, arg |-> 0, text |-> NoName]
  BY DEF NoOp, Ops, Kinds

LEMMA FleetInvInit == Init => FleetInv
  <1> SUFFICES ASSUME Init PROVE FleetInv
    OBVIOUS
  <1>1. CallTypes
    BY NoOpType DEF Init, CallTypes, PCs
  <1>2. PinInv
    BY DEF Init, PinInv, Pinning
  <1>3. ViewInv
    BY DEF Init, ViewInv
  <1>4. StateInv
    <2>1. PICK n \in {NoName} \cup Titles :
            state = [s \in Sids |-> [NoState EXCEPT !.name = n, !.flag = n]]
      BY DEF Init
    <2> DEFINE st == [NoState EXCEPT !.name = n, !.flag = n]
    <2>2. NoState \in JobStates /\ Agrees(NoState)
      BY DEF NoState, JobStates, Agrees
    <2>3. st \in JobStates
      BY <2>2 DEF JobStates
    <2>4. Agrees(st)
      BY DEF Agrees, NoState
    <2>5. state = [s \in Sids |-> st] /\ seenState = [c \in Callers |-> NoState]
      BY <2>1 DEF Init
    <2> HIDE DEF st
    <2> QED
      BY <2>2, <2>3, <2>4, <2>5 DEF StateInv
  <1> QED
    BY <1>1, <1>2, <1>3, <1>4 DEF FleetInv

LEMMA CallTypesStep == FleetInv /\ [Next]_vars => CallTypes'
  <1> SUFFICES ASSUME FleetInv, [Next]_vars PROVE CallTypes'
    OBVIOUS
  <1>1. CallTypes
    BY DEF FleetInv
  <1> USE <1>1 DEF CallTypes
  <1>2. ASSUME NEW c \in Callers, NEW l \in PCs, pc[c] # "idle", Goto(c, l), UNCHANGED op
        PROVE  CallTypes'
    BY <1>2 DEF Goto
  <1>3. ASSUME NEW c \in Callers, Return(c)
        PROVE  CallTypes'
    BY <1>3, NoOpType DEF Return, Goto, PCs
  <1>4. ASSUME NEW c \in Callers, NEW concern, NEW l \in PCs, NEW o \in Ops, o.sid \in Sids, Call(c, concern, l, o)
        PROVE  CallTypes'
    BY <1>4 DEF Call, Goto
  <1>5. ASSUME NEW c \in Callers, Pin(c)
        PROVE  CallTypes'
    <2>1. PICK s \in Sids, k \in {"pin", "unpin"} :
            Call(c, "pins", "lock", [NoOp EXCEPT !.kind = k, !.sid = s])
      BY <1>5 DEF Pin
    <2>2. [NoOp EXCEPT !.kind = k, !.sid = s] \in Ops /\ [NoOp EXCEPT !.kind = k, !.sid = s].sid = s
      BY NoOpType DEF Ops, Kinds
    <2> QED
      BY <1>4, <2>1, <2>2 DEF PCs
  <1>6. ASSUME NEW c \in Callers, Reorder(c)
        PROVE  CallTypes'
    <2>1. roster \subseteq Sids
      BY DEF FleetInv, ViewInv
    <2>2. IsFiniteSet(roster)
      BY <2>1, FS_Subset, FleetAssumption DEF FleetAssumption
    <2>3. Cardinality(roster) \in Nat
      BY <2>2, FS_CardinalityType
    <2>4. PICK s \in roster, to \in {<<"up", 0>>, <<"down", 0>>} \cup ({"at"} \X (0..Cardinality(roster))) :
            Call(c, "order", "key", [NoOp EXCEPT !.kind = to[1], !.sid = s, !.arg = to[2]])
      BY <1>6 DEF Reorder
    <2>5. /\ [NoOp EXCEPT !.kind = to[1], !.sid = s, !.arg = to[2]] \in Ops
          /\ [NoOp EXCEPT !.kind = to[1], !.sid = s, !.arg = to[2]].sid = s
      <3>1. to[1] \in Kinds /\ to[2] \in Int
        BY <2>3 DEF Kinds
      <3>2. s \in Sids
        BY <2>1
      <3> QED
        BY <3>1, <3>2, NoOpType DEF Ops
    <2> QED
      BY <1>4, <2>1, <2>4, <2>5 DEF PCs
  <1>7. ASSUME NEW c \in Callers, Edit(c)
        PROVE  CallTypes'
    <2>1. PICK s \in Sids :
            \/ \E n \in Titles : Call(c, "state", "readstate", [NoOp EXCEPT !.kind = "rename", !.sid = s, !.text = n])
            \/ Call(c, "state", "readstate", [NoOp EXCEPT !.kind = "mode", !.sid = s, !.arg = 1])
      BY <1>7 DEF Edit
    <2>2. /\ [NoOp EXCEPT !.kind = "mode", !.sid = s, !.arg = 1] \in Ops
          /\ [NoOp EXCEPT !.kind = "mode", !.sid = s, !.arg = 1].sid = s
      <3>1. ASSUME NEW n \in Int
            PROVE  /\ [NoOp EXCEPT !.kind = "mode", !.sid = s, !.arg = n] \in Ops
                   /\ [NoOp EXCEPT !.kind = "mode", !.sid = s, !.arg = n].sid = s
        BY NoOpType DEF Ops, Kinds
      <3>2. 1 \in Int
        OBVIOUS
      <3> QED
        BY <3>1, <3>2, Zenon
    <2>3. \A n \in Titles : /\ [NoOp EXCEPT !.kind = "rename", !.sid = s, !.text = n] \in Ops
                            /\ [NoOp EXCEPT !.kind = "rename", !.sid = s, !.text = n].sid = s
      BY NoOpType DEF Ops, Kinds
    <2> QED
      BY <1>4, <2>1, <2>2, <2>3 DEF PCs
  <1>8. ASSUME NEW c \in Callers, Locks(c) \/ ReadPins(c) \/ WritePins(c) \/ Place(c) \/ Write(c) \/ ReadState(c)
        PROVE  CallTypes'
    BY <1>2, <1>8
    DEF Locks, ReadPins, WritePins, Place, Write, WriteOrder, WriteStateOrder, ReadState, PCs, Pinning
  <1>9. ASSUME NEW c \in Callers, LockFails(c) \/ ReleaseLock(c) \/ StopReorder(c) \/ WriteLast(c) \/ WriteState(c) \/ EditFails(c)
        PROVE  CallTypes'
    BY <1>3, <1>9 DEF LockFails, ReleaseLock, StopReorder, WriteLast, WriteState, EditFails
  <1>10. ASSUME UNCHANGED <<pc, op>>
         PROVE  CallTypes'
    BY <1>10
  <1> QED
    BY <1>5, <1>6, <1>7, <1>8, <1>9, <1>10
    DEF Next, vars, ReadKey, AutoName, Respawn, Exit, ClaudeRm, CreateMailbox, Event

LEMMA PinInvStep == FleetInv /\ [Next]_vars => PinInv'
  <1> SUFFICES ASSUME FleetInv, [Next]_vars PROVE PinInv'
    OBVIOUS
  <1>1. PinInv /\ pc \in [Callers -> PCs] /\ \A c \in Callers : pc[c] # "idle" => op[c].sid \in Sids
    BY DEF FleetInv, CallTypes
  <1>2. ASSUME NEW c \in Callers, NEW l, l \notin Pinning, pc' = [pc EXCEPT ![c] = l],
               UNCHANGED <<pins, holders, seenPins>>
        PROVE  PinInv'
    BY <1>1, <1>2 DEF PinInv, Pinning
  <1>3. ASSUME UNCHANGED <<pins, holders, seenPins, pc>>
        PROVE  PinInv'
    BY <1>1, <1>3 DEF PinInv
  <1>4. ASSUME NEW c \in Callers, Locks(c)
        PROVE  PinInv'
    BY <1>1, <1>4 DEF PinInv, Locks, AcquireLock, Lock!Grant, Goto, Pinning
  <1>5. ASSUME NEW c \in Callers, ReadPins(c)
        PROVE  PinInv'
    BY <1>1, <1>5 DEF PinInv, ReadPins, Goto, Pinning
  <1>6. ASSUME NEW c \in Callers, WritePins(c)
        PROVE  PinInv'
    <2>1. \A d \in Callers : pc[d] = "writepins" => d = c
      BY <1>1, <1>6 DEF PinInv, WritePins, Pinning
    <2>2. pins' \subseteq Sids
      BY <1>1, <1>6 DEF PinInv, WritePins, Target
    <2> QED
      BY <1>1, <1>6, <2>1, <2>2 DEF PinInv, WritePins, Goto, Pinning
  <1>7. ASSUME NEW c \in Callers, ReleaseLock(c)
        PROVE  PinInv'
    BY <1>1, <1>7 DEF PinInv, ReleaseLock, Lock!Release, Return, Goto, Pinning
  <1>8. ASSUME NEW c \in Callers,
               \/ Pin(c) \/ LockFails(c) \/ Reorder(c) \/ Place(c) \/ StopReorder(c) \/ Write(c)
               \/ WriteLast(c) \/ Edit(c) \/ ReadState(c) \/ WriteState(c) \/ EditFails(c)
        PROVE  PinInv'
    BY <1>2, <1>8
    DEF Pin, LockFails, Reorder, Place, StopReorder, Write, WriteOrder, WriteStateOrder, WriteLast,
        Edit, ReadState, WriteState, EditFails, Call, Goto, Return, Pinning, orderUnchanged, stateUnchanged
  <1>9. CASE UNCHANGED vars
    BY <1>3, <1>9 DEF vars
  <1> QED
    BY <1>3, <1>4, <1>5, <1>6, <1>7, <1>8, <1>9
    DEF Next, ReadKey, AutoName, Respawn, Exit, ClaudeRm, CreateMailbox, Event, orderUnchanged

LEMMA StateInvStep == FleetInv /\ [Next]_vars => StateInv'
  <1> SUFFICES ASSUME FleetInv, [Next]_vars PROVE StateInv'
    OBVIOUS
  <1>1. StateInv /\ op \in [Callers -> Ops] /\ listed \subseteq Sids
    BY DEF FleetInv, CallTypes, ViewInv
  <1>2. ASSUME UNCHANGED <<state, seenState>>
        PROVE  StateInv'
    BY <1>1, <1>2 DEF StateInv
  <1>3. NoState \in JobStates /\ Agrees(NoState)
    BY DEF NoState, NoName, JobStates, Agrees
  <1>4. ASSUME NEW c \in Callers, ReadState(c)
        PROVE  StateInv'
    BY <1>1, <1>4 DEF StateInv, ReadState
  <1>5. ASSUME NEW c \in Callers, WriteState(c)
        PROVE  StateInv'
    <2>1. Edited(c) \in JobStates /\ Agrees(Edited(c))
      <3>1. seenState[c] \in JobStates /\ Agrees(seenState[c]) /\ op[c] \in Ops
        BY <1>1 DEF StateInv
      <3> QED
        BY <3>1 DEF Edited, Renamed, JobStates, Agrees, Ops
    <2> QED
      BY <1>1, <1>3, <1>5, <2>1 DEF StateInv, WriteState
  <1>6. ASSUME NEW c \in Callers, EditFails(c)
        PROVE  StateInv'
    BY <1>1, <1>3, <1>6 DEF StateInv, EditFails
  <1>7. ASSUME NEW s \in Sids, AutoName(s)
        PROVE  StateInv'
    <2>1. PICK n \in Titles : state' = [state EXCEPT ![s].name = n]
      BY <1>7 DEF AutoName
    <2>2. state[s] \in JobStates /\ ~state[s].user
      BY <1>1, <1>7 DEF StateInv, AutoName
    <2>3. [state[s] EXCEPT !.name = n] \in JobStates /\ Agrees([state[s] EXCEPT !.name = n])
      BY <2>2 DEF JobStates, Agrees
    <2>4. state' = [state EXCEPT ![s] = [state[s] EXCEPT !.name = n]] /\ UNCHANGED seenState
      BY <1>7, <2>1 DEF AutoName, Event
    <2> QED
      BY <1>1, <2>3, <2>4 DEF StateInv
  <1>8. ASSUME NEW s \in Sids, Respawn(s)
        PROVE  StateInv'
    <2> DEFINE new == [state[s] EXCEPT !.name = state[s].flag]
    <2>1. state[s] \in JobStates
      BY <1>1 DEF StateInv
    <2>2. new \in JobStates /\ Agrees(new)
      BY <2>1 DEF JobStates, Agrees
    <2>3. state' = [state EXCEPT ![s] = new] /\ UNCHANGED seenState
      BY <1>8 DEF Respawn, Event
    <2> QED
      BY <1>1, <2>2, <2>3 DEF StateInv
  <1>9. ASSUME NEW c \in Callers,
               \/ Pin(c) \/ Locks(c) \/ LockFails(c) \/ ReadPins(c) \/ WritePins(c) \/ ReleaseLock(c)
               \/ Reorder(c) \/ ReadKey(c) \/ Place(c) \/ StopReorder(c) \/ Write(c) \/ WriteLast(c)
               \/ Edit(c)
        PROVE  UNCHANGED <<state, seenState>>
    BY <1>9
    DEF Pin, Locks, LockFails, ReadPins, WritePins, ReleaseLock, Reorder, ReadKey, Place, StopReorder,
        Write, WriteLast, Edit, pinUnchanged, orderUnchanged
  <1> QED
    BY <1>2, <1>4, <1>5, <1>6, <1>7, <1>8, <1>9 DEF Next, vars, Exit, ClaudeRm, CreateMailbox, Event

LEMMA ViewInvStep == FleetInv /\ [Next]_vars => ViewInv'
  <1> SUFFICES ASSUME FleetInv, [Next]_vars PROVE ViewInv'
    OBVIOUS
  <1>1. ViewInv
    BY DEF FleetInv
  <1>2. CASE UNCHANGED view
    BY <1>1, <1>2 DEF view, ViewInv
  <1>3. ASSUME NEW s \in Sids, Exit(s) \/ ClaudeRm(s)
        PROVE  ViewInv'
    BY <1>1, <1>3 DEF Exit, ClaudeRm, ViewInv
  <1>4. ASSUME NEW name \in Names, CreateMailbox(name)
        PROVE  ViewInv'
    BY <1>1, <1>4 DEF CreateMailbox, ViewInv
  <1> QED
    BY <1>2, <1>3, <1>4
    DEF Next, vars, Pin, Locks, LockFails, ReadPins, WritePins, ReleaseLock, Reorder, ReadKey, Place,
        StopReorder, Write, WriteLast, Edit, ReadState, WriteState, EditFails, AutoName, Respawn,
        pinUnchanged, orderUnchanged, stateUnchanged

LEMMA FleetInvHolds == Spec => []FleetInv
  <1>1. FleetInv /\ [Next]_vars => FleetInv'
    BY CallTypesStep, PinInvStep, StateInvStep, ViewInvStep DEF FleetInv
  <1> QED
    BY <1>1, FleetInvInit, PTL DEF Spec

-----------------------------------------------------------------------------
\* A call pins or unpins its session in the pin set that is there when it writes:
\* under the lock, what it has read of the set cannot have become old (SetPinned).
THEOREM FleetPinsAreKept == Spec => PinsAreKept
  <1>1. FleetInv => (\A c \in Callers : WritePins(c) =>
          pins' = IF op[c].kind = "pin" THEN pins \cup {Target(c)} ELSE pins \ {Target(c)})
    BY DEF FleetInv, PinInv, WritePins
  <1> QED
    BY <1>1, FleetInvHolds, PTL DEF Spec, PinsAreKept

\* What a user named keeps its name when the daemon names sessions and starts workers,
\* also when two calls edit one state.json and the one's edit is lost (RenameJobState).
THEOREM FleetNameSticks == Spec => NameSticks
  <1>1. FleetInv => (\A s \in Sids : (AutoName(s) \/ Respawn(s)) /\ state[s].user
                       => state'[s].name = state[s].name)
    <2> SUFFICES ASSUME FleetInv, NEW s \in Sids, AutoName(s) \/ Respawn(s), state[s].user
                 PROVE  state'[s].name = state[s].name
      OBVIOUS
    <2>1. state[s] \in JobStates /\ Agrees(state[s]) /\ state \in [Sids -> JobStates]
      BY DEF FleetInv, StateInv
    <2>2. state[s].flag # NoName /\ state' = [state EXCEPT ![s].name = state[s].flag]
      BY DEF AutoName, Respawn
    <2>3. state'[s].name = state[s].flag
      BY <2>1, <2>2 DEF JobStates
    <2> QED
      BY <2>1, <2>2, <2>3 DEF Agrees
  <1> QED
    BY <1>1, FleetInvHolds, PTL DEF Spec, NameSticks

-----------------------------------------------------------------------------
(* Ids and their beginnings.                                               *)

LEMMA Ids ==
  ASSUME NEW s \in Sids
  PROVE  /\ s \in Seq(HexDigits) /\ Len(s) = SidLen
         /\ Short(s) \in Seq(HexDigits) /\ Len(Short(s)) = ShortLen /\ Short(s) # <<>>
         /\ \A i \in 1..ShortLen : Short(s)[i] = s[i]
  <1>1. s \in Seq(HexDigits) /\ Len(s) = SidLen
    BY FleetAssumption DEF FleetAssumption
  <1>2. \A i \in 1..ShortLen : s[i] \in HexDigits
    BY <1>1, LengthsAssumption, ElementOfSeq DEF LengthsAssumption
  <1>3. /\ Short(s) \in Seq(HexDigits) /\ Len(Short(s)) = ShortLen
        /\ \A i \in 1..ShortLen : Short(s)[i] = s[i]
    BY <1>2, LengthsAssumption, SubSeqProperties DEF LengthsAssumption, Short
  <1>4. Short(s) # <<>>
    BY <1>3, LengthsAssumption DEF LengthsAssumption
  <1> QED
    BY <1>1, <1>3, <1>4

\* A whole id is the start of no other.
LEMMA WholeIds ==
  ASSUME NEW s \in Sids, NEW t \in Sids, IsPrefix(s, t)
  PROVE  s = t
  <1>1. s \in Seq(HexDigits) /\ t \in Seq(HexDigits) /\ Len(s) = SidLen /\ Len(t) = SidLen
    BY Ids
  <1>2. SubSeq(s, 1, Len(s)) = s /\ SubSeq(t, 1, Len(t)) = t
    BY <1>1, SubSeqFull
  <1> QED
    BY <1>1, <1>2 DEF IsPrefix

\* What a short id starts with, its session id starts with.
LEMMA PrefixOfShort ==
  ASSUME NEW s \in Sids, NEW ref \in Refs, HasPrefix(Short(s), ref)
  PROVE  HasPrefix(s, ref)
  <1>1. ref \in Seq(Range(ref)) /\ Len(ref) \in Nat
    BY FleetAssumption, LenProperties DEF FleetAssumption
  <1>2. Len(ref) <= ShortLen /\ SubSeq(ref, 1, Len(ref)) = SubSeq(Short(s), 1, Len(ref))
    BY Ids DEF HasPrefix, IsPrefix
  <1>3. SubSeq(Short(s), 1, Len(ref)) = SubSeq(s, 1, Len(ref))
    <2>1. \A i \in 1..Len(ref) : s[i] \in HexDigits /\ Short(s)[i] = s[i]
      BY <1>1, <1>2, Ids, LengthsAssumption, ElementOfSeq DEF LengthsAssumption
    <2>2. /\ SubSeq(s, 1, Len(ref)) \in Seq(HexDigits)
          /\ SubSeq(Short(s), 1, Len(ref)) \in Seq(HexDigits)
          /\ Len(SubSeq(s, 1, Len(ref))) = Len(ref) /\ Len(SubSeq(Short(s), 1, Len(ref))) = Len(ref)
          /\ \A i \in 1..Len(ref) : SubSeq(s, 1, Len(ref))[i] = s[i]
          /\ \A i \in 1..Len(ref) : SubSeq(Short(s), 1, Len(ref))[i] = Short(s)[i]
      BY <1>1, <2>1, SubSeqProperties
    <2> QED
      BY <2>1, <2>2, SeqEqual
  <1>4. s # <<>> /\ ShortLen < Len(s)
    BY Ids, LengthsAssumption DEF LengthsAssumption
  <1> QED
    BY <1>1, <1>2, <1>3, <1>4, LengthsAssumption DEF HasPrefix, IsPrefix, LengthsAssumption

LEMMA IdsAreHex ==
  ASSUME NEW s \in Sids
  PROVE  Hex(s) /\ Hex(Short(s))
  <1>1. ASSUME NEW q \in Seq(HexDigits)
        PROVE  Hex(q)
    BY ElementOfSeq, LenProperties DEF Hex, Range
  <1> QED
    BY <1>1, Ids

-----------------------------------------------------------------------------
(* Picking a recipient from a list.                                         *)

\* What is true of every list of sessions.
IsList(S) ==
  /\ IsFiniteSet(S)
  /\ \A s \in S : s.sid \in Sids /\ s.short = Short(s.sid)
  /\ \A s, t \in S : s.sid = t.sid => s = t

\* The rows of a list are those of the sessions it was made of.
RowsOf(S, live, all) ==
  /\ IsList(S)
  /\ \A x \in S : /\ x.sid \in live \cup all
                  /\ x.live <=> x.sid \in live
                  /\ x.name = IF x.sid \in all THEN state[x.sid].name ELSE NoName
  /\ \A s \in live \cup all : \E x \in S : x.sid = s

LEMMA Rows ==
  ASSUME NEW live \in SUBSET Sids, NEW all \in SUBSET Sids
  PROVE  RowsOf({[short |-> Short(s), sid |-> s, live |-> s \in live,
                  name |-> IF s \in all THEN state[s].name ELSE NoName] : s \in live \cup all}, live, all)
  <1> DEFINE row(s) == [short |-> Short(s), sid |-> s, live |-> s \in live,
                        name |-> IF s \in all THEN state[s].name ELSE NoName]
             S == {row(s) : s \in live \cup all}
  <1>1. IsFiniteSet(live \cup all)
    BY FS_Subset, FleetAssumption DEF FleetAssumption
  <1>2. IsFiniteSet(S)
    <2> DEFINE f == [s \in live \cup all |-> row(s)]
    <2>1. f \in Surjection(live \cup all, S)
      BY DEF Surjection
    <2> QED
      BY <1>1, <2>1, FS_Surjection
  <1>3. ASSUME NEW x \in S
        PROVE  x.sid \in live \cup all /\ x.short = Short(x.sid) /\ x = row(x.sid)
    <2>1. PICK s \in live \cup all : x = row(s)
      OBVIOUS
    <2>2. x.sid = s /\ x.short = Short(s)
      BY <2>1
    <2> QED
      BY <2>1, <2>2
  <1>4. \A s \in live \cup all : row(s) \in S /\ row(s).sid = s
    OBVIOUS
  <1>5. \A s : /\ row(s).live <=> s \in live
               /\ row(s).name = IF s \in all THEN state[s].name ELSE NoName
    OBVIOUS
  <1>6. IsList(S)
    BY <1>2, <1>3 DEF IsList
  <1> HIDE DEF row
  <1>7. \A x \in S : /\ x.sid \in live \cup all
                     /\ x.live <=> x.sid \in live
                     /\ x.name = IF x.sid \in all THEN state[x.sid].name ELSE NoName
    BY <1>3, <1>5, Zenon
  <1>8. \A s \in live \cup all : \E x \in S : x.sid = s
    BY <1>4
  <1>9. RowsOf(S, live, all)
    BY <1>6, <1>7, <1>8 DEF RowsOf
  <1> QED
    BY <1>9 DEF row

LEMMA ListRows ==
  ASSUME ViewInv
  PROVE  /\ RowsOf(List, roster, listed)
         /\ RowsOf(ListOf(TRUE, FALSE), roster, {})
         /\ RowsOf(ListOf(FALSE, TRUE), {}, listed)
  BY Rows DEF ViewInv, List, ListOf

LEMMA ListIsList == ViewInv => IsList(List)
  BY ListRows DEF RowsOf

\* One finds the candidate that stands alone, or none.
LEMMA OneFindsAlone ==
  ASSUME NEW C, IsFiniteSet(C)
  PROVE  LET alone == {s \in C : C = {s} \/ Live(C) = {s}}
         IN  \/ alone = {} /\ One(C) = Ambiguous
             \/ \E x \in C : alone = {x} /\ One(C) = Sess(x)
  <1> DEFINE alone == {s \in C : C = {s} \/ Live(C) = {s}}
  <1>1. IsFiniteSet(Live(C)) /\ Live(C) \subseteq C
    BY FS_Subset DEF Live
  <1>2. Cardinality(C) = 1 <=> \E x : C = {x}
    BY FS_Singleton
  <1>3. Cardinality(Live(C)) = 1 <=> \E x : Live(C) = {x}
    BY <1>1, FS_Singleton
  <1>4. \A x : The({x}) = x
    BY DEF The
  <1>5. CASE \E x : C = {x}
    <2>1. PICK x : C = {x}
      BY <1>5
    <2>2. One(C) = Sess(x)
      BY <1>2, <1>4, <2>1 DEF One
    <2>3. alone = {x}
      BY <2>1
    <2> QED
      BY <2>1, <2>2, <2>3
  <1>6. CASE ~(\E x : C = {x}) /\ \E x : Live(C) = {x}
    <2>1. PICK x : Live(C) = {x}
      BY <1>6
    <2>2. One(C) = Sess(x)
      BY <1>2, <1>3, <1>4, <1>6, <2>1 DEF One
    <2>3. x \in C /\ alone = {x}
      BY <1>1, <1>6, <2>1
    <2> QED
      BY <2>2, <2>3
  <1>7. CASE ~(\E x : C = {x}) /\ ~(\E x : Live(C) = {x})
    BY <1>2, <1>3, <1>7 DEF One
  <1> QED
    BY <1>5, <1>6, <1>7

\* One finds the only candidate there is.
LEMMA OneOfOne == ASSUME NEW C, NEW x, C = {x} PROVE One(C) = Sess(x)
  <1>1. Cardinality(C) = 1
    BY FS_Singleton
  <1>2. The(C) = x
    BY DEF The
  <1> QED
    BY <1>1, <1>2 DEF One

LEMMA WeightType == ASSUME NEW ref, NEW s PROVE Weight(ref, s) \in 0..4
  BY DEF Weight

\* The best matches are those of the greatest weight there is.
LEMMA BestAre ==
  ASSUME NEW ref, NEW S, NEW k \in 1..4, NEW x \in S, Weight(ref, x) = k,
         \A s \in S : Weight(ref, s) <= k
  PROVE  Best(ref, S) = {s \in S : Weight(ref, s) = k}
  BY WeightType DEF Best

LEMMA NoBest ==
  ASSUME NEW ref, NEW S, \A s \in S : Weight(ref, s) = 0
  PROVE  Best(ref, S) = {}
  BY DEF Best

\* Those that stand alone are the ones One finds.
LEMMA OneIsAlone ==
  ASSUME NEW C, IsFiniteSet(C)
  PROVE  {Sess(s) : s \in {t \in C : C = {t} \/ Live(C) = {t}}}
           = IF One(C) \in {Ambiguous, NotFound} THEN {} ELSE {One(C)}
  <1> DEFINE alone == {s \in C : C = {s} \/ Live(C) = {s}}
  <1>1. \A x : Sess(x) \notin {Ambiguous, NotFound}
    BY DEF Sess, Ambiguous, NotFound
  <1>2. \/ alone = {} /\ One(C) = Ambiguous
        \/ \E x \in C : alone = {x} /\ One(C) = Sess(x)
    BY OneFindsAlone
  <1>3. CASE alone = {} /\ One(C) = Ambiguous
    <2>1. {Sess(s) : s \in alone} = {}
      BY <1>3
    <2>2. Ambiguous \in {Ambiguous, NotFound}
      OBVIOUS
    <2> QED
      BY <1>3, <2>1, <2>2, Zenon
  <1>4. CASE \E x \in C : alone = {x} /\ One(C) = Sess(x)
    <2>1. PICK x \in C : alone = {x} /\ One(C) = Sess(x)
      BY <1>4
    <2>2. {Sess(s) : s \in {x}} = {Sess(x)}
      OBVIOUS
    <2>3. {Sess(s) : s \in alone} = {Sess(x)}
      BY <2>1, <2>2, Zenon
    <2>4. One(C) \notin {Ambiguous, NotFound}
      BY <1>1, <2>1, Zenon
    <2> QED
      BY <2>1, <2>3, <2>4, Zenon
  <1> QED
    BY <1>2, <1>3, <1>4, Zenon

\* PickTarget, looking in its order, finds what is meant, and finds it only then.
LEMMA MeantIsPicked ==
  ASSUME NEW S, IsList(S), NEW M, <<>> \notin M, NEW ref \in Refs
  PROVE  LET target == PickTarget(ref, S, M)
         IN  Meant(ref, S, M) = IF target \in {Ambiguous, NotFound} THEN {} ELSE {target}
  <1> DEFINE byShort == {s \in S : s.short = ref}
             bySID == {s \in S : s.sid = ref}
             byName == {s \in S : s.name = ref}
             byPrefix == {s \in S : HasPrefix(s.short, ref) \/ HasPrefix(s.sid, ref)}
             target == PickTarget(ref, S, M)
             found == IF target \in {Ambiguous, NotFound} THEN {} ELSE {target}
             best == Best(ref, S)
             sessions == {Sess(s) : s \in {t \in best : best = {t} \/ Live(best) = {t}}}
             heavy == \E s \in best : Weight(ref, s) > 2
             named == \E s \in best : Weight(ref, s) = 2
             boxes == {Box(m) : m \in {n \in M : n = ref /\ ~heavy /\ ~named}}
  <1>1. byPrefix = {s \in S : HasPrefix(s.sid, ref)}
    BY PrefixOfShort DEF IsList
  <1>2. IsFiniteSet(byShort) /\ IsFiniteSet(bySID) /\ IsFiniteSet(byName) /\ IsFiniteSet(byPrefix)
    BY FS_Subset DEF IsList
  <1>3. Ambiguous \in {Ambiguous, NotFound} /\ NotFound \in {Ambiguous, NotFound}
        /\ \A m : Box(m) \notin {Ambiguous, NotFound}
    BY DEF Box, Ambiguous, NotFound
  <1>4. /\ (ref \in M => heavy) => Meant(ref, S, M) = boxes \cup sessions
        /\ (ref \in M /\ ~heavy) => Meant(ref, S, M) = boxes
    BY DEF Meant
  <1>5. CASE ref = <<>>
    <2>1. \A s \in S : Weight(ref, s) = 0
      BY <1>5 DEF Weight
    <2>2. best = {}
      BY <2>1, NoBest
    <2>3. target = NotFound /\ ref \notin M
      BY <1>5 DEF PickTarget
    <2> QED
      BY <1>3, <1>4, <2>2, <2>3
  <1>6. CASE ref # <<>> /\ byShort # {}
    <2>1. target = One(byShort)
      BY <1>6 DEF PickTarget
    <2>2. PICK x \in S : Weight(ref, x) = 4
      BY <1>6 DEF Weight
    <2>3. \A s \in S : Weight(ref, s) <= 4
      BY WeightType
    <2>4. best = {s \in S : Weight(ref, s) = 4}
      BY <2>2, <2>3, BestAre
    <2>5. best = byShort
      BY <1>6, <2>4 DEF Weight
    <2>6. heavy
      BY <2>2, <2>4
    <2>7. sessions = found
      BY <1>2, <2>1, <2>5, OneIsAlone
    <2>8. boxes = {}
      BY <2>6
    <2> QED
      BY <1>4, <2>6, <2>7, <2>8
  <1>7. CASE ref # <<>> /\ byShort = {} /\ bySID # {}
    <2>1. target = One(bySID)
      BY <1>7 DEF PickTarget
    <2>2. \A s \in S : s.short # ref
      BY <1>7
    <2>3. PICK x \in S : Weight(ref, x) = 3
      BY <1>7, <2>2 DEF Weight
    <2>4. \A s \in S : Weight(ref, s) <= 3
      BY <1>7, <2>2 DEF Weight
    <2>5. best = {s \in S : Weight(ref, s) = 3}
      BY <2>3, <2>4, BestAre
    <2>6. best = bySID
      BY <1>7, <2>2, <2>5 DEF Weight
    <2>7. heavy
      BY <2>3, <2>5
    <2>8. sessions = found
      BY <1>2, <2>1, <2>6, OneIsAlone
    <2>9. boxes = {}
      BY <2>7
    <2> QED
      BY <1>4, <2>7, <2>8, <2>9
  <1>8. CASE ref # <<>> /\ byShort = {} /\ bySID = {} /\ byName # {}
    <2>1. target = IF ref \in M THEN Ambiguous ELSE One(byName)
      BY <1>8 DEF PickTarget
    <2>2. \A s \in S : s.short # ref /\ s.sid # ref
      BY <1>8
    <2>3. PICK x \in S : Weight(ref, x) = 2
      BY <1>8, <2>2 DEF Weight
    <2>4. \A s \in S : Weight(ref, s) <= 2
      BY <1>8, <2>2 DEF Weight
    <2>5. best = {s \in S : Weight(ref, s) = 2}
      BY <2>3, <2>4, BestAre
    <2>6. best = byName
      BY <1>8, <2>2, <2>5 DEF Weight
    <2>7. named /\ ~heavy /\ boxes = {}
      BY <2>3, <2>5
    <2>8. sessions = IF One(byName) \in {Ambiguous, NotFound} THEN {} ELSE {One(byName)}
      BY <1>2, <2>6, OneIsAlone
    <2>9. CASE ref \in M
      BY <1>3, <1>4, <2>1, <2>7, <2>9
    <2>10. CASE ref \notin M
      BY <1>4, <2>1, <2>7, <2>8, <2>10
    <2> QED
      BY <2>9, <2>10
  <1>9. ASSUME ref # <<>>, byShort = {}, bySID = {}, byName = {}
        PROVE  /\ \A s \in S : Weight(ref, s) = IF HasPrefix(s.sid, ref) THEN 1 ELSE 0
               /\ ~heavy /\ ~named
    <2>1. \A s \in S : Weight(ref, s) = IF HasPrefix(s.sid, ref) THEN 1 ELSE 0
      BY <1>9 DEF Weight
    <2>2. best \subseteq S
      BY DEF Best
    <2> QED
      BY <2>1, <2>2
  <1>10. CASE ref # <<>> /\ byShort = {} /\ bySID = {} /\ byName = {} /\ ref \in M
    <2>1. target = Box(ref)
      BY <1>10 DEF PickTarget
    <2>2. boxes = {Box(ref)}
      BY <1>9, <1>10
    <2> QED
      BY <1>3, <1>4, <1>9, <1>10, <2>1, <2>2
  <1>11. CASE ref # <<>> /\ byShort = {} /\ bySID = {} /\ byName = {} /\ ref \notin M /\ byPrefix # {}
    <2>1. target = One(byPrefix)
      BY <1>11 DEF PickTarget
    <2>2. PICK x \in S : Weight(ref, x) = 1
      BY <1>1, <1>9, <1>11
    <2>3. \A s \in S : Weight(ref, s) <= 1
      BY <1>9, <1>11
    <2>4. best = {s \in S : Weight(ref, s) = 1}
      BY <2>2, <2>3, BestAre
    <2>5. best = byPrefix
      BY <1>1, <1>9, <1>11, <2>4
    <2>6. sessions = found
      BY <1>2, <2>1, <2>5, OneIsAlone
    <2>7. boxes = {}
      BY <1>11
    <2> QED
      BY <1>4, <1>11, <2>6, <2>7
  <1>12. CASE ref # <<>> /\ byShort = {} /\ bySID = {} /\ byName = {} /\ ref \notin M /\ byPrefix = {}
    <2>1. target = NotFound
      BY <1>12 DEF PickTarget
    <2>2. best = {}
      BY <1>1, <1>9, <1>12, NoBest
    <2>3. boxes = {}
      BY <1>12
    <2> QED
      BY <1>3, <1>4, <1>12, <2>1, <2>2, <2>3
  <1> QED
    BY <1>5, <1>6, <1>7, <1>8, <1>10, <1>11, <1>12

LEMMA NoEmptyName == ViewInv => <<>> \notin mailboxes
  BY DEF ViewInv, ValidateMailboxName

-----------------------------------------------------------------------------
(* The lists there are when the CLI or the daemon fails. *)

\* The start of two ids, when it is a short id or more, is the start of one.
LEMMA LongStart ==
  ASSUME NEW s \in Sids, NEW t \in Sids, NEW ref \in Refs, Len(ref) >= ShortLen,
         IsPrefix(ref, s), IsPrefix(ref, t)
  PROVE  s = t
  <1>1. ref \in Seq(Range(ref)) /\ Len(ref) \in Nat
    BY FleetAssumption, LenProperties DEF FleetAssumption
  <1>2. SubSeq(s, 1, Len(ref)) = SubSeq(t, 1, Len(ref)) /\ Len(ref) <= SidLen
    BY Ids DEF IsPrefix
  <1>3. ASSUME NEW u \in Sids
        PROVE  \A i \in 1..ShortLen : SubSeq(u, 1, Len(ref))[i] = u[i]
    <2>1. \A i \in 1..Len(ref) : u[i] \in HexDigits
      BY <1>1, <1>2, Ids, ElementOfSeq
    <2> QED
      BY <1>1, <2>1, SubSeqProperties, LengthsAssumption DEF LengthsAssumption
  <1>4. \A i \in 1..ShortLen : s[i] = t[i]
    BY <1>2, <1>3, Zenon
  <1>5. Short(s) = Short(t)
    BY <1>4, Ids, SeqEqual
  <1> QED
    BY <1>5, FleetAssumption DEF FleetAssumption

\* Whatever matches by an id, the reference starts that id.
LEMMA MatchIsStart ==
  ASSUME NEW S, IsList(S), NEW x \in S, NEW ref \in Refs, ref # <<>>,
         x.short = ref \/ x.sid = ref \/ HasPrefix(x.short, ref) \/ HasPrefix(x.sid, ref)
  PROVE  HasPrefix(x.sid, ref)
  <1>1. x.sid \in Sids /\ x.short = Short(x.sid)
    BY DEF IsList
  <1>2. IsPrefix(ref, ref)
    BY FleetAssumption, LenProperties DEF FleetAssumption, IsPrefix
  <1> QED
    BY <1>1, <1>2, PrefixOfShort DEF HasPrefix

LEMMA StartIsHex ==
  ASSUME NEW s \in Sids, NEW ref \in Refs, IsPrefix(ref, s)
  PROVE  Hex(ref)
  <1>1. ref \in Seq(Range(ref)) /\ Len(ref) \in Nat /\ DOMAIN ref = 1..Len(ref)
    BY FleetAssumption, LenProperties DEF FleetAssumption
  <1>2. Len(ref) <= SidLen /\ SubSeq(ref, 1, Len(ref)) = SubSeq(s, 1, Len(ref))
    BY Ids DEF IsPrefix
  <1>3. \A i \in 1..Len(ref) : s[i] \in HexDigits
    BY <1>1, <1>2, Ids, ElementOfSeq
  <1>4. \A i \in 1..Len(ref) : SubSeq(s, 1, Len(ref))[i] = s[i]
    BY <1>1, <1>3, SubSeqProperties
  <1>5. SubSeq(ref, 1, Len(ref)) = ref
    BY <1>1, SubSeqFull
  <1>6. \A i \in 1..Len(ref) : ref[i] \in HexDigits
    BY <1>2, <1>3, <1>4, <1>5
  <1> QED
    BY <1>1, <1>6 DEF Hex, Range

\* A short id or more finds its session in every list and in none, unless it is a name.
LEMMA LongStartFinds ==
  ASSUME NEW S, IsList(S), NEW M, NEW ref \in Refs, ref # <<>>, ref \notin M,
         \A s \in S : s.name # ref,
         NEW t \in Sids, t \in FindOrphan(ref, Sids)
  PROVE  ResolveTarget(ref, S, M, Sids) = {Sess([sid |-> t])}
  <1> DEFINE byShort == {s \in S : s.short = ref}
             bySID == {s \in S : s.sid = ref}
             byPrefix == {s \in S : HasPrefix(s.short, ref) \/ HasPrefix(s.sid, ref)}
  <1>1. Len(ref) >= ShortLen /\ IsPrefix(ref, t)
    BY DEF FindOrphan
  <1>2. ASSUME NEW x \in byShort \cup bySID \cup byPrefix
        PROVE  x \in S /\ x.sid = t
    <2>1. HasPrefix(x.sid, ref) /\ x.sid \in Sids
      BY MatchIsStart DEF IsList
    <2> QED
      BY <1>1, <2>1, LongStart DEF HasPrefix
  <1>3. {s \in S : s.name = ref} = {}
    OBVIOUS
  <1>4. FindOrphan(ref, Sids) = {t}
    BY <1>1, LongStart DEF FindOrphan
  <1>5. \A x : x.sid = t => Sess(x) = Sess([sid |-> t])
    BY DEF Sess
  <1>6. ASSUME NEW x \in S, x.sid = t
        PROVE  ResolveTarget(ref, S, M, Sids) = {Sess(x)}
    <2>1. \A y \in S : y.sid = t => y = x
      BY <1>6 DEF IsList
    <2>2. x \in byPrefix
      BY <1>1, <1>6, Ids, LengthsAssumption DEF HasPrefix, LengthsAssumption
    <2>3. byPrefix = {x} /\ (byShort # {} => byShort = {x}) /\ (bySID # {} => bySID = {x})
      BY <1>2, <2>1, <2>2
    <2>4. PickTarget(ref, S, M) = Sess(x)
      BY <1>3, <2>3, OneOfOne DEF PickTarget
    <2> QED
      BY <2>4 DEF ResolveTarget, Sess, NotFound
  <1>7. CASE \E x \in S : x.sid = t
    BY <1>5, <1>6, <1>7
  <1>8. CASE ~ \E x \in S : x.sid = t
    <2>1. byShort = {} /\ bySID = {} /\ byPrefix = {}
      BY <1>2, <1>8
    <2>2. PickTarget(ref, S, M) = NotFound
      BY <1>3, <2>1 DEF PickTarget
    <2>3. {Sess([sid |-> u]) : u \in {t}} = {Sess([sid |-> t])}
      OBVIOUS
    <2> QED
      BY <1>4, <2>2, <2>3 DEF ResolveTarget
  <1> QED
    BY <1>7, <1>8

\* A list that is refused, or has the same pick, reaches nobody else.
LEMMA SamePick ==
  ASSUME NEW S, NEW F, NEW ref, NEW p, NEW q, p = PickTarget(ref, S, mailboxes), q = PickTarget(ref, F, mailboxes),
         p = Ambiguous \/ p = q
  PROVE  Reaches(ref, S) \subseteq Reaches(ref, F)
  BY DEF Reaches, ResolveTarget, Ambiguous, NotFound

LEMMA EmptyReaches == ASSUME NEW S PROVE Reaches(<<>>, S) = {}
  <1>1. FindOrphan(<<>>, Sids) = {}
    BY LengthsAssumption DEF FindOrphan, LengthsAssumption
  <1>2. PickTarget(<<>>, S, mailboxes) = NotFound
    BY DEF PickTarget
  <1> QED
    BY <1>1, <1>2 DEF Reaches, ResolveTarget

\* Without the names, a reference that is no session's name reaches nobody else: the
\* sessions of the roster are the ones that run, so the only one of them that has it
\* for a start is the only one that runs in the whole list.
LEMMA RollAgrees ==
  ASSUME ViewInv, NEW ref \in Refs, NamesNoSession(ref)
  PROVE  Reaches(ref, ListOf(TRUE, FALSE)) \subseteq Reaches(ref, List)
  <1> DEFINE R == ListOf(TRUE, FALSE)
             starts(S) == {s \in S : HasPrefix(s.short, ref) \/ HasPrefix(s.sid, ref)}
  <1>1. RowsOf(List, roster, listed) /\ RowsOf(R, roster, {})
    BY ListRows
  <1> HIDE DEF R
  <1>2. IsList(List) /\ IsList(R)
    BY <1>1 DEF RowsOf
  <1>3. CASE ref = <<>>
    BY <1>3, EmptyReaches DEF R
  <1>4. ASSUME ref # <<>>
        PROVE  (\A x \in List : x.name # ref) /\ (\A x \in R : x.name # ref)
    BY <1>1, <1>4 DEF RowsOf, NamesNoSession, NoName
  <1>5. CASE ref # <<>> /\ ref \in mailboxes
    <2>1. ValidateMailboxName(ref) /\ Len(ref) # SidLen
      BY <1>5, LengthsAssumption DEF ViewInv, ValidateMailboxName, LengthsAssumption
    <2>2. ASSUME NEW S, IsList(S), \A x \in S : x.name # ref
          PROVE  PickTarget(ref, S, mailboxes) = Box(ref)
      <3>1. {s \in S : s.short = ref} = {} /\ {s \in S : s.sid = ref} = {} /\ {s \in S : s.name = ref} = {}
        BY <2>1, <2>2, Ids, IdsAreHex DEF IsList, ValidateMailboxName
      <3> QED
        BY <1>5, <3>1 DEF PickTarget
    <2>3. PickTarget(ref, R, mailboxes) = PickTarget(ref, List, mailboxes)
      BY <1>2, <1>4, <1>5, <2>2, Zenon
    <2> QED
      BY <2>3, SamePick DEF R
  <1>6. CASE ref # <<>> /\ ref \notin mailboxes /\ FindOrphan(ref, Sids) # {}
    <2>1. PICK t \in Sids : t \in FindOrphan(ref, Sids)
      BY <1>6 DEF FindOrphan
    <2>2. ResolveTarget(ref, R, mailboxes, Sids) = ResolveTarget(ref, List, mailboxes, Sids)
      <3>1. ResolveTarget(ref, R, mailboxes, Sids) = {Sess([sid |-> t])}
        BY <1>2, <1>4, <1>6, <2>1, LongStartFinds
      <3>2. ResolveTarget(ref, List, mailboxes, Sids) = {Sess([sid |-> t])}
        BY <1>2, <1>4, <1>6, <2>1, LongStartFinds
      <3> QED
        BY <3>1, <3>2
    <2> QED
      BY <2>2 DEF Reaches, R
  <1>7. CASE ref # <<>> /\ ref \notin mailboxes /\ FindOrphan(ref, Sids) = {}
    <2>1. ASSUME NEW S, IsList(S), \A x \in S : x.name # ref
          PROVE  PickTarget(ref, S, mailboxes) = IF starts(S) # {} THEN One(starts(S)) ELSE NotFound
      <3>1. ASSUME NEW x \in S, x.short = ref \/ x.sid = ref
            PROVE  x.sid \in FindOrphan(ref, Sids)
        <4>1. HasPrefix(x.sid, ref) /\ x.sid \in Sids /\ x.short = Short(x.sid)
          BY <1>7, <2>1, <3>1, MatchIsStart DEF IsList
        <4>2. Len(ref) >= ShortLen
          BY <3>1, <4>1, Ids, LengthsAssumption DEF LengthsAssumption
        <4> QED
          BY <4>1, <4>2, StartIsHex DEF FindOrphan, HasPrefix
      <3>2. {s \in S : s.short = ref} = {} /\ {s \in S : s.sid = ref} = {} /\ {s \in S : s.name = ref} = {}
        BY <1>7, <2>1, <3>1
      <3> QED
        BY <1>7, <3>2 DEF PickTarget
    <2>2. ASSUME NEW S, NEW live, NEW all, RowsOf(S, live, all)
          PROVE  \A x \in S : x \in starts(S) <=> HasPrefix(x.sid, ref)
      BY <1>7, <2>2, MatchIsStart DEF RowsOf
    <2>3. PickTarget(ref, R, mailboxes) = IF starts(R) # {} THEN One(starts(R)) ELSE NotFound
      BY <1>2, <1>4, <1>7, <2>1, Zenon
    <2>4. PickTarget(ref, List, mailboxes) = IF starts(List) # {} THEN One(starts(List)) ELSE NotFound
      BY <1>2, <1>4, <1>7, <2>1, Zenon
    <2>5. IsFiniteSet(starts(R)) /\ IsFiniteSet(starts(List))
      BY <1>2, FS_Subset DEF IsList
    <2>6. Live(starts(R)) = starts(R)
      BY <1>1 DEF RowsOf, Live
    <2>7. CASE starts(R) = {}
      BY <1>7, <2>3, <2>7 DEF Reaches, ResolveTarget, R
    <2>8. CASE starts(R) # {} /\ One(starts(R)) = Ambiguous
      BY <2>3, <2>8, SamePick DEF R
    <2>9. ASSUME NEW y \in starts(R), starts(R) = {y}, One(starts(R)) = Sess(y)
          PROVE  PickTarget(ref, List, mailboxes) = Sess(y)
      <3>1. y \in R /\ y.sid \in roster /\ HasPrefix(y.sid, ref)
        <4>1. y \in R
          OBVIOUS
        <4>2. HasPrefix(y.sid, ref)
          BY <1>1, <2>2, <4>1
        <4>3. y.sid \in roster
          BY <1>1, <4>1 DEF RowsOf
        <4> QED
          BY <4>1, <4>2, <4>3
      <3>2. PICK x \in List : x.sid = y.sid
        BY <1>1, <3>1 DEF RowsOf
      <3>3. x \in starts(List) /\ x.live
        BY <1>1, <2>2, <3>1, <3>2 DEF RowsOf
      <3>4. ASSUME NEW z \in starts(List), z.live
            PROVE  z = x
        <4>1. z \in List /\ z.sid \in roster /\ HasPrefix(z.sid, ref)
          BY <1>1, <2>2, <3>4 DEF RowsOf
        <4>2. PICK w \in R : w.sid = z.sid
          BY <1>1, <4>1 DEF RowsOf
        <4>3. w \in starts(R)
          BY <4>1, <4>2
        <4> QED
          BY <1>2, <2>9, <3>2, <4>1, <4>2, <4>3 DEF IsList
      <3>5. Live(starts(List)) = {x}
        BY <3>3, <3>4 DEF Live
      <3>6. One(starts(List)) = Sess(x)
        BY <2>5, <3>3, <3>5, OneFindsAlone
      <3> QED
        BY <2>4, <3>2, <3>3, <3>6 DEF Sess
    <2>10. CASE starts(R) # {} /\ \E y \in starts(R) : starts(R) = {y} /\ One(starts(R)) = Sess(y)
      <3>1. PickTarget(ref, R, mailboxes) = PickTarget(ref, List, mailboxes)
        BY <2>3, <2>9, <2>10
      <3> QED
        BY <3>1, SamePick DEF R
    <2> QED
      BY <2>5, <2>6, <2>7, <2>8, <2>10, OneFindsAlone
  <1> QED
    BY <1>3, <1>5, <1>6, <1>7

\* Of candidates none of which runs, one alone is taken.
LEMMA SameOne ==
  ASSUME NEW S, IsList(S), NEW F, IsList(F), \A x \in S : ~x.live,
         NEW A \in SUBSET S, NEW B \in SUBSET F,
         \A a \in A : \E b \in B : b.sid = a.sid, \A b \in B : \E a \in A : a.sid = b.sid
  PROVE  (A = {} <=> B = {}) /\ (A # {} => One(A) = Ambiguous \/ One(A) = One(B))
  <1>1. IsFiniteSet(A) /\ Live(A) = {}
    BY FS_Subset DEF IsList, Live
  <1>2. ASSUME NEW x \in A, A = {x}
        PROVE  One(A) = One(B)
    <2>1. PICK y \in B : y.sid = x.sid
      BY <1>2
    <2>2. B = {y}
      BY <1>2, <2>1 DEF IsList
    <2> QED
      BY <1>2, <2>1, <2>2, OneOfOne DEF Sess
  <1>3. A = {} <=> B = {}
    OBVIOUS
  <1>4. One(A) = Ambiguous \/ \E x \in A : A = {x}
    <2>1. CASE \E x \in A : x \in {s \in A : A = {s} \/ Live(A) = {s}}
      BY <1>1, <2>1
    <2>2. CASE {s \in A : A = {s} \/ Live(A) = {s}} = {} /\ One(A) = Ambiguous
      BY <2>2
    <2> QED
      BY <1>1, <2>1, <2>2, OneFindsAlone
  <1> QED
    BY <1>2, <1>3, <1>4

\* Without the roster, a reference that starts the id of no session that only the roster
\* has reaches nobody else: it matches the same sessions as in the whole list, and none
\* of them is taken for running.
LEMMA ShownAgrees ==
  ASSUME ViewInv, NEW ref \in Refs, NamesNoneUnlisted(ref)
  PROVE  Reaches(ref, ListOf(FALSE, TRUE)) \subseteq Reaches(ref, List)
  <1> DEFINE D == ListOf(FALSE, TRUE)
             byShort(S) == {s \in S : s.short = ref}
             bySID(S) == {s \in S : s.sid = ref}
             byName(S) == {s \in S : s.name = ref}
             starts(S) == {s \in S : HasPrefix(s.short, ref) \/ HasPrefix(s.sid, ref)}
  <1>1. RowsOf(List, roster, listed) /\ RowsOf(D, {}, listed)
    BY ListRows
  <1> HIDE DEF D
  <1>2. IsList(List) /\ IsList(D) /\ \A x \in D : ~x.live
    BY <1>1 DEF RowsOf
  <1>3. CASE ref = <<>>
    BY <1>3, EmptyReaches DEF D
  <1>4. CASE ref # <<>>
    <2>1. ASSUME NEW x \in D
          PROVE  \E y \in List : y.sid = x.sid /\ y.short = x.short /\ y.name = x.name
      <3>1. x.sid \in listed
        BY <1>1 DEF RowsOf
      <3>2. PICK y \in List : y.sid = x.sid
        BY <1>1, <3>1 DEF RowsOf
      <3>3. x.name = state[x.sid].name /\ y.name = state[x.sid].name
        BY <1>1, <3>1, <3>2 DEF RowsOf
      <3> QED
        BY <1>2, <3>2, <3>3 DEF IsList
    <2>2. ASSUME NEW y \in List,
                 y.short = ref \/ y.sid = ref \/ y.name = ref \/ HasPrefix(y.short, ref) \/ HasPrefix(y.sid, ref)
          PROVE  \E x \in D : y.sid = x.sid /\ y.short = x.short /\ y.name = x.name
      <3>1. y.sid \in listed
        <4>1. CASE y.name = ref
          BY <1>1, <1>4, <4>1 DEF RowsOf, NoName
        <4>2. CASE y.name # ref
          <5>1. HasPrefix(y.sid, ref)
            BY <1>2, <1>4, <2>2, <4>2, MatchIsStart
          <5> QED
            BY <1>1, <5>1 DEF RowsOf, NamesNoneUnlisted
        <4> QED
          BY <4>1, <4>2
      <3>2. PICK x \in D : x.sid = y.sid
        BY <1>1, <3>1 DEF RowsOf
      <3>3. x.name = state[y.sid].name /\ y.name = state[y.sid].name
        BY <1>1, <3>1, <3>2 DEF RowsOf
      <3> QED
        BY <1>2, <3>2, <3>3 DEF IsList
    <2>3. /\ byShort(D) = {} <=> byShort(List) = {}
          /\ byShort(D) # {} => One(byShort(D)) = Ambiguous \/ One(byShort(D)) = One(byShort(List))
      <3>1. /\ \A a \in byShort(D) : \E b \in byShort(List) : b.sid = a.sid
            /\ \A b \in byShort(List) : \E a \in byShort(D) : a.sid = b.sid
        BY <2>1, <2>2
      <3>2. byShort(D) \subseteq D /\ byShort(List) \subseteq List
        OBVIOUS
      <3> HIDE DEF byShort
      <3> QED
        BY <1>2, <3>1, <3>2, SameOne
    <2>4. /\ bySID(D) = {} <=> bySID(List) = {}
          /\ bySID(D) # {} => One(bySID(D)) = Ambiguous \/ One(bySID(D)) = One(bySID(List))
      <3>1. /\ \A a \in bySID(D) : \E b \in bySID(List) : b.sid = a.sid
            /\ \A b \in bySID(List) : \E a \in bySID(D) : a.sid = b.sid
        BY <2>1, <2>2
      <3>2. bySID(D) \subseteq D /\ bySID(List) \subseteq List
        OBVIOUS
      <3> HIDE DEF bySID
      <3> QED
        BY <1>2, <3>1, <3>2, SameOne
    <2>5. /\ byName(D) = {} <=> byName(List) = {}
          /\ byName(D) # {} => One(byName(D)) = Ambiguous \/ One(byName(D)) = One(byName(List))
      <3>1. /\ \A a \in byName(D) : \E b \in byName(List) : b.sid = a.sid
            /\ \A b \in byName(List) : \E a \in byName(D) : a.sid = b.sid
        BY <2>1, <2>2
      <3>2. byName(D) \subseteq D /\ byName(List) \subseteq List
        OBVIOUS
      <3> HIDE DEF byName
      <3> QED
        BY <1>2, <3>1, <3>2, SameOne
    <2>6. /\ starts(D) = {} <=> starts(List) = {}
          /\ starts(D) # {} => One(starts(D)) = Ambiguous \/ One(starts(D)) = One(starts(List))
      <3>1. /\ \A a \in starts(D) : \E b \in starts(List) : b.sid = a.sid
            /\ \A b \in starts(List) : \E a \in starts(D) : a.sid = b.sid
        BY <2>1, <2>2
      <3>2. starts(D) \subseteq D /\ starts(List) \subseteq List
        OBVIOUS
      <3> HIDE DEF starts
      <3> QED
        BY <1>2, <3>1, <3>2, SameOne
    <2>7. \/ PickTarget(ref, D, mailboxes) = Ambiguous
          \/ PickTarget(ref, D, mailboxes) = PickTarget(ref, List, mailboxes)
      <3>1. ASSUME NEW S
            PROVE  PickTarget(ref, S, mailboxes) =
                     IF byShort(S) # {} THEN One(byShort(S))
                     ELSE IF bySID(S) # {} THEN One(bySID(S))
                     ELSE IF ref \in mailboxes THEN IF byName(S) = {} THEN Box(ref) ELSE Ambiguous
                     ELSE IF byName(S) # {} THEN One(byName(S))
                     ELSE IF starts(S) # {} THEN One(starts(S))
                     ELSE NotFound
        BY <1>4 DEF PickTarget
      <3> HIDE DEF byShort, bySID, byName, starts
      <3>2. /\ PickTarget(ref, D, mailboxes) =
                     IF byShort(D) # {} THEN One(byShort(D))
                     ELSE IF bySID(D) # {} THEN One(bySID(D))
                     ELSE IF ref \in mailboxes THEN IF byName(D) = {} THEN Box(ref) ELSE Ambiguous
                     ELSE IF byName(D) # {} THEN One(byName(D))
                     ELSE IF starts(D) # {} THEN One(starts(D))
                     ELSE NotFound
            /\ PickTarget(ref, List, mailboxes) =
                     IF byShort(List) # {} THEN One(byShort(List))
                     ELSE IF bySID(List) # {} THEN One(bySID(List))
                     ELSE IF ref \in mailboxes THEN IF byName(List) = {} THEN Box(ref) ELSE Ambiguous
                     ELSE IF byName(List) # {} THEN One(byName(List))
                     ELSE IF starts(List) # {} THEN One(starts(List))
                     ELSE NotFound
        BY <3>1
      <3> QED
        BY <2>3, <2>4, <2>5, <2>6, <3>2
    <2> QED
      BY <2>7, SamePick DEF D
  <1> QED
    BY <1>3, <1>4

\* A reference finds a recipient exactly when it means that one and no other, whatever
\* the agents view lists and whatever mailboxes there are (pickTarget, Ambiguous); and
\* the lists List makes do when the CLI or the daemon fails reach nobody else with it,
\* unless it is a session's name, or starts the id of a session only the roster has.
THEOREM FleetNeverMisrouted == Spec => NeverMisrouted
  <1>1. ViewInv => PicksWhatIsMeant /\ HalfListsAgree
    <2> SUFFICES ASSUME ViewInv PROVE PicksWhatIsMeant /\ HalfListsAgree
      OBVIOUS
    <2>1. PicksWhatIsMeant
      BY ListIsList, NoEmptyName, MeantIsPicked DEF PicksWhatIsMeant
    <2>2. HalfListsAgree
      BY RollAgrees, ShownAgrees, Zenon DEF HalfListsAgree
    <2> QED
      BY <2>1, <2>2
  <1>2. FleetInv' => PicksWhatIsMeant' /\ HalfListsAgree'
    <2>1. FleetInv => PicksWhatIsMeant /\ HalfListsAgree
      BY <1>1 DEF FleetInv
    <2> QED
      BY <2>1, PTL
  <1> QED
    BY <1>2, FleetInvHolds, PTL DEF Spec, NeverMisrouted

-----------------------------------------------------------------------------
(* Addresses. *)

\* The short id of a session finds it.
LEMMA ShortIdFinds ==
  ASSUME NEW S, IsList(S), NEW M, NEW T, NEW x \in S
  PROVE  ResolveTarget(AddressOf(x), S, M, T) = {Sess(x)}
  <1>1. x.sid \in Sids /\ x.short = Short(x.sid) /\ x.short # <<>>
    BY Ids DEF IsList
  <1>2. AddressOf(x) = x.short
    BY <1>1 DEF AddressOf
  <1>3. {s \in S : s.short = x.short} = {x}
    <2>1. ASSUME NEW s \in S, s.short = x.short
          PROVE  s = x
      BY <1>1, <2>1, FleetAssumption DEF IsList, FleetAssumption
    <2> QED
      BY <2>1
  <1>4. PickTarget(x.short, S, M) = Sess(x)
    BY <1>1, <1>3, OneOfOne DEF PickTarget
  <1>5. Sess(x) # NotFound
    BY DEF Sess, NotFound
  <1> QED
    BY <1>2, <1>4, <1>5 DEF ResolveTarget

\* The name of a mailbox finds it, or is refused for the session it names as well.
LEMMA MailboxNameFinds ==
  ASSUME NEW S, IsList(S), NEW M, NEW T, NEW m \in M, ValidateMailboxName(m)
  PROVE  ResolveTarget(m, S, M, T) \subseteq {Box(m), Ambiguous}
  <1>1. m # <<>> /\ Len(m) # SidLen
    BY LengthsAssumption DEF ValidateMailboxName, LengthsAssumption
  <1>2. \A s \in S : s.short # m
    BY Ids, IdsAreHex DEF IsList, ValidateMailboxName
  <1>3. \A s \in S : s.sid # m
    BY <1>1, Ids DEF IsList
  <1>4. PickTarget(m, S, M) \in {Box(m), Ambiguous}
    BY <1>1, <1>2, <1>3 DEF PickTarget
  <1>5. Box(m) # NotFound /\ Ambiguous # NotFound
    BY DEF Box, Ambiguous, NotFound
  <1> QED
    BY <1>4, <1>5 DEF ResolveTarget

\* The session id of a session that is not listed finds its transcript, unless a
\* session has that id for a name.
LEMMA OrphanIdFinds ==
  ASSUME NEW S, IsList(S), NEW M, \A m \in M : ValidateMailboxName(m),
         NEW t \in Sids, \A s \in S : s.sid # t /\ s.name # t
  PROVE  ResolveTarget(t, S, M, Sids) = {Sess([sid |-> t])}
  <1>1. t \in Seq(HexDigits) /\ Len(t) = SidLen /\ t # <<>> /\ ShortLen < SidLen /\ ShortLen \in Nat /\ SidLen \in Nat
    BY Ids, LengthsAssumption DEF LengthsAssumption
  <1>2. \A s \in S : s.short # t
    BY <1>1, Ids DEF IsList
  <1>3. t \notin M
    BY <1>1, LengthsAssumption DEF ValidateMailboxName, LengthsAssumption
  <1>4. \A s \in S : ~HasPrefix(s.sid, t)
    BY WholeIds DEF IsList, HasPrefix
  <1>5. \A s \in S : ~HasPrefix(s.short, t)
    BY <1>1, Ids DEF IsList, HasPrefix, IsPrefix
  <1>6. PickTarget(t, S, M) = NotFound
    BY <1>1, <1>2, <1>3, <1>4, <1>5 DEF PickTarget
  <1>7. FindOrphan(t, Sids) = {t}
    <2>1. ASSUME NEW u \in Sids, IsPrefix(t, u)
          PROVE  u = t
      BY <2>1, WholeIds
    <2>2. IsPrefix(t, t)
      BY <1>1 DEF IsPrefix
    <2> QED
      BY <1>1, <2>1, <2>2, IdsAreHex DEF FindOrphan
  <1> QED
    <2>1. {Sess([sid |-> u]) : u \in {t}} = {Sess([sid |-> t])}
      OBVIOUS
    <2> QED
      BY <1>6, <1>7, <2>1 DEF ResolveTarget

\* An address finds the session it was taken from, live or only a transcript, and a
\* mailbox's name finds no session, as long as nobody names a session by a whole
\* session id, which rename does not refuse (Recipient.Address, ResolveTarget).
THEOREM FleetAddressReturns ==
  ASSUME Titles \cap Sids = {}
  PROVE  Spec => AddressReturns
  <1>1. ViewInv /\ StateInv => AddressesHold
    <2> SUFFICES ASSUME ViewInv, StateInv PROVE AddressesHold
      OBVIOUS
    <2>1. IsList(List) /\ \A m \in mailboxes : ValidateMailboxName(m)
      BY ListIsList DEF ViewInv
    <2>2. ASSUME NEW s \in List
          PROVE  s.sid \in roster \cup listed /\ s.name \notin Sids
      <3>1. /\ s.sid \in roster \cup listed
            /\ s.name = IF s.sid \in listed THEN state[s.sid].name ELSE NoName
        BY ListRows DEF RowsOf
      <3>2. s.sid \in Sids
        BY <3>1 DEF ViewInv
      <3>3. state[s.sid].name \in Titles \cup {NoName}
        BY <3>2 DEF StateInv, JobStates
      <3>4. NoName \notin Sids
        BY Ids, LengthsAssumption DEF NoName, LengthsAssumption
      <3> QED
        BY <3>1, <3>3, <3>4
    <2>3. \A s \in List : Resolved(AddressOf(s)) = {Sess(s)}
      BY <2>1, ShortIdFinds DEF Resolved
    <2>4. \A m \in mailboxes : Resolved(m) \subseteq {Box(m), Ambiguous}
      BY <2>1, MailboxNameFinds DEF Resolved
    <2>5. ASSUME NEW t \in Sids \ (roster \cup listed)
          PROVE  Resolved(t) = {Sess([sid |-> t])}
      <3>1. \A s \in List : s.sid # t /\ s.name # t
        BY <2>2
      <3> QED
        BY <2>1, <3>1, OrphanIdFinds DEF Resolved
    <2> QED
      BY <2>3, <2>4, <2>5 DEF AddressesHold
  <1>2. FleetInv' => AddressesHold'
    <2>1. FleetInv => AddressesHold
      BY <1>1 DEF FleetInv
    <2> QED
      BY <2>1, PTL
  <1> QED
    BY <1>2, FleetInvHolds, PTL DEF Spec, AddressReturns

-----------------------------------------------------------------------------
(* The order of sessions.                                                   *)

\* A nonempty set of natural numbers has a least one.
LEMMA LeastOf ==
  ASSUME NEW T, T \subseteq Nat, T # {}
  PROVE  \E i \in T : \A j \in T : i <= j
  <1> DEFINE R == OpToRel(<, Nat)
  <1>1. IsWellFoundedOn(R, Nat)
    BY NatLessThanWellFounded
  <1>2. \A i, j \in Nat : j < i => <<j, i>> \in R
    BY DEF OpToRel
  <1> HIDE DEF R
  <1>3. PICK i \in T : \A j \in T : <<j, i>> \notin R
    BY <1>1, WFMin
  <1>4. ASSUME NEW j \in T
        PROVE  i <= j
    <2>1. i \in Nat /\ j \in Nat
      OBVIOUS
    <2>2. ~(j < i)
      BY <1>2, <1>3, <2>1
    <2> QED
      BY <2>1, <2>2
  <1> QED
    BY <1>4

\* Of two short ids, one is the smaller.
LEMMA SmallerIsTotal ==
  ASSUME NEW a \in Seq(HexDigits), NEW b \in Seq(HexDigits),
         Len(a) = ShortLen, Len(b) = ShortLen, a # b
  PROVE  Smaller(a, b) \/ Smaller(b, a)
  <1> DEFINE differ == {i \in 1..ShortLen : a[i] # b[i]}
  <1>1. \A i \in 1..ShortLen : a[i] \in Int /\ b[i] \in Int
    BY FleetAssumption, ElementOfSeq DEF FleetAssumption
  <1>2. differ # {}
    BY SeqEqual
  <1>3. ShortLen \in Nat
    BY LengthsAssumption DEF LengthsAssumption
  <1>4. differ \subseteq Nat
    BY <1>3
  <1>5. PICK i \in differ : \A j \in differ : i <= j
    BY <1>2, <1>4, LeastOf
  <1>6. i \in 1..ShortLen /\ a[i] # b[i] /\ \A j \in 1..(i - 1) : a[j] = b[j]
    BY <1>3, <1>5
  <1>7. a[i] < b[i] \/ b[i] < a[i]
    BY <1>1, <1>6
  <1>8. \A j \in 1..(i - 1) : b[j] = a[j]
    BY <1>6
  <1> QED
    BY <1>6, <1>7, <1>8, Zenon DEF Smaller

LEMMA SmallerIsTransitive ==
  ASSUME NEW a \in Seq(HexDigits), NEW b \in Seq(HexDigits), NEW c \in Seq(HexDigits),
         Len(a) = ShortLen, Len(b) = ShortLen, Len(c) = ShortLen, Smaller(a, b), Smaller(b, c)
  PROVE  Smaller(a, c)
  <1>1. \A i \in 1..ShortLen : a[i] \in Int /\ b[i] \in Int /\ c[i] \in Int
    BY FleetAssumption, ElementOfSeq DEF FleetAssumption
  <1>2. ShortLen \in Nat
    BY LengthsAssumption DEF LengthsAssumption
  <1>3. PICK i \in 1..ShortLen : a[i] < b[i] /\ \A j \in 1..(i - 1) : a[j] = b[j]
    BY DEF Smaller
  <1>4. PICK k \in 1..ShortLen : b[k] < c[k] /\ \A j \in 1..(k - 1) : b[j] = c[j]
    BY DEF Smaller
  <1>5. CASE i < k
    BY <1>1, <1>2, <1>3, <1>4, <1>5 DEF Smaller
  <1>6. CASE k < i
    BY <1>1, <1>2, <1>3, <1>4, <1>6 DEF Smaller
  <1>7. CASE i = k
    <2>1. a[i] < c[i]
      BY <1>1, <1>3, <1>4, <1>7
    <2>2. \A j \in 1..(i - 1) : a[j] = c[j]
      BY <1>3, <1>4, <1>7
    <2> QED
      BY <2>1, <2>2, Zenon DEF Smaller
  <1> QED
    BY <1>2, <1>5, <1>6, <1>7

LEMMA SmallerIsIrreflexive ==
  ASSUME NEW a \in Seq(HexDigits), Len(a) = ShortLen
  PROVE  ~Smaller(a, a)
  <1>1. \A i \in 1..ShortLen : a[i] \in Int
    BY FleetAssumption, ElementOfSeq DEF FleetAssumption
  <1> QED
    BY <1>1 DEF Smaller

\* By their keys, and among equals by their short ids, sessions have one order.
LEMMA BeforeIsOrder ==
  ASSUME NEW key \in [Sids -> Int]
  PROVE  /\ \A s \in Sids : ~Before(key, s, s)
         /\ \A s, t \in Sids : s # t => Before(key, s, t) \/ Before(key, t, s)
         /\ \A s, t, u \in Sids : Before(key, s, t) /\ Before(key, t, u) => Before(key, s, u)
  <1>1. \A s \in Sids : Short(s) \in Seq(HexDigits) /\ Len(Short(s)) = ShortLen
    BY Ids
  <1>2. \A s, t \in Sids : s # t => Short(s) # Short(t)
    BY FleetAssumption DEF FleetAssumption
  <1>3. ASSUME NEW s \in Sids
        PROVE  ~Before(key, s, s)
    BY <1>1, SmallerIsIrreflexive DEF Before
  <1>4. ASSUME NEW s \in Sids, NEW t \in Sids, s # t
        PROVE  Before(key, s, t) \/ Before(key, t, s)
    <2>1. Smaller(Short(s), Short(t)) \/ Smaller(Short(t), Short(s))
      BY <1>1, <1>2, <1>4, SmallerIsTotal
    <2> QED
      BY <2>1 DEF Before
  <1>5. ASSUME NEW s \in Sids, NEW t \in Sids, NEW u \in Sids, Before(key, s, t), Before(key, t, u)
        PROVE  Before(key, s, u)
    <2>1. Smaller(Short(s), Short(t)) /\ Smaller(Short(t), Short(u)) => Smaller(Short(s), Short(u))
      BY <1>1, SmallerIsTransitive
    <2> QED
      BY <1>5, <2>1 DEF Before
  <1> QED
    BY <1>3, <1>4, <1>5

\* Every slot among the sessions of a set is taken by one of them.
LEMMA SlotsAreTaken ==
  ASSUME NEW key \in [Sids -> Int], NEW R \in SUBSET Sids
  PROVE  /\ IsFiniteSet(R) /\ Cardinality(R) \in Nat
         /\ \A s \in R : Rank(key, R, s) \in 0..(Cardinality(R) - 1)
         /\ \A s, t \in R : Before(key, s, t) => Rank(key, R, s) < Rank(key, R, t)
         /\ \A k \in 0..(Cardinality(R) - 1) : \E s \in R : Rank(key, R, s) = k
  <1> DEFINE below(s) == {t \in R \ {s} : Before(key, t, s)}
             n == Cardinality(R)
             rank == [s \in R |-> Rank(key, R, s)]
  <1>1. IsFiniteSet(R)
    BY FS_Subset, FleetAssumption DEF FleetAssumption
  <1>2. n \in Nat
    BY <1>1, FS_CardinalityType
  <1>3. \A s \in R : IsFiniteSet(below(s)) /\ Cardinality(below(s)) \in Nat
    <2>1. \A s \in R : below(s) \subseteq R
      OBVIOUS
    <2> QED
      BY <1>1, <2>1, FS_Subset, FS_CardinalityType
  <1>4. ASSUME NEW s \in R
        PROVE  Rank(key, R, s) \in 0..(n - 1)
    <2>1. below(s) \in SUBSET R /\ below(s) # R
      OBVIOUS
    <2>2. Cardinality(below(s)) <= n /\ Cardinality(below(s)) # n
      BY <1>1, <2>1, FS_Subset
    <2>3. Cardinality(below(s)) \in 0..(n - 1)
      BY <1>2, <1>3, <2>2
    <2> QED
      BY <2>3 DEF Rank
  <1>5. ASSUME NEW s \in R, NEW t \in R, Before(key, s, t)
        PROVE  Rank(key, R, s) < Rank(key, R, t)
    <2>1. below(s) \in SUBSET below(t)
      BY <1>5, BeforeIsOrder
    <2>2. s \in below(t) /\ s \notin below(s)
      BY <1>5, BeforeIsOrder
    <2>3. Cardinality(below(s)) <= Cardinality(below(t)) /\ Cardinality(below(s)) # Cardinality(below(t))
      BY <1>3, <2>1, <2>2, FS_Subset
    <2>4. Cardinality(below(s)) < Cardinality(below(t))
      <3>1. Cardinality(below(s)) \in Nat /\ Cardinality(below(t)) \in Nat
        BY <1>3
      <3> HIDE DEF below
      <3> QED
        BY <2>3, <3>1
    <2> QED
      BY <2>4 DEF Rank
  <1>6. ASSUME NEW k \in 0..(n - 1)
        PROVE  \E s \in R : Rank(key, R, s) = k
    <2>1. rank \in [R -> 0..(n - 1)]
      BY <1>4
    <2>2. \A s, t \in R : rank[s] = rank[t] => s = t
      <3> SUFFICES ASSUME NEW s \in R, NEW t \in R, s # t PROVE rank[s] # rank[t]
        OBVIOUS
      <3>1. Before(key, s, t) \/ Before(key, t, s)
        BY BeforeIsOrder
      <3>2. Rank(key, R, s) \in Int /\ Rank(key, R, t) \in Int
        BY <1>4
      <3>3. Rank(key, R, s) # Rank(key, R, t)
        BY <1>5, <3>1, <3>2
      <3> QED
        BY <3>3
    <2> HIDE DEF rank
    <2>3. rank \in Injection(R, 0..(n - 1))
      BY <2>1, <2>2 DEF Injection, IsInjective
    <2>4. IsFiniteSet(0..(n - 1)) /\ Cardinality(0..(n - 1)) = n
      BY <1>2, FS_Interval
    <2>5. rank \in Surjection(R, 0..(n - 1))
      BY <2>3, <2>4, FS_Injection
    <2>6. PICK s \in R : rank[s] = k
      BY <2>5 DEF Surjection
    <2> QED
      BY <2>6 DEF rank
  <1> QED
    BY <1>1, <1>2, <1>4, <1>5, <1>6

-----------------------------------------------------------------------------
(* Where a key puts a session.                                              *)

\* What KeyAt writes for s among S, to be at the slot desired.
NewKey(key, S, s, desired) ==
  LET rest == Rest(S, s)
      at(slot) == key[The({t \in rest : Rank(key, rest, t) = slot})]
  IN  IF desired = 0 THEN at(0) - Unit
      ELSE IF desired > Cardinality(S) - 2 THEN at(desired - 1) + Unit
      ELSE Midpoint(at(desired - 1), at(desired))

LEMMA MidpointBetween ==
  ASSUME NEW a \in Int, NEW b \in Int
  PROVE  Midpoint(a, b) \in Int /\ (b - a > 1 => a < Midpoint(a, b) /\ Midpoint(a, b) < b)
  BY DEF Midpoint

\* The neighbours that NewKey looks up are there.
LEMMA NeighboursAre ==
  ASSUME NEW key \in [Sids -> Int], NEW S \in SUBSET Sids, NEW s \in S, NEW k \in 0..(Cardinality(S) - 2)
  PROVE  LET R == Rest(S, s)
             u == The({t \in R : Rank(key, R, t) = k})
         IN  u \in R /\ Rank(key, R, u) = k
  <1> DEFINE R == Rest(S, s)
             at == {t \in R : Rank(key, R, t) = k}
  <1>1. R = S \ {s} /\ R \in SUBSET Sids
    BY DEF Rest
  <1>2. Cardinality(R) = Cardinality(S) - 1
    BY <1>1, SlotsAreTaken, FS_RemoveElement
  <1>3. Cardinality(S) \in Nat
    BY SlotsAreTaken
  <1>4. k \in 0..(Cardinality(R) - 1)
    BY <1>2, <1>3
  <1> HIDE DEF R
  <1>5. at # {}
    BY <1>1, <1>4, SlotsAreTaken
  <1>6. The(at) \in at
    BY <1>5 DEF The
  <1> QED
    BY <1>6 DEF R

LEMMA NewKeyType ==
  ASSUME NEW key \in [Sids -> Int], NEW S \in SUBSET Sids, NEW s \in S,
         NEW d \in 0..(Cardinality(S) - 1), Cardinality(S) > 1
  PROVE  NewKey(key, S, s, d) \in Int
  <1> DEFINE R == Rest(S, s)
             at(slot) == key[The({t \in R : Rank(key, R, t) = slot})]
  <1>1. Cardinality(S) \in Nat /\ R \subseteq Sids
    BY SlotsAreTaken DEF Rest
  <1>2. \A k \in 0..(Cardinality(S) - 2) : at(k) \in Int
    BY <1>1, NeighboursAre
  <1>3. Unit \in Int
    BY FleetAssumption DEF FleetAssumption
  <1>4. NewKey(key, S, s, d) =
          IF d = 0 THEN at(0) - Unit
          ELSE IF d > Cardinality(S) - 2 THEN at(d - 1) + Unit
          ELSE Midpoint(at(d - 1), at(d))
    BY DEF NewKey
  <1> HIDE DEF at
  <1>5. CASE d = 0
    <2>1. at(0) \in Int
      BY <1>1, <1>2
    <2> QED
      BY <1>3, <1>4, <1>5, <2>1
  <1>6. CASE d # 0 /\ d > Cardinality(S) - 2
    <2>1. at(d - 1) \in Int
      BY <1>1, <1>2, <1>6
    <2> QED
      BY <1>3, <1>4, <1>6, <2>1
  <1>7. CASE d # 0 /\ ~(d > Cardinality(S) - 2)
    <2>1. at(d - 1) \in Int /\ at(d) \in Int
      BY <1>1, <1>2, <1>7
    <2> QED
      BY <1>4, <1>7, <2>1, MidpointBetween
  <1> QED
    BY <1>5, <1>6, <1>7

\* With the key that is written for a slot a session comes to be at it, when the keys
\* of the others differ and leave room.
LEMMA NewKeyLands ==
  ASSUME NEW key \in [Sids -> Int], NEW S \in SUBSET Sids, NEW s \in S,
         NEW d \in 0..(Cardinality(S) - 1), Cardinality(S) > 1,
         \A t, u \in S \ {s} : key[t] = key[u] => t = u,
         \A t, u \in S \ {s} : key[t] < key[u] => key[u] - key[t] > 1
  PROVE  Rank([key EXCEPT ![s] = NewKey(key, S, s, d)], S, s) = d
  <1> DEFINE R == Rest(S, s)
             who(slot) == The({t \in R : Rank(key, R, t) = slot})
             v == NewKey(key, S, s, d)
             n == Cardinality(S)
  <1>1. R = S \ {s} /\ R \in SUBSET Sids /\ IsFiniteSet(R) /\ n \in Nat /\ Cardinality(R) = n - 1
    <2>1. R = S \ {s} /\ R \in SUBSET Sids /\ IsFiniteSet(S) /\ n \in Nat
      BY SlotsAreTaken DEF Rest
    <2> QED
      BY <2>1, FS_RemoveElement
  <1>2. Unit \in Int /\ Unit > 0
    BY FleetAssumption DEF FleetAssumption
  <1>3. v \in Int
    BY NewKeyType
  <1>4. ASSUME NEW k \in 0..(n - 2)
        PROVE  who(k) \in R /\ Rank(key, R, who(k)) = k /\ key[who(k)] \in Int
    <2>1. who(k) \in R /\ Rank(key, R, who(k)) = k
      BY NeighboursAre
    <2> HIDE DEF who
    <2> QED
      BY <1>1, <2>1
  <1>5. v = IF d = 0 THEN key[who(0)] - Unit
            ELSE IF d > n - 2 THEN key[who(d - 1)] + Unit
            ELSE Midpoint(key[who(d - 1)], key[who(d)])
    BY DEF NewKey
  <1>6. \A t \in R : Rank(key, R, t) \in 0..(n - 2) /\ key[t] \in Int
    BY <1>1, SlotsAreTaken
  <1>7. \A t, u \in R : key[t] < key[u] <=> Rank(key, R, t) < Rank(key, R, u)
    <2>1. \A t, u \in R : key[t] < key[u] => Rank(key, R, t) < Rank(key, R, u)
      BY <1>1, SlotsAreTaken DEF Before
    <2> QED
      BY <1>1, <1>6, <2>1
  <1>8. ASSUME \A t \in R : key[t] # v
        PROVE  Rank([key EXCEPT ![s] = v], S, s) = Cardinality({t \in R : key[t] < v})
    <2>1. {t \in S \ {s} : Before([key EXCEPT ![s] = v], t, s)} = {t \in R : key[t] < v}
      BY <1>1, <1>8 DEF Before
    <2> QED
      BY <2>1 DEF Rank
  <1>9. ASSUME NEW u \in R
        PROVE  Rank(key, R, u) = Cardinality({t \in R : key[t] < key[u]})
    <2>1. {t \in R \ {u} : Before(key, t, u)} = {t \in R : key[t] < key[u]}
      BY <1>1, <1>6, <1>9 DEF Before
    <2> QED
      BY <2>1 DEF Rank
  <1> HIDE DEF R, who, v
  <1>10. CASE d = 0
    <2>1. who(0) \in R /\ Rank(key, R, who(0)) = 0 /\ v = key[who(0)] - Unit
      BY <1>1, <1>4, <1>5, <1>10
    <2>2. \A t \in R : v < key[t]
      BY <1>2, <1>6, <1>7, <2>1
    <2>3. \A t \in R : key[t] # v /\ ~(key[t] < v)
      BY <1>3, <1>6, <2>2
    <2>4. {t \in R : key[t] < v} = {}
      BY <2>3
    <2> QED
      BY <1>8, <1>10, <2>3, <2>4, FS_EmptySet DEF v
  <1>11. CASE d # 0 /\ d > n - 2
    <2>1. who(d - 1) \in R /\ Rank(key, R, who(d - 1)) = n - 2 /\ v = key[who(d - 1)] + Unit
      BY <1>1, <1>4, <1>5, <1>11
    <2>2. ASSUME NEW t \in R
          PROVE  key[t] < v
      <3>1. ~(key[who(d - 1)] < key[t])
        BY <1>1, <1>6, <1>7, <2>1
      <3>2. key[t] \in Int /\ key[who(d - 1)] \in Int
        BY <1>6, <2>1
      <3> QED
        BY <1>2, <2>1, <3>1, <3>2
    <2>3. \A t \in R : key[t] # v
      BY <1>3, <1>6, <2>2
    <2>4. {t \in R : key[t] < v} = R
      BY <2>2
    <2> QED
      BY <1>1, <1>8, <1>11, <2>3, <2>4 DEF v
  <1>12. CASE d # 0 /\ ~(d > n - 2)
    <2>1. /\ who(d - 1) \in R /\ Rank(key, R, who(d - 1)) = d - 1
          /\ who(d) \in R /\ Rank(key, R, who(d)) = d
          /\ v = Midpoint(key[who(d - 1)], key[who(d)])
      BY <1>1, <1>4, <1>5, <1>12
    <2>2. key[who(d - 1)] < key[who(d)]
      BY <1>7, <2>1
    <2>3. key[who(d - 1)] < v /\ v < key[who(d)]
      BY <1>1, <1>6, <2>1, <2>2, MidpointBetween
    <2>4. \A t \in R : key[t] < v <=> key[t] < key[who(d)]
      <3> SUFFICES ASSUME NEW t \in R PROVE key[t] < v <=> key[t] < key[who(d)]
        OBVIOUS
      <3>1. CASE Rank(key, R, t) < d
        BY <1>3, <1>6, <1>7, <2>1, <2>3, <3>1
      <3>2. CASE ~(Rank(key, R, t) < d)
        BY <1>3, <1>6, <1>7, <2>1, <2>3, <3>2
      <3> QED
        BY <3>1, <3>2
    <2>5. \A t \in R : key[t] # v
      BY <1>3, <1>6, <2>3, <2>4
    <2>6. {t \in R : key[t] < v} = {t \in R : key[t] < key[who(d)]}
      BY <2>4
    <2>7. Cardinality({t \in R : key[t] < v}) = d
      BY <1>9, <2>1, <2>6
    <2> QED
      BY <1>8, <2>5, <2>7 DEF v
  <1> QED
    BY <1>10, <1>11, <1>12

-----------------------------------------------------------------------------
(* Reorder. *)

Writing == {"order", "fill", "stateOrder", "stateFill"}

\* The slot a call goes to, among n sessions, from the slot cur.
Slot(o, n, cur) ==
  Clamp(CASE o.kind = "up" -> cur - 1 [] o.kind = "down" -> cur + 1 [] OTHER -> o.arg, n - 1)

\* The call o, of the sessions S with their keys, goes to another slot, for which v is the key.
Aims(o, key, S, v) ==
  LET cur == Rank(key, S, o.sid)
      slot == Slot(o, Cardinality(S), cur)
  IN  slot # cur /\ v = NewKey(key, S, o.sid, slot)

OrderTypes ==
  /\ order \in [Sids -> Int \cup {Unset}] /\ stateOrder \in [Sids -> Int \cup {Unset}]
  /\ keys \in [Callers -> [Sids -> Int]] /\ newVal \in [Callers -> Int]
  /\ rows \in [Callers -> SUBSET Sids] /\ todo \in [Callers -> SUBSET Sids]
  /\ calm \in [Callers -> BOOLEAN]

\* A call has its session among those it has read; as long as nothing disturbs it, the
\* order file that it has written says what it wrote.
ReorderInv ==
  /\ OrderTypes
  /\ \A c \in Callers : pc[c] \in {"key"} \cup Writing => op[c].sid \in rows[c]
  /\ \A c \in Callers : pc[c] \in Writing => Aims(op[c], keys[c], rows[c], newVal[c])
  /\ \A c \in Callers : pc[c] \in {"stateOrder", "stateFill"} /\ calm[c] => order[op[c].sid] = newVal[c]

\* A call that goes to another slot has several sessions, and goes to one of their slots.
LEMMA SlotIsOne ==
  ASSUME NEW o \in Ops, NEW key \in [Sids -> Int], NEW S \in SUBSET Sids, o.sid \in S
  PROVE  LET cur == Rank(key, S, o.sid)
             slot == Slot(o, Cardinality(S), cur)
         IN  slot # cur => Cardinality(S) > 1 /\ slot \in 0..(Cardinality(S) - 1)
  <1> DEFINE cur == Rank(key, S, o.sid)
             n == Cardinality(S)
  <1>1. n \in Nat /\ cur \in 0..(n - 1)
    BY SlotsAreTaken
  <1>2. o.arg \in Int
    BY DEF Ops
  <1> HIDE DEF cur, n
  <1>3. Slot(o, n, cur) \in 0..(n - 1)
    BY <1>1, <1>2 DEF Slot, Clamp
  <1>4. Slot(o, n, cur) # cur => n > 1
    BY <1>1, <1>3
  <1> QED
    BY <1>3, <1>4 DEF cur, n

LEMMA ReorderInvInit == Init => ReorderInv
  <1> SUFFICES ASSUME Init PROVE ReorderInv
    OBVIOUS
  <1>1. StartedAt \in [Sids -> Int]
    BY FleetAssumption DEF FleetAssumption
  <1> QED
    BY <1>1 DEF Init, ReorderInv, OrderTypes, Writing

LEMMA ReorderInvStep == FleetInv /\ ReorderInv /\ [Next]_vars => ReorderInv'
  <1> SUFFICES ASSUME FleetInv, ReorderInv, [Next]_vars PROVE ReorderInv'
    OBVIOUS
  <1>1. /\ pc \in [Callers -> PCs] /\ op \in [Callers -> Ops]
        /\ \A c \in Callers : pc[c] # "idle" => op[c].sid \in Sids
        /\ roster \subseteq Sids
    BY DEF FleetInv, CallTypes, ViewInv
  <1>2. OrderTypes
    BY DEF ReorderInv
  <1>3. StartedAt \in [Sids -> Int]
    BY FleetAssumption DEF FleetAssumption
  <1>4. ASSUME NEW c \in Callers, NEW l, l \notin {"key"} \cup Writing, pc' = [pc EXCEPT ![c] = l],
               \A d \in Callers \ {c} : op'[d] = op[d], UNCHANGED <<orders, reordering, calm>>
        PROVE  ReorderInv'
    BY <1>1, <1>4 DEF ReorderInv, OrderTypes, Writing, orders, reordering
  <1>5. ASSUME UNCHANGED <<pc, op, orders, reordering, calm>>
        PROVE  ReorderInv'
    BY <1>5 DEF ReorderInv, OrderTypes, orders, reordering
  <1>6. ASSUME NEW c \in Callers,
               \/ Pin(c) \/ Locks(c) \/ LockFails(c) \/ ReadPins(c) \/ WritePins(c) \/ ReleaseLock(c)
               \/ Edit(c) \/ ReadState(c) \/ WriteState(c) \/ EditFails(c)
        PROVE  ReorderInv'
    BY <1>1, <1>4, <1>6
    DEF Pin, Locks, LockFails, ReadPins, WritePins, ReleaseLock, Edit, ReadState, WriteState, EditFails,
        Call, Return, Goto, pinUnchanged, stateUnchanged, Writing
  <1>7. ASSUME NEW c \in Callers, Reorder(c)
        PROVE  ReorderInv'
    <2>1. PICK s \in roster, to \in {<<"up", 0>>, <<"down", 0>>} \cup ({"at"} \X (0..Cardinality(roster))) :
            Call(c, "order", "key", [NoOp EXCEPT !.kind = to[1], !.sid = s, !.arg = to[2]])
      BY <1>7 DEF Reorder
    <2> DEFINE o == [NoOp EXCEPT !.kind = to[1], !.sid = s, !.arg = to[2]]
    <2>2. o.sid = s
      BY DEF NoOp
    <2>3. pc' = [pc EXCEPT ![c] = "key"] /\ op' = [op EXCEPT ![c] = o]
      BY <2>1 DEF Call, Goto
    <2> HIDE DEF o
    <2>4. /\ rows' = [rows EXCEPT ![c] = roster] /\ todo' = [todo EXCEPT ![c] = roster]
          /\ calm' = [calm EXCEPT ![c] = TRUE] /\ UNCHANGED <<order, stateOrder, keys, newVal>>
      BY <1>7 DEF Reorder, orders
    <2>5. OrderTypes'
      BY <1>1, <1>2, <2>4 DEF OrderTypes
    <2> QED
      BY <1>1, <2>2, <2>3, <2>4, <2>5 DEF ReorderInv, OrderTypes, Writing
  <1>8. ASSUME NEW c \in Callers, ReadKey(c)
        PROVE  ReorderInv'
    <2> DEFINE s == The(todo[c])
    <2>1. s \in Sids
      BY <1>2, <1>8 DEF ReadKey, The, OrderTypes
    <2>2. Eff(s) \in Int
      BY <1>2, <1>3, <2>1 DEF Eff, OrderTypes
    <2>3. /\ pc[c] = "key" /\ keys' = [keys EXCEPT ![c][s] = Eff(s)] /\ todo' = [todo EXCEPT ![c] = @ \ {s}]
          /\ UNCHANGED <<pc, op, order, stateOrder, rows, newVal, calm>>
      BY <1>8 DEF ReadKey, orders
    <2> HIDE DEF s
    <2>4. OrderTypes'
      <3>1. keys' \in [Callers -> [Sids -> Int]]
        BY <1>2, <2>1, <2>2, <2>3 DEF OrderTypes
      <3> QED
        BY <1>2, <2>3, <3>1 DEF OrderTypes
    <2>5. \A d \in Callers : pc[d] \in Writing => keys'[d] = keys[d]
      BY <1>2, <2>3 DEF OrderTypes, Writing
    <2> QED
      BY <2>3, <2>4, <2>5 DEF ReorderInv
  <1>9. ASSUME NEW c \in Callers, Place(c)
        PROVE  ReorderInv'
    <2> DEFINE slot == Slot(op[c], Cardinality(rows[c]), Rank(keys[c], rows[c], op[c].sid))
               v == KeyAt(c, Desired(c, Cur(c)))
    <2>1. /\ pc[c] = "key" /\ newVal' = [newVal EXCEPT ![c] = v] /\ pc' = [pc EXCEPT ![c] = "order"]
          /\ UNCHANGED <<op, order, stateOrder, rows, todo, keys, calm>>
      BY <1>9 DEF Place, Goto, orders
    <2>2. /\ op[c] \in Ops /\ keys[c] \in [Sids -> Int] /\ rows[c] \in SUBSET Sids /\ op[c].sid \in rows[c]
          /\ newVal \in [Callers -> Int]
      BY <1>1, <1>2, <2>1 DEF ReorderInv, OrderTypes
    <2>3. /\ slot # Rank(keys[c], rows[c], op[c].sid)
          /\ v = NewKey(keys[c], rows[c], op[c].sid, slot)
      BY <1>9 DEF Place, Slot, Desired, Cur, KeyAt, NewKey, Target
    <2>4. v \in Int
      BY <2>2, <2>3, SlotIsOne, NewKeyType
    <2>5. Aims(op[c], keys[c], rows[c], v)
      BY <2>3 DEF Aims
    <2> HIDE DEF v
    <2>6. OrderTypes'
      BY <1>2, <2>1, <2>4 DEF OrderTypes
    <2>7. \A d \in Callers : newVal'[d] = IF d = c THEN v ELSE newVal[d]
      BY <2>1, <2>2
    <2>8. \A d \in Callers : pc'[d] = IF d = c THEN "order" ELSE pc[d]
      BY <1>1, <2>1
    <2> QED
      BY <2>1, <2>2, <2>5, <2>6, <2>7, <2>8 DEF ReorderInv, Writing
  <1>10. ASSUME NEW c \in Callers, Write(c)
         PROVE  ReorderInv'
    <2>1. /\ calm' = [d \in Callers |-> calm[d] /\ d = c]
          /\ UNCHANGED <<op, rows, todo, keys, newVal>>
      BY <1>10 DEF Write, Disturb, reordering
    <2>2. op[c].sid \in Sids /\ newVal[c] \in Int
      BY <1>1, <1>2, <1>10 DEF Write, WriteOrder, WriteStateOrder, OrderTypes
    <2>3. OrderTypes'
      BY <1>2, <1>10, <2>1, <2>2 DEF OrderTypes, Write, WriteOrder, WriteStateOrder
    <2>4. CASE pc[c] = "order" /\ pc' = [pc EXCEPT ![c] = "fill"]
      BY <1>1, <2>1, <2>3, <2>4 DEF ReorderInv, OrderTypes, Writing
    <2>5. CASE /\ pc[c] = "fill" /\ pc' = [pc EXCEPT ![c] = "stateOrder"]
               /\ order' = [order EXCEPT ![Target(c)] = newVal[c]]
      BY <1>1, <1>2, <2>1, <2>2, <2>3, <2>5 DEF ReorderInv, OrderTypes, Writing, Target
    <2>6. CASE pc[c] = "stateOrder" /\ pc' = [pc EXCEPT ![c] = "stateFill"] /\ UNCHANGED order
      BY <1>1, <2>1, <2>3, <2>6 DEF ReorderInv, OrderTypes, Writing
    <2> QED
      BY <1>10, <2>4, <2>5, <2>6 DEF Write, WriteOrder, WriteStateOrder, Goto
  <1>11. ASSUME NEW c \in Callers, Return(c), ForgetKeys(c)
         PROVE  /\ \A d \in Callers : d # c => /\ pc'[d] = pc[d] /\ op'[d] = op[d] /\ rows'[d] = rows[d]
                                               /\ keys'[d] = keys[d] /\ newVal'[d] = newVal[d]
                /\ pc'[c] = "idle"
                /\ keys' \in [Callers -> [Sids -> Int]] /\ newVal' \in [Callers -> Int]
                /\ rows' \in [Callers -> SUBSET Sids] /\ todo' \in [Callers -> SUBSET Sids]
    BY <1>1, <1>2, <1>3, <1>11 DEF Return, Goto, ForgetKeys, OrderTypes
  <1>12. ASSUME NEW c \in Callers, StopReorder(c)
         PROVE  ReorderInv'
    <2>1. calm' = [calm EXCEPT ![c] = FALSE] /\ UNCHANGED <<order, stateOrder>> /\ Return(c) /\ ForgetKeys(c)
      BY <1>12 DEF StopReorder, orders
    <2>2. OrderTypes'
      BY <1>2, <1>11, <2>1 DEF OrderTypes
    <2>3. \A d \in Callers : d # c => calm'[d] = calm[d]
      BY <1>2, <2>1 DEF OrderTypes
    <2>4. ASSUME NEW d \in Callers
          PROVE  /\ pc'[d] \in {"key"} \cup Writing => op'[d].sid \in rows'[d]
                 /\ pc'[d] \in Writing => Aims(op'[d], keys'[d], rows'[d], newVal'[d])
                 /\ pc'[d] \in {"stateOrder", "stateFill"} /\ calm'[d] => order'[op'[d].sid] = newVal'[d]
      <3>1. CASE d = c
        BY <1>11, <2>1, <3>1 DEF Writing
      <3>2. CASE d # c
        <4>1. /\ pc'[d] = pc[d] /\ op'[d] = op[d] /\ rows'[d] = rows[d] /\ keys'[d] = keys[d]
              /\ newVal'[d] = newVal[d] /\ calm'[d] = calm[d] /\ order' = order
          BY <1>11, <2>1, <2>3, <3>2
        <4> QED
          BY <4>1 DEF ReorderInv
      <3> QED
        BY <3>1, <3>2
    <2> QED
      BY <2>2, <2>4 DEF ReorderInv
  <1>13. ASSUME NEW c \in Callers, WriteLast(c)
         PROVE  ReorderInv'
    <2>1. /\ calm' = [d \in Callers |-> FALSE] /\ UNCHANGED order /\ Return(c) /\ ForgetKeys(c)
          /\ stateOrder' = [stateOrder EXCEPT ![Target(c)] = newVal[c]]
      BY <1>13 DEF WriteLast
    <2>2. newVal[c] \in Int
      BY <1>2 DEF OrderTypes
    <2>3. OrderTypes'
      BY <1>2, <1>11, <2>1, <2>2 DEF OrderTypes
    <2> QED
      BY <1>2, <1>11, <2>1, <2>3 DEF ReorderInv, OrderTypes, Writing
  <1>14. ASSUME NEW s, AutoName(s) \/ Respawn(s) \/ Exit(s) \/ ClaudeRm(s)
         PROVE  ReorderInv'
    BY <1>5, <1>14 DEF AutoName, Respawn, Exit, ClaudeRm, Event
  <1>15. ASSUME NEW name, CreateMailbox(name)
         PROVE  ReorderInv'
    BY <1>5, <1>15 DEF CreateMailbox, Event
  <1>16. CASE UNCHANGED vars
    BY <1>5, <1>16 DEF vars
  <1> QED
    BY <1>6, <1>7, <1>8, <1>9, <1>10, <1>12, <1>13, <1>14, <1>15, <1>16 DEF Next

LEMMA ReorderInvHolds == Spec => []ReorderInv
  <1> QED
    BY ReorderInvInit, ReorderInvStep, FleetInvHolds, PTL DEF Spec

\* A reorder that no other disturbed puts its session at the slot it was to have among
\* those it read, in the flat view and in the grouped one, whatever the number of sessions,
\* when the keys of the others differ and a midpoint fits between them (Reorder).
THEOREM FleetReorderLands == Spec => ReorderLands
  <1>1. ASSUME FleetInv, ReorderInv, NEW c \in Callers, WriteLast(c), calm[c], Roomy(c), Distinct(c)
        PROVE  LET s == Target(c)
                   before == Rank(keys[c], rows[c], s)
                   after(file) == Rank([keys[c] EXCEPT ![s] = file[s]], rows[c], s)
               IN  after(order') = Desired(c, before) /\ after(stateOrder') = Desired(c, before)
    <2> DEFINE s == op[c].sid
               slot == Slot(op[c], Cardinality(rows[c]), Rank(keys[c], rows[c], s))
    <2>1. /\ op[c] \in Ops /\ keys[c] \in [Sids -> Int] /\ rows[c] \in SUBSET Sids /\ s \in rows[c]
          /\ stateOrder \in [Sids -> Int \cup {Unset}] /\ pc[c] = "stateFill"
      BY <1>1 DEF FleetInv, CallTypes, ReorderInv, OrderTypes, WriteLast, Writing
    <2>2. Aims(op[c], keys[c], rows[c], newVal[c]) /\ order[s] = newVal[c]
      BY <1>1, <2>1 DEF ReorderInv, Writing
    <2>3. order'[s] = newVal[c] /\ stateOrder'[s] = newVal[c]
      BY <1>1, <2>1, <2>2 DEF WriteLast, Target
    <2>4. slot # Rank(keys[c], rows[c], s) /\ newVal[c] = NewKey(keys[c], rows[c], s, slot)
      BY <2>2 DEF Aims
    <2>5. Cardinality(rows[c]) > 1 /\ slot \in 0..(Cardinality(rows[c]) - 1)
      BY <2>1, <2>4, SlotIsOne
    <2>6. /\ \A t, u \in rows[c] \ {s} : keys[c][t] = keys[c][u] => t = u
          /\ \A t, u \in rows[c] \ {s} : keys[c][t] < keys[c][u] => keys[c][u] - keys[c][t] > 1
      BY <1>1 DEF Roomy, Distinct, Target
    <2>7. Desired(c, Rank(keys[c], rows[c], s)) = slot
      BY DEF Desired, Slot
    <2> HIDE DEF slot
    <2>8. Rank([keys[c] EXCEPT ![s] = newVal[c]], rows[c], s) = slot
      BY <2>1, <2>4, <2>5, <2>6, NewKeyLands
    <2> QED
      BY <2>3, <2>7, <2>8 DEF Target
  <1>2. FleetInv /\ ReorderInv =>
          \A c \in Callers : WriteLast(c) /\ calm[c] /\ Roomy(c) /\ Distinct(c) =>
            LET s == Target(c)
                before == Rank(keys[c], rows[c], s)
                after(file) == Rank([keys[c] EXCEPT ![s] = file[s]], rows[c], s)
            IN  after(order') = Desired(c, before) /\ after(stateOrder') = Desired(c, before)
    BY <1>1
  <1> QED
    BY <1>2, FleetInvHolds, ReorderInvHolds, PTL DEF Spec, ReorderLands
=============================================================================
