------------------------------ MODULE Address ------------------------------
(***************************************************************************)
(* How a message finds its recipient, address.go, with the agents list of  *)
(* client.go and the transcripts of orphan.go.  A string is a sequence of  *)
(* characters whose case and outer blanks do not matter; the empty one is  *)
(* absence.  A session is a record of its short id, session id, display    *)
(* name and whether it is live; a mailbox is its name.                     *)
(***************************************************************************)
EXTENDS Integers, SequencesExt

CONSTANTS
  ShortLen,    \* the length of a short id: 8 hex digits
  SidLen,      \* the length of a session id: 36
  MaxNameLen,  \* the longest name of a mailbox: 32
  HexDigits    \* the characters an id is made of

\* No mailbox can be named by a whole session id.
ASSUME LengthsAssumption ==
  /\ ShortLen \in Nat \ {0} /\ SidLen \in Nat /\ MaxNameLen \in Nat
  /\ ShortLen < SidLen /\ MaxNameLen < SidLen

Hex(s) == Range(s) \subseteq HexDigits

\* The short id of a session is the start of its session id.
Short(sid) == SubSeq(sid, 1, ShortLen)

\* Mutant of ValidateMailboxName: any name will do.
AnyMailboxName(name) == name # <<>>

\* "looks like a session short id ... and would be ambiguous as an address"
ValidateMailboxName(name) ==
  /\ Len(name) \in 1..MaxNameLen
  /\ ~(Len(name) = ShortLen /\ Hex(name))

Sess(s) == [kind |-> "session", who |-> s.sid]
Box(m) == [kind |-> "mailbox", who |-> m]
Ambiguous == [kind |-> "ambiguous", who |-> <<>>]
NotFound == [kind |-> "none", who |-> <<>>]

The(S) == CHOOSE x \in S : TRUE

Live(sessions) == {s \in sessions : s.live}

\* Mutant of One: the first match is good enough.
OneAny(candidates) == Sess(The(candidates))

\* The only match, or the only live one.
One(candidates) ==
  IF Cardinality(candidates) = 1 THEN Sess(The(candidates))
  ELSE IF Cardinality(Live(candidates)) = 1 THEN Sess(The(Live(candidates)))
  ELSE Ambiguous

HasPrefix(s, prefix) == s # <<>> /\ IsPrefix(prefix, s)

\* Mutant of PickTarget: a name goes before an id.
PickTargetByName(ref, sessions, mailboxes) ==
  LET byName == {s \in sessions : s.name = ref}
      byId == {s \in sessions : HasPrefix(s.short, ref) \/ HasPrefix(s.sid, ref)}
  IN  IF ref \in mailboxes THEN Box(ref)
      ELSE IF byName # {} THEN One(byName)
      ELSE IF byId # {} THEN One(byId)
      ELSE NotFound

\* An exact short id, an exact session id, an exact name, a prefix of an id.
PickTarget(ref, sessions, mailboxes) ==
  LET byShort == {s \in sessions : s.short = ref}
      bySID == {s \in sessions : s.sid = ref}
      byName == {s \in sessions : s.name = ref}
      byPrefix == {s \in sessions : HasPrefix(s.short, ref) \/ HasPrefix(s.sid, ref)}
  IN  IF ref = <<>> THEN NotFound
      ELSE IF byShort # {} THEN One(byShort)
      ELSE IF bySID # {} THEN One(bySID)
      ELSE IF ref \in mailboxes THEN IF byName = {} THEN Box(ref) ELSE Ambiguous
      ELSE IF byName # {} THEN One(byName)
      ELSE IF byPrefix # {} THEN One(byPrefix)
      ELSE NotFound

\* Transcripts that a reference can name; the freshest of them is taken.
FindOrphan(ref, transcripts) ==
  {t \in transcripts : Hex(ref) /\ Len(ref) >= ShortLen /\ IsPrefix(ref, t)}

\* What a reference may resolve to: an orphan only when the list has nothing for it.
ResolveTarget(ref, sessions, mailboxes, transcripts) ==
  LET target == PickTarget(ref, sessions, mailboxes)
      orphans == FindOrphan(ref, transcripts)
  IN  IF target = NotFound /\ orphans # {}
        THEN {Sess([sid |-> t]) : t \in orphans}
        ELSE {target}

\* What a sender writes to reach a recipient again: Recipient.Address, Self.Address.
AddressOf(r) == IF r.short # <<>> THEN r.short ELSE r.sid

-----------------------------------------------------------------------------
(* The same, said without an order of looking: the weight of a match, and  *)
(* the heaviest matches.                                                   *)

Weight(ref, s) ==
  IF ref = <<>> THEN 0
  ELSE IF s.short = ref THEN 4
  ELSE IF s.sid = ref THEN 3
  ELSE IF s.name = ref THEN 2
  ELSE IF HasPrefix(s.sid, ref) THEN 1
  ELSE 0

Best(ref, sessions) ==
  LET weight == [s \in sessions |-> Weight(ref, s)]
  IN  {s \in sessions : weight[s] > 0 /\ \A t \in sessions : weight[t] <= weight[s]}

\* The recipients a reference means, one at most: what nothing else matches as well,
\* not counting sessions that do not run beside the one that does.
Meant(ref, sessions, mailboxes) ==
  LET best == Best(ref, sessions)
      byId == \E s \in best : Weight(ref, s) > 2
      byName == \E s \in best : Weight(ref, s) = 2
      alone == {s \in best : best = {s} \/ Live(best) = {s}}
  IN  {Box(m) : m \in {n \in mailboxes : n = ref /\ ~byId /\ ~byName}}
      \cup {Sess(s) : s \in {t \in alone : ref \in mailboxes => byId}}
=============================================================================
