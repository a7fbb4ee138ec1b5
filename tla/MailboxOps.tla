---------------------------- MODULE MailboxOps -----------------------------
(***************************************************************************)
(* The operations of a Mailbox (mailbox.go: Append, Fetch, Ack), one       *)
(* action per access to log.jsonl or state.json, without the lock they run *)
(* under: Mailbox puts them under LockService, MailboxOnDirLock under the  *)
(* mkdir lock itself.                                                      *)
(*                                                                         *)
(* The log file is abstracted to the messages readAll parses from it and   *)
(* to how it ends.  A line that does not parse is skipped by every reader, *)
(* so only one at the very end, which the next write could be glued to,    *)
(* makes a difference.                                                     *)
(***************************************************************************)
EXTENDS Sequences, FiniteSetsExt

CONSTANTS
  Procs,     \* the calls in progress, one per server process
  Ids,       \* the ids of the messages senders append
  Limits,    \* the limits readers ask for
  Cursors,   \* the cursors clients acknowledge: any number they may send
  IOFaults,  \* TRUE: writes and syncs may fail
  TailUnread \* TRUE: lastByte may fail, and its error is ignored

ASSUME IdsAssumption == Ids \cap Nat = {}
ASSUME LimitsAssumption == Limits \subseteq Nat \ {0}
ASSUME CursorsAssumption == Cursors \subseteq Nat
ASSUME FaultsAssumption == IOFaults \in BOOLEAN /\ TailUnread \in BOOLEAN

VARIABLES
  msgs,     \* the messages in log.jsonl, in order
  tail,     \* how log.jsonl ends
  marks,    \* state.json: the two watermarks
  pc,       \* the next access a call makes; "done" and "failed": about to return
  arg,      \* the call's argument: an id, a limit or a cursor
  seen,     \* what the call got from readAll
  mine,     \* the call's copy of state.json
  out,      \* the sequence numbers Fetch is about to return
  handed,   \* history: the sequence numbers Fetch has returned to clients
  dropped   \* history: those a reader that died had marked delivered

files == <<msgs, tail, marks>>
locals == <<pc, arg, seen, mine, out>>
history == <<handed, dropped>>
opvars == <<files, locals, history>>

AppendPCs == {"append.log", "append.newline", "append.write", "append.sync"}
FetchPCs == {"fetch.log", "fetch.marks", "fetch.write"}
AckPCs == {"ack.log", "ack.marks", "ack.write"}
PCs == {"idle", "done", "failed"} \cup AppendPCs \cup FetchPCs \cup AckPCs

\* "newline": ends in a newline, or is empty; "torn": in a fragment that does
\* not parse; "bare": in a whole record whose newline was not written.
Tails == {"newline", "torn", "bare"}

NoMarks == [delivered |-> 0, read |-> 0]

InitOps ==
  /\ msgs = <<>>
  /\ tail = "newline"
  /\ marks = NoMarks
  /\ pc = [p \in Procs |-> "idle"]
  /\ arg = [p \in Procs |-> 0]
  /\ seen = [p \in Procs |-> <<>>]
  /\ mine = [p \in Procs |-> NoMarks]
  /\ out = [p \in Procs |-> {}]
  /\ handed = {}
  /\ dropped = {}

Goto(p, l) == pc' = [pc EXCEPT ![p] = l]

Begin(p, l, a) ==
  /\ pc[p] = "idle"
  /\ Goto(p, l)
  /\ arg' = [arg EXCEPT ![p] = a]
  /\ UNCHANGED <<files, history, seen, mine, out>>

Biggest(a, b) == IF a > b THEN a ELSE b

IdsOf(s) == {s[i].id : i \in DOMAIN s}
SeqsOf(s) == {s[i].seq : i \in DOMAIN s}

-----------------------------------------------------------------------------
(* Append *)

AppendBegin(p, id) == Begin(p, "append.log", id)

\* Mutant of AppendReadLog: the id is not looked for.
AppendReadLogBlindly(p) ==
  /\ pc[p] = "append.log"
  /\ seen' = [seen EXCEPT ![p] = msgs]
  /\ Goto(p, "append.newline")
  /\ UNCHANGED <<files, history, arg, mine, out>>

\* A message whose id is in the log is not stored again.
AppendReadLog(p) ==
  /\ pc[p] = "append.log"
  /\ seen' = [seen EXCEPT ![p] = msgs]
  /\ Goto(p, IF arg[p] \in IdsOf(msgs) THEN "done" ELSE "append.newline")
  /\ UNCHANGED <<files, history, arg, mine, out>>

\* Mutant of AppendNewline: a torn tail is not repaired.
AppendNoNewline(p) ==
  /\ pc[p] = "append.newline"
  /\ Goto(p, "append.write")
  /\ UNCHANGED <<files, history, arg, seen, mine, out>>

\* The newline a writer that died mid-line did not write, unless the last byte
\* of the log could not be read.
AppendNewline(p) ==
  /\ pc[p] = "append.newline"
  /\ \/ tail' = "newline"
     \/ TailUnread /\ UNCHANGED tail
  /\ Goto(p, "append.write")
  /\ UNCHANGED <<msgs, marks, history, arg, seen, mine, out>>

\* Mutant of NextSeq: the first message is number 0.
NextSeqFromZero(s) == IF s = <<>> THEN 0 ELSE Max(SeqsOf(s)) + 1

NextSeq(s) == IF s = <<>> THEN 1 ELSE Max(SeqsOf(s)) + 1

NewMessage(p) == [seq |-> NextSeq(seen[p]), id |-> arg[p]]

\* What parses of the log before bytes are written behind its last line: a
\* record that has no newline yet is glued to them and lost.
Settled == IF tail = "bare" THEN SubSeq(msgs, 1, Len(msgs) - 1) ELSE msgs

WriteRecord(p) ==
  msgs' = IF tail = "newline" THEN Append(msgs, NewMessage(p)) ELSE Settled

AppendWrite(p) ==
  /\ pc[p] = "append.write"
  /\ WriteRecord(p)
  /\ tail' = "newline"
  /\ Goto(p, "append.sync")
  /\ UNCHANGED <<marks, history, arg, seen, mine, out>>

\* A write that stops before its last byte: before the record is whole, or
\* before the newline.
WriteCutOff(p) ==
  \/ msgs' = Settled /\ tail' = "torn"
  \/ WriteRecord(p) /\ tail' = IF tail = "newline" THEN "bare" ELSE "torn"

AppendSync(p) ==
  /\ pc[p] = "append.sync"
  /\ Goto(p, "done")
  /\ UNCHANGED <<files, history, arg, seen, mine, out>>

AppendWriteFails(p) ==
  /\ IOFaults
  /\ pc[p] = "append.write"
  /\ WriteCutOff(p)
  /\ Goto(p, "failed")
  /\ UNCHANGED <<marks, history, arg, seen, mine, out>>

\* Reading the log, writing the newline, or Sync returns an error: Append does.
AppendFails(p) ==
  /\ IOFaults
  /\ pc[p] \in {"append.log", "append.newline", "append.sync"}
  /\ Goto(p, "failed")
  /\ UNCHANGED <<files, history, arg, seen, mine, out>>

-----------------------------------------------------------------------------
(* Fetch *)

FetchBegin(p, limit) == Begin(p, "fetch.log", limit)

FetchReadLog(p) ==
  /\ pc[p] = "fetch.log"
  /\ seen' = [seen EXCEPT ![p] = msgs]
  /\ Goto(p, "fetch.marks")
  /\ UNCHANGED <<files, history, arg, mine, out>>

\* The sequence numbers past a cursor, the first limit of them.
After(s, cursor, limit) ==
  {s[i].seq : i \in {j \in DOMAIN s :
     /\ s[j].seq > cursor
     /\ Cardinality({k \in 1..(j - 1) : s[k].seq > cursor}) < limit}}

\* Mutant of FetchReadMarks: goes by the wrong watermark.
FetchUnread(p) ==
  /\ pc[p] = "fetch.marks"
  /\ mine' = [mine EXCEPT ![p] = marks]
  /\ out' = [out EXCEPT ![p] = After(seen[p], marks.read, arg[p])]
  /\ Goto(p, IF out'[p] = {} THEN "done" ELSE "fetch.write")
  /\ UNCHANGED <<files, history, arg, seen>>

FetchReadMarks(p) ==
  /\ pc[p] = "fetch.marks"
  /\ mine' = [mine EXCEPT ![p] = marks]
  /\ out' = [out EXCEPT ![p] = After(seen[p], marks.delivered, arg[p])]
  /\ Goto(p, IF out'[p] = {} THEN "done" ELSE "fetch.write")
  /\ UNCHANGED <<files, history, arg, seen>>

\* Mutant of FetchWriteMarks: everything read is marked, not what is returned.
FetchMarksAll(p) ==
  /\ pc[p] = "fetch.write"
  /\ marks' = [mine[p] EXCEPT !.delivered = Max(SeqsOf(seen[p]))]
  /\ Goto(p, "done")
  /\ UNCHANGED <<msgs, tail, history, arg, seen, mine, out>>

FetchWriteMarks(p) ==
  /\ pc[p] = "fetch.write"
  /\ marks' = [mine[p] EXCEPT !.delivered = Max(out[p])]
  /\ Goto(p, "done")
  /\ UNCHANGED <<msgs, tail, history, arg, seen, mine, out>>

\* A read failed, or writeState: then the rename did not happen.
FetchFails(p) ==
  /\ IOFaults
  /\ pc[p] \in FetchPCs
  /\ out' = [out EXCEPT ![p] = {}]
  /\ Goto(p, "failed")
  /\ UNCHANGED <<files, history, arg, seen, mine>>

-----------------------------------------------------------------------------
(* Ack *)

AckBegin(p, cursor) == Begin(p, "ack.log", cursor)

AckReadLog(p) ==
  /\ pc[p] = "ack.log"
  /\ seen' = [seen EXCEPT ![p] = msgs]
  /\ Goto(p, "ack.marks")
  /\ UNCHANGED <<files, history, arg, mine, out>>

\* Mutants of Acked: delivered is left behind; an ack moves read back; a cursor
\* past the end is believed.
AckedOnly(m, s, cursor) ==
  LET last == IF s = <<>> THEN 0 ELSE s[Len(s)].seq
      upto == IF cursor > last THEN last ELSE cursor
  IN  [m EXCEPT !.read = Biggest(m.read, upto)]

AckedBackwards(m, s, cursor) ==
  LET last == IF s = <<>> THEN 0 ELSE s[Len(s)].seq
      upto == IF cursor > last THEN last ELSE cursor
  IN  [read |-> upto, delivered |-> Biggest(m.delivered, upto)]

AckedPastEnd(m, s, cursor) ==
  LET read == Biggest(m.read, cursor)
  IN  [read |-> read, delivered |-> Biggest(m.delivered, read)]

\* A cursor past the end is clamped; one behind the watermark changes nothing;
\* acknowledging implies having been handed the message.
Acked(m, s, cursor) ==
  LET last == IF s = <<>> THEN 0 ELSE s[Len(s)].seq
      upto == IF cursor > last THEN last ELSE cursor
      read == Biggest(m.read, upto)
  IN  [read |-> read, delivered |-> Biggest(m.delivered, read)]

AckReadMarks(p) ==
  /\ pc[p] = "ack.marks"
  /\ mine' = [mine EXCEPT ![p] = Acked(marks, seen[p], arg[p])]
  /\ Goto(p, IF mine'[p] = marks THEN "done" ELSE "ack.write")
  /\ UNCHANGED <<files, history, arg, seen, out>>

AckWriteMarks(p) ==
  /\ pc[p] = "ack.write"
  /\ marks' = mine[p]
  /\ Goto(p, "done")
  /\ UNCHANGED <<msgs, tail, history, arg, seen, mine, out>>

AckFails(p) ==
  /\ IOFaults
  /\ pc[p] \in AckPCs
  /\ Goto(p, "failed")
  /\ UNCHANGED <<files, history, arg, seen, mine, out>>

-----------------------------------------------------------------------------
(* What all calls share *)

Forget(p) ==
  /\ Goto(p, "idle")
  /\ arg' = [arg EXCEPT ![p] = 0]
  /\ seen' = [seen EXCEPT ![p] = <<>>]
  /\ mine' = [mine EXCEPT ![p] = NoMarks]
  /\ out' = [out EXCEPT ![p] = {}]

\* The deferred release has run and the client has the result.
Return(p) ==
  /\ pc[p] \in {"done", "failed"}
  /\ handed' = handed \cup out[p]
  /\ Forget(p)
  /\ UNCHANGED <<files, dropped>>

\* The process dies; in the middle of a write it leaves what it wrote.
Die(p) ==
  /\ pc[p] # "idle"
  /\ dropped' = dropped \cup IF pc[p] = "done" THEN out[p] ELSE {}
  /\ Forget(p)
  /\ \/ UNCHANGED files
     \/ pc[p] = "append.write" /\ WriteCutOff(p) /\ UNCHANGED marks
  /\ UNCHANGED handed

Start(p) ==
  \/ \E id \in Ids : AppendBegin(p, id)
  \/ \E limit \in Limits : FetchBegin(p, limit)
  \/ \E cursor \in Cursors : AckBegin(p, cursor)

AppendStep(p) ==
  \/ AppendReadLog(p) \/ AppendNewline(p) \/ AppendWrite(p) \/ AppendSync(p)
  \/ AppendWriteFails(p) \/ AppendFails(p)

FetchStep(p) == FetchReadLog(p) \/ FetchReadMarks(p) \/ FetchWriteMarks(p) \/ FetchFails(p)

AckStep(p) == AckReadLog(p) \/ AckReadMarks(p) \/ AckWriteMarks(p) \/ AckFails(p)

Step(p) == AppendStep(p) \/ FetchStep(p) \/ AckStep(p)

-----------------------------------------------------------------------------
Message == [seq : Nat \ {0}, id : Ids]
Marks == [delivered : Nat, read : Nat]

OpsTypeOK ==
  /\ msgs \in Seq(Message)
  /\ tail \in Tails
  /\ marks \in Marks
  /\ pc \in [Procs -> PCs]
  /\ arg \in [Procs -> Ids \cup Nat]
  /\ seen \in [Procs -> Seq(Message)]
  /\ mine \in [Procs -> Marks]
  /\ out \in [Procs -> SUBSET (Nat \ {0})]
  /\ handed \subseteq Nat \ {0}
  /\ dropped \subseteq Nat \ {0}

\* "a reader never sees the same id under two sequence numbers" (Append), and
\* the log has the messages in the order of their numbers, without a gap: Ack
\* clamps to the last line and Fetch takes the last line returned for the
\* greatest number.
LogInOrder ==
  /\ \A i \in DOMAIN msgs : msgs[i].seq = i
  /\ \A i, j \in DOMAIN msgs : msgs[i].id = msgs[j].id => i = j

\* Every acknowledged message was handed out, and every message handed out
\* exists (Ack, mailboxState).
MarksOrdered == marks.read <= marks.delivered /\ marks.delivered <= Len(msgs)

\* "each message comes out of Fetch exactly once, however many readers share
\* the mailbox" (Fetch): what a reader is about to return was returned to
\* nobody, and nobody else is about to return it.
HandedOnce ==
  \A p \in Procs :
    /\ out[p] \cap handed = {}
    /\ \A q \in Procs : out[p] \cap out[q] # {} => p = q

\* The watermark passes no message by: it was handed out, or is about to be, or
\* its reader died on the way, or a client acknowledged past it.
NothingPassedOver ==
  \A n \in 1..marks.delivered :
    \/ n \in handed \cup dropped \cup 1..marks.read
    \/ \E p \in Procs : pc[p] = "done" /\ n \in out[p]

\* A call of Append that returns without an error leaves its message in the
\* log, also when it found an earlier writer's torn line there.
StoredWhenAnswered ==
  \A p \in Procs : pc[p] = "done" /\ arg[p] \in Ids => arg[p] \in IdsOf(msgs)

\* "an append-only log" (Mailbox): no write takes an earlier message away.
LogIsAppendOnly ==
  [][/\ Len(msgs) <= Len(msgs')
     /\ SubSeq(msgs', 1, Len(msgs)) = msgs]_opvars

\* Find's status of a message, as a rank: 0 not stored, 1 queued, 2 delivered,
\* 3 read.
Standing(s, m, id) ==
  IF id \notin IdsOf(s) THEN 0
  ELSE LET n == (CHOOSE x \in Range(s) : x.id = id).seq
       IN  IF n <= m.read THEN 3 ELSE IF n <= m.delivered THEN 2 ELSE 1

\* A sender that saw "delivered" or "read" never sees less afterwards (Find).
StandingNeverFalls ==
  [][\A id \in Ids : Standing(msgs, marks, id) <= Standing(msgs', marks', id)]_opvars

ImplementedInbox == [i \in DOMAIN msgs |-> msgs[i].id]

Contract == INSTANCE Inbox
  WITH inbox <- ImplementedInbox, delivered <- marks.delivered, read <- marks.read

\* The readers' and senders' view: the promise of Inbox.
ImplementsInbox == Contract!Spec
=============================================================================
