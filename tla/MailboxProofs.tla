--------------------------- MODULE MailboxProofs ---------------------------
(***************************************************************************)
(* The operations of a mailbox for any number of calls, messages and       *)
(* cursors, with crashes and failing writes: the numbering of the log, the *)
(* order of the watermarks, each message handed out once, none passed      *)
(* over, and Inbox implemented.  All of it hangs on Append seeing how the  *)
(* log ends, and on calls taking turns.  Those of Mailbox do; so do those  *)
(* of the mailbox with its lock on disk, until a process dies.  The last   *)
(* section is about what is left then.                                     *)
(***************************************************************************)
EXTENDS Mailbox, FiniteSetTheorems, SequenceTheorems, TLAPS

TailsRead == ~TailUnread

(***************************************************************************)
(* What a lock is for: only one call at a time is under way.  Everything   *)
(* below is proved of the operations when they take turns, whatever makes  *)
(* them; Mailbox and MailboxOnDirLock do.                                  *)
(***************************************************************************)
OthersIdle(p) == \A q \in Procs \ {p} : pc[q] = "idle"

Turn(p) == OthersIdle(p) /\ (Start(p) \/ Step(p) \/ Return(p) \/ Die(p))

Turns == \E p \in Procs : Turn(p)

TakingTurns == InitOps /\ [][Turns]_opvars

(***************************************************************************)
(* The strengthening: what the call under way has read is still what the   *)
(* files say, and what it is about to write or return follows from it.     *)
(***************************************************************************)
OneAtATime == \A p, q \in Procs : pc[p] # "idle" /\ pc[q] # "idle" => p = q

HasLog == {"append.newline", "append.write", "fetch.marks", "fetch.write", "ack.marks", "ack.write"}

SnapshotsFresh == \A p \in Procs : pc[p] \in HasLog => seen[p] = msgs

AppendUnderWay(p) ==
  /\ pc[p] \in AppendPCs => arg[p] \in Ids
  /\ pc[p] \in {"append.newline", "append.write"} => arg[p] \notin IdsOf(msgs)
  /\ pc[p] = "append.write" => tail = "newline"
  /\ pc[p] = "append.sync" => arg[p] \in IdsOf(msgs)

FetchUnderWay(p) ==
  /\ pc[p] \in FetchPCs => arg[p] \in Nat \ {0}
  /\ pc[p] = "fetch.write" =>
       /\ mine[p] = marks
       /\ \E k \in (marks.delivered + 1)..Len(msgs) : out[p] = (marks.delivered + 1)..k
  /\ pc[p] = "done" => out[p] \subseteq 1..marks.delivered
  /\ pc[p] \notin {"fetch.write", "done"} => out[p] = {}

AckUnderWay(p) ==
  /\ pc[p] \in AckPCs => arg[p] \in Nat
  /\ pc[p] = "ack.write" =>
       /\ marks.read <= mine[p].read /\ marks.delivered <= mine[p].delivered
       /\ mine[p].read <= mine[p].delivered /\ mine[p].delivered <= Len(msgs)
       /\ mine[p].delivered \in {marks.delivered, mine[p].read}
       /\ mine[p] # marks

CallsUnderWay == \A p \in Procs : AppendUnderWay(p) /\ FetchUnderWay(p) /\ AckUnderWay(p)

BareIsLast == tail = "bare" => msgs # <<>>

History == handed \subseteq 1..marks.delivered /\ dropped \subseteq 1..marks.delivered

MailboxInv ==
  /\ OneAtATime /\ SnapshotsFresh /\ CallsUnderWay /\ BareIsLast /\ History
  /\ LogInOrder /\ MarksOrdered /\ HandedOnce /\ NothingPassedOver /\ StoredWhenAnswered

Inv == OpsTypeOK /\ MailboxInv

-----------------------------------------------------------------------------
(* What the operators compute on a log that is in order. *)

InOrder(s) == \A i \in DOMAIN s : s[i].seq = i

LEMMA MaxOfBlock ==
  ASSUME NEW m \in Nat, NEW n \in Nat, m <= n
  PROVE  Max(m..n) = n
<1>1. n \in m..n /\ \A x \in m..n : n >= x
  OBVIOUS
<1>2. \A x \in m..n : (\A y \in m..n : x >= y) => x = n
  OBVIOUS
<1>3. QED
  BY <1>1, <1>2 DEF Max

LEMMA NextSeqIsNext ==
  ASSUME NEW s \in Seq(Message), InOrder(s)
  PROVE  NextSeq(s) = Len(s) + 1
<1>1. CASE s = <<>>
  BY <1>1 DEF NextSeq
<1>2. CASE s # <<>>
  <2>1. Len(s) \in Nat /\ Len(s) >= 1 /\ DOMAIN s = 1..Len(s)
    BY <1>2, EmptySeq, LenProperties
  <2>2. SeqsOf(s) = 1..Len(s)
    BY <2>1 DEF SeqsOf, InOrder
  <2>3. QED
    BY <1>2, <2>1, <2>2, MaxOfBlock DEF NextSeq
<1>3. QED
  BY <1>1, <1>2

LEMMA LessOrEqual ==
  ASSUME NEW m \in Nat, NEW n \in Nat, m <= n
  PROVE  m = n \/ m < n
OBVIOUS

LEMMA AfterIsBlock ==
  ASSUME NEW s \in Seq(Message), InOrder(s),
         NEW c \in Nat, c <= Len(s), NEW limit \in Nat \ {0}
  PROVE  \/ After(s, c, limit) = {}
         \/ \E k \in (c + 1)..Len(s) : After(s, c, limit) = (c + 1)..k
<1>1. Len(s) \in Nat /\ DOMAIN s = 1..Len(s)
  BY LenProperties
<1> DEFINE Before(j) == {k \in 1..(j - 1) : s[k].seq > c}
<1>2. ASSUME NEW j \in DOMAIN s, j > c
      PROVE  Cardinality(Before(j)) = j - 1 - c
  <2>1. Before(j) = (c + 1)..(j - 1)
    BY <1>1, <1>2 DEF InOrder
  <2>2. c + 1 \in Int /\ j - 1 \in Int /\ c + 1 <= j
    BY <1>1, <1>2
  <2>3. Cardinality((c + 1)..(j - 1)) =
          IF c + 1 > j - 1 THEN 0 ELSE (j - 1) - (c + 1) + 1
    BY <2>2, FS_Interval, Zenon
  <2> HIDE DEF Before
  <2>4. QED
    BY <1>1, <2>1, <2>2, <2>3
<1>3. After(s, c, limit) = {j \in DOMAIN s : j > c /\ j - 1 - c < limit}
  <2> DEFINE Numbers(S) == {s[i].seq : i \in S}
             Chosen == {j \in DOMAIN s : s[j].seq > c /\ Cardinality(Before(j)) < limit}
             Block == {j \in DOMAIN s : j > c /\ j - 1 - c < limit}
  <2>1. After(s, c, limit) = Numbers(Chosen)
    BY DEF After
  <2>2. Chosen = Block
    <3> HIDE DEF Before
    <3> QED
      BY <1>1, <1>2 DEF InOrder
  <2>3. Numbers(Block) = Block
    BY DEF InOrder
  <2> HIDE DEF Numbers, Chosen
  <2>4. QED
    BY <2>1, <2>2, <2>3
<1>4. CASE c + limit <= Len(s)
  <2>1. After(s, c, limit) = (c + 1)..(c + limit)
    BY <1>1, <1>3, <1>4
  <2>2. QED
    BY <1>1, <1>4, <2>1
<1>5. CASE c + limit > Len(s)
  <2>1. After(s, c, limit) = (c + 1)..Len(s)
    BY <1>1, <1>3, <1>5
  <2>2. CASE c = Len(s)
    <3>1. After(s, c, limit) = {}
      BY <1>1, <2>1, <2>2
    <3>2. QED
      BY <3>1
  <2>3. CASE c < Len(s)
    <3>1. Len(s) \in (c + 1)..Len(s)
      BY <1>1, <2>3
    <3>2. QED
      BY <2>1, <3>1, Zenon
  <2>4. c = Len(s) \/ c < Len(s)
    BY <1>1, LessOrEqual, Zenon
  <2>5. QED
    BY <2>2, <2>3, <2>4, Zenon
<1>6. c + limit <= Len(s) \/ c + limit > Len(s)
  BY <1>1
<1>7. QED
  BY <1>4, <1>5, <1>6, Zenon

\* Storing a message with the next number and a new id keeps the log in order.
LEMMA StoredInOrder ==
  ASSUME OpsTypeOK, LogInOrder, NEW id \in Ids, id \notin IdsOf(msgs),
         msgs' = Append(msgs, [seq |-> Len(msgs) + 1, id |-> id])
  PROVE  /\ msgs' \in Seq(Message)
         /\ LogInOrder'
         /\ Len(msgs') = Len(msgs) + 1
         /\ IdsOf(msgs') = IdsOf(msgs) \cup {id}
<1> DEFINE m == [seq |-> Len(msgs) + 1, id |-> id]
<1>1. Len(msgs) \in Nat /\ DOMAIN msgs = 1..Len(msgs) /\ msgs \in Seq(Message)
  BY LenProperties DEF OpsTypeOK
<1>2. m \in Message
  BY <1>1 DEF Message
<1>3. /\ msgs' \in Seq(Message)
      /\ Len(msgs') = Len(msgs) + 1
      /\ \A i \in 1..Len(msgs) : msgs'[i] = msgs[i]
      /\ msgs'[Len(msgs) + 1] = m
  BY <1>1, <1>2, AppendProperties
<1>4. DOMAIN msgs' = 1..(Len(msgs) + 1)
  BY <1>3, LenProperties
<1>5. \A i \in 1..Len(msgs) : msgs'[i].id \in IdsOf(msgs)
  BY <1>1, <1>3 DEF IdsOf
<1>6. LogInOrder'
  BY <1>1, <1>3, <1>4, <1>5 DEF LogInOrder, IdsOf
<1>7. IdsOf(msgs') = IdsOf(msgs) \cup {id}
  <2>1. \A i \in DOMAIN msgs' : msgs'[i].id \in IdsOf(msgs) \cup {id}
    BY <1>1, <1>3, <1>4, <1>5
  <2>2. \A i \in DOMAIN msgs : msgs[i].id = msgs'[i].id /\ i \in DOMAIN msgs'
    BY <1>1, <1>3, <1>4
  <2>3. id = msgs'[Len(msgs) + 1].id /\ Len(msgs) + 1 \in DOMAIN msgs'
    BY <1>1, <1>3, <1>4
  <2>4. QED
    BY <2>1, <2>2, <2>3 DEF IdsOf
<1>8. QED
  BY <1>3, <1>6, <1>7
-----------------------------------------------------------------------------
(***************************************************************************)
(* One call at a time: an invariant about all calls follows from what it   *)
(* says of the one that moves.                                             *)
(***************************************************************************)
Alone(p) == \A q \in Procs \ {p} : pc[q] = "idle" /\ out[q] = {}

LEMMA MoverIsAlone ==
  ASSUME Inv, NEW p \in Procs, OthersIdle(p)
  PROVE  Alone(p)
BY DEF Inv, MailboxInv, CallsUnderWay, FetchUnderWay, Alone, OthersIdle

MoverInv(p) ==
  /\ pc[p] \in HasLog => seen[p] = msgs
  /\ AppendUnderWay(p) /\ FetchUnderWay(p) /\ AckUnderWay(p)
  /\ pc[p] = "done" /\ arg[p] \in Ids => arg[p] \in IdsOf(msgs)
  /\ out[p] \cap handed = {}

FilesInv == BareIsLast /\ History /\ LogInOrder /\ MarksOrdered /\ NothingPassedOver

LEMMA FromMover ==
  ASSUME NEW p \in Procs, Alone(p)', MoverInv(p)', FilesInv'
  PROVE  MailboxInv'
<1> USE DEF Alone, MoverInv, FilesInv
<1>1. OneAtATime'
  BY DEF OneAtATime
<1>2. SnapshotsFresh'
  BY DEF SnapshotsFresh, HasLog
<1>3. CallsUnderWay'
  BY DEF CallsUnderWay, AppendUnderWay, FetchUnderWay, AckUnderWay, AppendPCs, FetchPCs, AckPCs
<1>4. HandedOnce' /\ StoredWhenAnswered'
  BY DEF HandedOnce, StoredWhenAnswered
<1>5. QED
  BY <1>1, <1>2, <1>3, <1>4 DEF MailboxInv

LEMMA ToMover ==
  ASSUME Inv, NEW p \in Procs
  PROVE  MoverInv(p) /\ FilesInv
BY DEF Inv, MailboxInv, OneAtATime, SnapshotsFresh, CallsUnderWay, HandedOnce,
       StoredWhenAnswered, MoverInv, FilesInv

-----------------------------------------------------------------------------
(* The steps of Append. *)

\* The last write of Append, whole or cut off, leaves the log in order and
\* every message in it that was there.
LEMMA WriteInv ==
  ASSUME Inv, NEW p \in Procs, pc[p] = "append.write",
         \/ WriteRecord(p) /\ tail' = "newline"
         \/ WriteCutOff(p),
         UNCHANGED <<marks, history>>,
         \A q \in Procs : pc'[q] # "done"
  PROVE  /\ msgs' \in Seq(Message) /\ tail' \in Tails
         /\ FilesInv'
         /\ WriteRecord(p) => arg[p] \in IdsOf(msgs')
<1> USE DEF OpsTypeOK
<1>1. OpsTypeOK /\ FilesInv /\ tail = "newline" /\ seen[p] = msgs /\ arg[p] \in Ids \ IdsOf(msgs)
  BY ToMover DEF Inv, MoverInv, HasLog, AppendUnderWay, AppendPCs
<1>2. \A q \in Procs : pc[q] # "done"
  BY DEF Inv, MailboxInv, OneAtATime
<1>3. NextSeq(msgs) = Len(msgs) + 1
  BY <1>1, NextSeqIsNext DEF FilesInv, LogInOrder, InOrder
<1>4. CASE WriteRecord(p)
  <2>1. msgs' = Append(msgs, [seq |-> Len(msgs) + 1, id |-> arg[p]])
    BY <1>1, <1>3, <1>4 DEF WriteRecord, NewMessage
  <2>2. /\ msgs' \in Seq(Message) /\ LogInOrder' /\ Len(msgs') = Len(msgs) + 1
        /\ IdsOf(msgs') = IdsOf(msgs) \cup {arg[p]}
    BY <1>1, <2>1, StoredInOrder DEF FilesInv
  <2>3. Len(msgs) \in Nat /\ msgs' # <<>>
    BY <1>1, <2>2, LenProperties, EmptySeq
  <2>4. tail' \in Tails
    BY <1>1 DEF WriteCutOff, Tails
  <2>5. MarksOrdered'
    BY <1>1, <2>2, <2>3 DEF FilesInv, MarksOrdered, Marks
  <2>6. NothingPassedOver' /\ BareIsLast' /\ History'
    BY <1>1, <1>2, <2>3 DEF FilesInv, NothingPassedOver, BareIsLast, History, history
  <2>7. QED
    BY <2>2, <2>4, <2>5, <2>6 DEF FilesInv
<1>5. CASE msgs' = Settled /\ tail' = "torn"
  <2>1. msgs' = msgs /\ tail' \in Tails
    BY <1>1, <1>5 DEF Settled, Tails
  <2>2. FilesInv'
    BY <1>1, <1>2, <1>5, <2>1
       DEF FilesInv, NothingPassedOver, BareIsLast, History, LogInOrder, MarksOrdered, history
  <2>3. ~WriteRecord(p) \/ arg[p] \in IdsOf(msgs')
    BY <1>4
  <2>4. QED
    BY <1>1, <2>1, <2>2, <2>3
<1>6. QED
  BY <1>4, <1>5 DEF WriteCutOff

LEMMA AppendStepInv ==
  ASSUME TailsRead, Inv, NEW p \in Procs, OthersIdle(p), AppendStep(p)
  PROVE  Inv'
<1> USE DEF files, locals, history, Goto
<1>1. Alone(p)
  BY MoverIsAlone
<1>2. MoverInv(p) /\ FilesInv /\ OpsTypeOK
  BY ToMover DEF Inv
<1> USE <1>1, <1>2 DEF Alone, OpsTypeOK, PCs, AppendPCs, FetchPCs, AckPCs
<1>3. CASE AppendReadLog(p)
  <2> USE <1>3 DEF AppendReadLog
  <2>1. OpsTypeOK' /\ Alone(p)'
    OBVIOUS
  <2>2. MoverInv(p)'
    BY DEF MoverInv, HasLog, AppendUnderWay, FetchUnderWay, AckUnderWay
  <2>3. FilesInv'
    BY DEF FilesInv, BareIsLast, History, LogInOrder, MarksOrdered, NothingPassedOver
  <2>4. QED
    BY <2>1, <2>2, <2>3, FromMover DEF Inv
<1>4. CASE AppendNewline(p)
  <2> USE <1>4 DEF AppendNewline, TailsRead
  <2>1. OpsTypeOK' /\ Alone(p)'
    BY DEF Tails
  <2>2. MoverInv(p)'
    BY DEF MoverInv, HasLog, AppendUnderWay, FetchUnderWay, AckUnderWay
  <2>3. FilesInv'
    BY DEF FilesInv, BareIsLast, History, LogInOrder, MarksOrdered, NothingPassedOver
  <2>4. QED
    BY <2>1, <2>2, <2>3, FromMover DEF Inv
<1>5. CASE AppendWrite(p) \/ AppendWriteFails(p)
  <2> USE <1>5 DEF AppendWrite, AppendWriteFails
  <2>1. \A q \in Procs : pc'[q] # "done"
    OBVIOUS
  <2>2. /\ msgs' \in Seq(Message) /\ tail' \in Tails /\ FilesInv'
        /\ WriteRecord(p) => arg[p] \in IdsOf(msgs')
    BY <2>1, WriteInv
  <2>3. OpsTypeOK' /\ Alone(p)'
    BY <2>2
  <2>4. MoverInv(p)'
    BY <2>2 DEF MoverInv, HasLog, AppendUnderWay, FetchUnderWay, AckUnderWay
  <2>5. QED
    BY <2>2, <2>3, <2>4, FromMover DEF Inv
<1>6. CASE AppendSync(p) \/ AppendFails(p)
  <2> USE <1>6 DEF AppendSync, AppendFails
  <2>1. OpsTypeOK' /\ Alone(p)'
    OBVIOUS
  <2>2. MoverInv(p)'
    BY DEF MoverInv, HasLog, AppendUnderWay, FetchUnderWay, AckUnderWay
  <2>3. FilesInv'
    BY DEF FilesInv, BareIsLast, History, LogInOrder, MarksOrdered, NothingPassedOver
  <2>4. QED
    BY <2>1, <2>2, <2>3, FromMover DEF Inv
<1>7. QED
  BY <1>3, <1>4, <1>5, <1>6 DEF AppendStep

-----------------------------------------------------------------------------
(* The steps of Fetch and Ack. *)

\* What Fetch returns is the block after the delivered watermark.
LEMMA NextBlock ==
  ASSUME OpsTypeOK, LogInOrder, MarksOrdered, NEW limit \in Nat \ {0}
  PROVE  \/ After(msgs, marks.delivered, limit) = {}
         \/ \E k \in (marks.delivered + 1)..Len(msgs) :
              After(msgs, marks.delivered, limit) = (marks.delivered + 1)..k
<1>1. msgs \in Seq(Message) /\ marks.delivered \in Nat /\ marks.delivered <= Len(msgs)
  BY DEF OpsTypeOK, Marks, MarksOrdered
<1>2. InOrder(msgs)
  BY DEF LogInOrder, InOrder
<1>3. QED
  BY <1>1, <1>2, AfterIsBlock, Zenon

LEMMA FetchStepInv ==
  ASSUME Inv, NEW p \in Procs, OthersIdle(p), FetchStep(p)
  PROVE  Inv'
<1> USE DEF files, locals, history, Goto
<1>1. Alone(p)
  BY MoverIsAlone
<1>2. MoverInv(p) /\ FilesInv /\ OpsTypeOK
  BY ToMover DEF Inv
<1> USE <1>1, <1>2 DEF Alone, OpsTypeOK, PCs, AppendPCs, FetchPCs, AckPCs
<1>3. CASE FetchReadLog(p)
  <2> USE <1>3 DEF FetchReadLog
  <2>1. OpsTypeOK' /\ Alone(p)'
    OBVIOUS
  <2>2. MoverInv(p)'
    BY DEF MoverInv, HasLog, AppendUnderWay, FetchUnderWay, AckUnderWay
  <2>3. FilesInv'
    BY DEF FilesInv, BareIsLast, History, LogInOrder, MarksOrdered, NothingPassedOver
  <2>4. QED
    BY <2>1, <2>2, <2>3, FromMover DEF Inv
<1>4. CASE FetchReadMarks(p)
  <2> USE <1>4 DEF FetchReadMarks
  <2> DEFINE d == marks.delivered
             block == After(seen[p], d, arg[p])
  <2>1. /\ d \in Nat /\ Len(msgs) \in Nat /\ d <= Len(msgs)
        /\ seen[p] = msgs /\ InOrder(msgs) /\ arg[p] \in Nat \ {0}
    BY LenProperties DEF MoverInv, HasLog, FetchUnderWay, FilesInv, MarksOrdered, Marks,
                         LogInOrder, InOrder
  <2>2. block = {} \/ \E k \in (d + 1)..Len(msgs) : block = (d + 1)..k
    BY <2>1, NextBlock DEF FilesInv
  <2>3. out'[p] = block /\ mine'[p] = marks
    OBVIOUS
  <2> HIDE DEF block
  <2>4. block \in SUBSET (Nat \ {0})
    BY <2>1, <2>2
  <2>5. OpsTypeOK' /\ Alone(p)'
    <3>1. out' = [out EXCEPT ![p] = block]
      BY DEF block
    <3>2. pc' \in [Procs -> PCs]
      OBVIOUS
    <3>3. out' \in [Procs -> SUBSET (Nat \ {0})]
      BY <2>4, <3>1
    <3>4. QED
      BY <3>2, <3>3
  <2>6. MoverInv(p)'
    <3>1. block \cap handed = {}
      BY <2>1, <2>2 DEF FilesInv, History
    <3>2. FetchUnderWay(p)'
      BY <2>1, <2>2, <2>3 DEF FetchUnderWay
    <3>3. QED
      BY <2>1, <2>3, <3>1, <3>2, IdsAssumption DEF MoverInv, HasLog, AppendUnderWay, AckUnderWay
  <2>7. FilesInv'
    BY DEF FilesInv, BareIsLast, History, LogInOrder, MarksOrdered, NothingPassedOver
  <2>8. QED
    BY <2>5, <2>6, <2>7, FromMover DEF Inv
<1>5. CASE FetchWriteMarks(p)
  <2> USE <1>5 DEF FetchWriteMarks
  <2> DEFINE d == marks.delivered
  <2>1. /\ d \in Nat /\ Len(msgs) \in Nat /\ mine[p] = marks
        /\ out[p] \cap handed = {} /\ marks.read \in Nat /\ marks.read <= d
    BY LenProperties DEF MoverInv, FetchUnderWay, FilesInv, MarksOrdered, Marks
  <2>2. PICK k \in (d + 1)..Len(msgs) : out[p] = (d + 1)..k
    BY DEF MoverInv, FetchUnderWay
  <2>3. Max(out[p]) = k /\ k \in Nat
    <3>1. d + 1 \in Nat /\ k \in Nat /\ d + 1 <= k
      BY <2>1
    <3>2. Max((d + 1)..k) = k
      BY <3>1, MaxOfBlock
    <3>3. QED
      BY <2>2, <3>1, <3>2
  <2>4. marks' = [marks EXCEPT !.delivered = k]
    BY <2>1, <2>3
  <2>5. marks' \in Marks /\ marks'.delivered = k /\ marks'.read = marks.read
    BY <2>1, <2>3, <2>4 DEF Marks
  <2>6. OpsTypeOK' /\ Alone(p)'
    BY <2>5
  <2>7. MoverInv(p)'
    <3>1. arg[p] \notin Ids
      BY IdsAssumption DEF MoverInv, FetchUnderWay
    <3>2. out[p] \subseteq 1..k
      BY <2>1, <2>2
    <3>3. QED
      BY <2>1, <2>5, <3>1, <3>2 DEF MoverInv, HasLog, AppendUnderWay, FetchUnderWay, AckUnderWay
  <2>8. FilesInv'
    <3>1. ASSUME NEW n \in 1..k
          PROVE  \/ n \in handed \cup dropped \cup 1..marks.read
                 \/ n \in out[p]
      <4>1. CASE n <= d
        <5>1. n \in 1..d
          BY <2>1, <3>1, <4>1
        <5>2. \A q \in Procs : pc[q] # "done"
          OBVIOUS
        <5>3. QED
          BY <5>1, <5>2 DEF FilesInv, NothingPassedOver
      <4>2. CASE n > d
        BY <2>1, <2>2, <3>1, <4>2
      <4>3. QED
        BY <2>1, <3>1, <4>1, <4>2
    <3>2. NothingPassedOver'
      BY <2>5, <3>1 DEF NothingPassedOver
    <3>3. History' /\ MarksOrdered'
      BY <2>1, <2>2, <2>5 DEF FilesInv, History, MarksOrdered
    <3>4. QED
      BY <3>2, <3>3 DEF FilesInv, BareIsLast, LogInOrder
  <2>9. QED
    BY <2>6, <2>7, <2>8, FromMover DEF Inv
<1>6. CASE FetchFails(p)
  <2> USE <1>6 DEF FetchFails
  <2>1. OpsTypeOK' /\ Alone(p)'
    OBVIOUS
  <2>2. MoverInv(p)'
    BY DEF MoverInv, HasLog, AppendUnderWay, FetchUnderWay, AckUnderWay
  <2>3. FilesInv'
    BY DEF FilesInv, BareIsLast, History, LogInOrder, MarksOrdered, NothingPassedOver
  <2>4. QED
    BY <2>1, <2>2, <2>3, FromMover DEF Inv
<1>7. QED
  BY <1>3, <1>4, <1>5, <1>6 DEF FetchStep

LEMMA AckStepInv ==
  ASSUME Inv, NEW p \in Procs, OthersIdle(p), AckStep(p)
  PROVE  Inv'
<1> USE DEF files, locals, history, Goto
<1>1. Alone(p)
  BY MoverIsAlone
<1>2. MoverInv(p) /\ FilesInv /\ OpsTypeOK
  BY ToMover DEF Inv
<1> USE <1>1, <1>2 DEF Alone, OpsTypeOK, PCs, AppendPCs, FetchPCs, AckPCs
<1>3. CASE AckReadLog(p)
  <2> USE <1>3 DEF AckReadLog
  <2>1. OpsTypeOK' /\ Alone(p)'
    OBVIOUS
  <2>2. MoverInv(p)'
    BY DEF MoverInv, HasLog, AppendUnderWay, FetchUnderWay, AckUnderWay
  <2>3. FilesInv'
    BY DEF FilesInv, BareIsLast, History, LogInOrder, MarksOrdered, NothingPassedOver
  <2>4. QED
    BY <2>1, <2>2, <2>3, FromMover DEF Inv
<1>4. CASE AckReadMarks(p)
  <2> USE <1>4 DEF AckReadMarks
  <2> DEFINE new == Acked(marks, seen[p], arg[p])
  <2>1. /\ seen[p] = msgs /\ arg[p] \in Nat /\ Len(msgs) \in Nat
        /\ marks.read \in Nat /\ marks.delivered \in Nat
        /\ marks.read <= marks.delivered /\ marks.delivered <= Len(msgs)
    BY LenProperties DEF MoverInv, HasLog, AckUnderWay, FilesInv, MarksOrdered, Marks
  <2>2. (IF msgs = <<>> THEN 0 ELSE msgs[Len(msgs)].seq) = Len(msgs)
    BY <2>1, EmptySeq, LenProperties DEF FilesInv, LogInOrder
  <2>3. /\ new \in Marks
        /\ marks.read <= new.read /\ marks.delivered <= new.delivered
        /\ new.read <= new.delivered /\ new.delivered <= Len(msgs)
        /\ new.delivered \in {marks.delivered, new.read}
    BY <2>1, <2>2 DEF Acked, Biggest, Marks
  <2>4. mine' = [mine EXCEPT ![p] = new] /\ mine'[p] = new
    OBVIOUS
  <2> HIDE DEF new
  <2>5. OpsTypeOK' /\ Alone(p)'
    BY <2>3, <2>4
  <2>6. MoverInv(p)'
    <3>1. arg[p] \notin Ids
      BY <2>1, IdsAssumption
    <3>2. QED
      BY <2>1, <2>3, <2>4, <3>1 DEF MoverInv, HasLog, AppendUnderWay, FetchUnderWay, AckUnderWay
  <2>7. FilesInv'
    BY DEF FilesInv, BareIsLast, History, LogInOrder, MarksOrdered, NothingPassedOver
  <2>8. QED
    BY <2>5, <2>6, <2>7, FromMover DEF Inv
<1>5. CASE AckWriteMarks(p)
  <2> USE <1>5 DEF AckWriteMarks
  <2>1. /\ mine[p] \in Marks /\ marks' = mine[p] /\ Len(msgs) \in Nat
        /\ marks.read \in Nat /\ marks.delivered \in Nat
        /\ marks'.read \in Nat /\ marks'.delivered \in Nat
        /\ marks.read <= marks'.read /\ marks.delivered <= marks'.delivered
        /\ marks'.read <= marks'.delivered /\ marks'.delivered <= Len(msgs)
        /\ marks'.delivered \in {marks.delivered, marks'.read}
    BY LenProperties DEF MoverInv, AckUnderWay, Marks
  <2>2. OpsTypeOK' /\ Alone(p)'
    BY <2>1
  <2>3. MoverInv(p)'
    <3>1. arg[p] \notin Ids
      BY IdsAssumption DEF MoverInv, AckUnderWay
    <3>2. QED
      BY <2>1, <3>1 DEF MoverInv, HasLog, AppendUnderWay, FetchUnderWay, AckUnderWay
  <2>4. FilesInv'
    <3>1. ASSUME NEW n \in 1..marks.delivered
          PROVE  n \in handed \cup dropped \cup 1..marks.read
      BY <2>1, <3>1 DEF FilesInv, NothingPassedOver
    <3>2. NothingPassedOver'
      BY <2>1, <3>1 DEF NothingPassedOver
    <3>3. History' /\ MarksOrdered'
      BY <2>1 DEF FilesInv, History, MarksOrdered
    <3>4. QED
      BY <3>2, <3>3 DEF FilesInv, BareIsLast, LogInOrder
  <2>5. QED
    BY <2>2, <2>3, <2>4, FromMover DEF Inv
<1>6. CASE AckFails(p)
  <2> USE <1>6 DEF AckFails
  <2>1. OpsTypeOK' /\ Alone(p)'
    OBVIOUS
  <2>2. MoverInv(p)'
    BY DEF MoverInv, HasLog, AppendUnderWay, FetchUnderWay, AckUnderWay
  <2>3. FilesInv'
    BY DEF FilesInv, BareIsLast, History, LogInOrder, MarksOrdered, NothingPassedOver
  <2>4. QED
    BY <2>1, <2>2, <2>3, FromMover DEF Inv
<1>7. QED
  BY <1>3, <1>4, <1>5, <1>6 DEF AckStep

-----------------------------------------------------------------------------
(* The beginning and the end of a call. *)

LEMMA StartInv ==
  ASSUME Inv, NEW p \in Procs, OthersIdle(p), Start(p)
  PROVE  Inv'
<1> USE DEF files, locals, history, Goto
<1>1. Alone(p)
  BY MoverIsAlone
<1>2. MoverInv(p) /\ FilesInv /\ OpsTypeOK
  BY ToMover DEF Inv
<1>3. PICK l \in {"append.log", "fetch.log", "ack.log"}, a \in Ids \cup Nat :
        /\ Begin(p, l, a)
        /\ l = "append.log" => a \in Ids
        /\ l = "fetch.log" => a \in Nat \ {0}
        /\ l = "ack.log" => a \in Nat
  BY LimitsAssumption, CursorsAssumption
     DEF Start, AppendBegin, FetchBegin, AckBegin
<1> USE <1>1, <1>2, <1>3 DEF Alone, OpsTypeOK, PCs, AppendPCs, FetchPCs, AckPCs, Begin
<1>4. OpsTypeOK' /\ Alone(p)'
  OBVIOUS
<1>5. MoverInv(p)'
  BY DEF MoverInv, HasLog, AppendUnderWay, FetchUnderWay, AckUnderWay
<1>6. FilesInv'
  BY DEF FilesInv, BareIsLast, History, LogInOrder, MarksOrdered, NothingPassedOver
<1>7. QED
  BY <1>4, <1>5, <1>6, FromMover DEF Inv

LEMMA ReturnInv ==
  ASSUME Inv, NEW p \in Procs, OthersIdle(p), Return(p)
  PROVE  Inv'
<1> USE DEF files, locals, history, Goto
<1>1. Alone(p)
  BY MoverIsAlone
<1>2. MoverInv(p) /\ FilesInv /\ OpsTypeOK
  BY ToMover DEF Inv
<1> USE <1>1, <1>2
        DEF Alone, OpsTypeOK, PCs, AppendPCs, FetchPCs, AckPCs, Return, Forget
<1>3. OpsTypeOK' /\ Alone(p)'
  <2>1. handed' \subseteq Nat \ {0}
    OBVIOUS
  <2>2. QED
    BY <2>1 DEF NoMarks, Marks
<1>4. MoverInv(p)'
  BY DEF MoverInv, HasLog, AppendUnderWay, FetchUnderWay, AckUnderWay
<1>5. FilesInv'
  <2>1. handed' \subseteq 1..marks.delivered
    BY DEF MoverInv, FetchUnderWay, FilesInv, History
  <2>2. NothingPassedOver'
    <3>1. ASSUME NEW n \in 1..marks.delivered, NEW q \in Procs, n \in out[q]
          PROVE  n \in handed'
      BY <3>1
    <3>2. QED
      BY <3>1 DEF FilesInv, NothingPassedOver
  <2>3. QED
    BY <2>1, <2>2 DEF FilesInv, BareIsLast, History, LogInOrder, MarksOrdered
<1>6. QED
  BY <1>3, <1>4, <1>5, FromMover DEF Inv

LEMMA DieInv ==
  ASSUME Inv, NEW p \in Procs, OthersIdle(p), Die(p)
  PROVE  Inv'
<1> USE DEF files, locals, history, Goto
<1>1. Alone(p)
  BY MoverIsAlone
<1>2. MoverInv(p) /\ FilesInv /\ OpsTypeOK
  BY ToMover DEF Inv
<1> USE <1>1, <1>2
        DEF Alone, OpsTypeOK, PCs, AppendPCs, FetchPCs, AckPCs, Die, Forget
<1>3. \A q \in Procs : pc'[q] # "done"
  OBVIOUS
<1>4. msgs' \in Seq(Message) /\ tail' \in Tails /\ FilesInv' /\ marks' = marks
  <2>1. CASE UNCHANGED files
    <3>1. dropped' \subseteq 1..marks.delivered
      BY DEF MoverInv, FetchUnderWay, FilesInv, History
    <3>2. NothingPassedOver'
      <4>1. ASSUME NEW n \in 1..marks.delivered, NEW q \in Procs, pc[q] = "done", n \in out[q]
            PROVE  n \in dropped'
        BY <4>1
      <4>2. QED
        BY <2>1, <4>1 DEF FilesInv, NothingPassedOver
    <3>3. QED
      BY <2>1, <3>1, <3>2 DEF FilesInv, BareIsLast, History, LogInOrder, MarksOrdered
  <2>2. CASE pc[p] = "append.write" /\ WriteCutOff(p) /\ UNCHANGED marks
    <3>1. UNCHANGED <<marks, history>>
      BY <2>2
    <3>2. QED
      BY <1>3, <2>2, <3>1, WriteInv
  <2>3. QED
    BY <2>1, <2>2
<1>5. OpsTypeOK' /\ Alone(p)'
  <2>1. dropped' \subseteq Nat \ {0}
    OBVIOUS
  <2>2. QED
    BY <1>4, <2>1 DEF NoMarks, Marks
<1>6. MoverInv(p)'
  BY DEF MoverInv, HasLog, AppendUnderWay, FetchUnderWay, AckUnderWay
<1>7. QED
  BY <1>4, <1>5, <1>6, FromMover DEF Inv

-----------------------------------------------------------------------------
LEMMA InvInit == InitOps => Inv
<1> SUFFICES ASSUME InitOps PROVE Inv
  OBVIOUS
<1> USE DEF InitOps
<1>1. OpsTypeOK
  BY DEF OpsTypeOK, Tails, Marks, NoMarks, PCs
<1>2. OneAtATime /\ SnapshotsFresh /\ CallsUnderWay /\ BareIsLast /\ History
  BY DEF OneAtATime, SnapshotsFresh, HasLog, CallsUnderWay, AppendUnderWay, FetchUnderWay,
         AckUnderWay, AppendPCs, FetchPCs, AckPCs, BareIsLast, History
<1>3. LogInOrder /\ MarksOrdered /\ HandedOnce /\ NothingPassedOver /\ StoredWhenAnswered
  BY DEF LogInOrder, MarksOrdered, NoMarks, HandedOnce, NothingPassedOver, StoredWhenAnswered
<1>4. QED
  BY <1>1, <1>2, <1>3 DEF Inv, MailboxInv

LEMMA InvStep == ASSUME TailsRead PROVE Inv /\ [Turns]_opvars => Inv'
<1> SUFFICES ASSUME Inv, [Turns]_opvars PROVE Inv'
  OBVIOUS
<1>1. ASSUME NEW p \in Procs, OthersIdle(p), Step(p)
      PROVE  Inv'
  BY <1>1, AppendStepInv, FetchStepInv, AckStepInv DEF Step
<1>2. CASE UNCHANGED opvars
  BY <1>2 DEF opvars, files, locals, history, Inv, MailboxInv, OpsTypeOK, OneAtATime,
     SnapshotsFresh, CallsUnderWay, AppendUnderWay, FetchUnderWay, AckUnderWay, BareIsLast,
     History, LogInOrder, MarksOrdered, HandedOnce, NothingPassedOver, StoredWhenAnswered
<1>3. QED
  BY <1>1, <1>2, StartInv, ReturnInv, DieInv DEF Turns, Turn

LEMMA InvHolds == ASSUME TailsRead PROVE TakingTurns => []Inv
BY InvInit, InvStep, PTL DEF TakingTurns

-----------------------------------------------------------------------------
(***************************************************************************)
(* What a step does to the files, as a client of the mailbox sees it.      *)
(***************************************************************************)
Stores(id) ==
  /\ id \notin IdsOf(msgs)
  /\ msgs' = Append(msgs, [seq |-> Len(msgs) + 1, id |-> id])
  /\ UNCHANGED marks

HandsOut(k) ==
  /\ k \in (marks.delivered + 1)..Len(msgs)
  /\ marks'.delivered = k /\ marks'.read = marks.read
  /\ UNCHANGED msgs

Acknowledges(k) ==
  /\ k \in (marks.read + 1)..Len(msgs)
  /\ marks'.read = k /\ marks'.delivered = Biggest(k, marks.delivered)
  /\ UNCHANGED msgs

Visible ==
  \/ UNCHANGED <<msgs, marks>>
  \/ \E id \in Ids : Stores(id)
  \/ \E k \in 1..Len(msgs) : HandsOut(k) \/ Acknowledges(k)

LEMMA VisibleWrite ==
  ASSUME Inv, NEW p \in Procs, pc[p] = "append.write", UNCHANGED marks,
         WriteRecord(p) \/ WriteCutOff(p)
  PROVE  Visible
<1>1. /\ OpsTypeOK /\ FilesInv /\ tail = "newline"
      /\ seen[p] = msgs /\ arg[p] \in Ids \ IdsOf(msgs)
  BY ToMover DEF Inv, MoverInv, HasLog, AppendUnderWay, AppendPCs
<1>2. NextSeq(msgs) = Len(msgs) + 1
  BY <1>1, NextSeqIsNext DEF FilesInv, LogInOrder, InOrder, OpsTypeOK
<1>3. CASE WriteRecord(p)
  <2>1. Stores(arg[p])
    BY <1>1, <1>2, <1>3 DEF WriteRecord, NewMessage, Stores
  <2>2. QED
    BY <1>1, <2>1 DEF Visible
<1>4. CASE msgs' = Settled
  BY <1>1, <1>4 DEF Settled, Visible
<1>5. QED
  BY <1>3, <1>4 DEF WriteCutOff

LEMMA VisibleFetch ==
  ASSUME Inv, NEW p \in Procs, FetchWriteMarks(p)
  PROVE  Visible
<1> DEFINE d == marks.delivered
<1>1. MoverInv(p) /\ OpsTypeOK /\ MarksOrdered
  BY ToMover DEF Inv, FilesInv
<1>2. d \in Nat /\ Len(msgs) \in Nat /\ mine[p] = marks /\ marks \in Marks
  BY <1>1, LenProperties DEF MoverInv, FetchUnderWay, Marks, FetchWriteMarks, OpsTypeOK
<1>3. PICK k \in (d + 1)..Len(msgs) : out[p] = (d + 1)..k
  BY <1>1 DEF MoverInv, FetchUnderWay, FetchWriteMarks
<1>4. Max(out[p]) = k /\ k \in 1..Len(msgs)
  <2>1. d + 1 \in Nat /\ k \in Nat /\ d + 1 <= k
    BY <1>2
  <2>2. Max((d + 1)..k) = k
    BY <2>1, MaxOfBlock
  <2>3. QED
    BY <1>2, <1>3, <2>1, <2>2
<1>5. HandsOut(k)
  BY <1>2, <1>3, <1>4 DEF FetchWriteMarks, HandsOut, Marks
<1>6. QED
  BY <1>4, <1>5 DEF Visible

LEMMA VisibleAck ==
  ASSUME Inv, NEW p \in Procs, AckWriteMarks(p)
  PROVE  Visible
<1>1. MoverInv(p) /\ OpsTypeOK /\ MarksOrdered
  BY ToMover DEF Inv, FilesInv
<1>2. /\ mine[p] \in Marks /\ marks' = mine[p] /\ msgs' = msgs /\ Len(msgs) \in Nat
      /\ marks \in Marks /\ marks' # marks
      /\ marks.read <= marks'.read /\ marks.delivered <= marks'.delivered
      /\ marks'.read <= marks'.delivered /\ marks'.delivered <= Len(msgs)
      /\ marks'.delivered \in {marks.delivered, marks'.read}
      /\ marks.read <= marks.delivered
  BY <1>1, LenProperties DEF MoverInv, AckUnderWay, AckWriteMarks, OpsTypeOK, MarksOrdered
<1>3. marks.read # marks'.read
  <2>1. marks.read = marks'.read => marks.delivered = marks'.delivered
    BY <1>2 DEF Marks
  <2>2. QED
    BY <1>2, <2>1 DEF Marks
<1>4. marks'.read \in (marks.read + 1)..Len(msgs) /\ marks'.read \in 1..Len(msgs)
  BY <1>2, <1>3 DEF Marks
<1>5. Acknowledges(marks'.read)
  BY <1>2, <1>4 DEF Acknowledges, Biggest, Marks
<1>6. QED
  BY <1>4, <1>5 DEF Visible

LEMMA VisibleStep == ASSUME Inv, [Turns]_opvars PROVE Visible
<1> USE DEF files
<1>1. ASSUME NEW p \in Procs, Start(p) \/ Return(p)
      PROVE  Visible
  BY <1>1 DEF Start, AppendBegin, FetchBegin, AckBegin, Begin, Return, Visible
<1>2. ASSUME NEW p \in Procs, AppendStep(p)
      PROVE  Visible
  <2>1. CASE AppendReadLog(p) \/ AppendNewline(p) \/ AppendSync(p) \/ AppendFails(p)
    BY <2>1 DEF AppendReadLog, AppendNewline, AppendSync, AppendFails, Visible
  <2>2. CASE AppendWrite(p) \/ AppendWriteFails(p)
    BY <2>2, VisibleWrite DEF AppendWrite, AppendWriteFails
  <2>3. QED
    BY <1>2, <2>1, <2>2 DEF AppendStep
<1>3. ASSUME NEW p \in Procs, FetchStep(p)
      PROVE  Visible
  BY <1>3, VisibleFetch DEF FetchStep, FetchReadLog, FetchReadMarks, FetchFails, Visible
<1>4. ASSUME NEW p \in Procs, AckStep(p)
      PROVE  Visible
  BY <1>4, VisibleAck DEF AckStep, AckReadLog, AckReadMarks, AckFails, Visible
<1>5. ASSUME NEW p \in Procs, Die(p)
      PROVE  Visible
  <2>1. CASE UNCHANGED files
    BY <2>1 DEF Visible
  <2>2. CASE pc[p] = "append.write" /\ WriteCutOff(p) /\ UNCHANGED marks
    BY <2>2, VisibleWrite
  <2>3. QED
    BY <1>5, <2>1, <2>2 DEF Die
<1>6. CASE UNCHANGED opvars
  BY <1>6 DEF opvars, Visible
<1>7. QED
  BY <1>1, <1>2, <1>3, <1>4, <1>5, <1>6 DEF Turns, Turn, Step

\* "an append-only log" (Mailbox): what was stored stays, where it was.
LEMMA TurnsAppendOnly == ASSUME TailsRead PROVE TakingTurns => LogIsAppendOnly
<1>1. ASSUME Inv, Visible
      PROVE  Len(msgs) <= Len(msgs') /\ SubSeq(msgs', 1, Len(msgs)) = msgs
  <2>1. msgs \in Seq(Message) /\ Len(msgs) \in Nat
    BY <1>1, LenProperties DEF Inv, OpsTypeOK
  <2>2. CASE msgs' = msgs
    BY <2>1, <2>2, SubSeqFull
  <2>3. ASSUME NEW id \in Ids, Stores(id)
        PROVE  Len(msgs) <= Len(msgs') /\ SubSeq(msgs', 1, Len(msgs)) = msgs
    <3> DEFINE m == [seq |-> Len(msgs) + 1, id |-> id]
    <3>1. m \in Message /\ msgs' = Append(msgs, m)
      BY <2>1, <2>3 DEF Stores, Message
    <3> HIDE DEF m
    <3>2. Len(msgs') = Len(msgs) + 1
      BY <2>1, <3>1, AppendProperties
    <3>3. SubSeq(msgs', 1, Len(msgs)) = msgs
      BY <2>1, <3>1, SubSeqOfConcat1, AppendIsConcat
    <3>4. QED
      BY <2>1, <3>2, <3>3
  <2>4. QED
    BY <1>1, <2>2, <2>3 DEF Visible, HandsOut, Acknowledges
<1>2. Inv /\ [Turns]_opvars =>
        [/\ Len(msgs) <= Len(msgs')
         /\ SubSeq(msgs', 1, Len(msgs)) = msgs]_opvars
  BY <1>1, VisibleStep
<1>3. QED
  BY <1>2, InvHolds, PTL DEF TakingTurns, LogIsAppendOnly

-----------------------------------------------------------------------------
(* Mailbox implements Inbox. *)

LEMMA InboxOfLog ==
  ASSUME msgs \in Seq(Message)
  PROVE  /\ ImplementedInbox \in Seq(Ids)
         /\ Len(ImplementedInbox) = Len(msgs)
         /\ Range(ImplementedInbox) = IdsOf(msgs)
         /\ \A i \in 1..Len(msgs) : ImplementedInbox[i] = msgs[i].id
<1>1. DOMAIN msgs = 1..Len(msgs) /\ Len(msgs) \in Nat /\ \A i \in 1..Len(msgs) : msgs[i].id \in Ids
  <2>1. \A i \in 1..Len(msgs) : msgs[i] \in Message
    BY ElementOfSeq
  <2>2. QED
    BY <2>1, LenProperties DEF Message
<1>2. ImplementedInbox = [i \in 1..Len(msgs) |-> msgs[i].id]
  BY <1>1 DEF ImplementedInbox
<1>3. ImplementedInbox \in Seq(Ids) /\ Len(ImplementedInbox) = Len(msgs)
  BY <1>1, <1>2, IsASeq
<1>4. Range(ImplementedInbox) = IdsOf(msgs)
  BY <1>1, <1>2 DEF Range, IdsOf
<1>5. QED
  BY <1>2, <1>3, <1>4

LEMMA DepositStep ==
  ASSUME Inv, Inv', NEW id \in Ids, Stores(id)
  PROVE  Contract!Deposit(id)
<1> DEFINE m == [seq |-> Len(msgs) + 1, id |-> id]
<1>1. /\ msgs \in Seq(Message) /\ msgs' \in Seq(Message) /\ Len(msgs) \in Nat
      /\ msgs' = Append(msgs, m) /\ m \in Message /\ m.id = id
  BY LenProperties DEF Inv, OpsTypeOK, Stores, Message
<1> HIDE DEF m
<1>2. /\ ImplementedInbox \in Seq(Ids) /\ Len(ImplementedInbox) = Len(msgs)
      /\ Range(ImplementedInbox) = IdsOf(msgs)
      /\ \A i \in 1..Len(msgs) : ImplementedInbox[i] = msgs[i].id
  BY <1>1, InboxOfLog
<1>3. DOMAIN msgs' = 1..(Len(msgs) + 1) /\ \A i \in 1..Len(msgs) : msgs'[i] = msgs[i]
      /\ msgs'[Len(msgs) + 1] = m
  BY <1>1, AppendProperties, LenProperties
<1>4. ImplementedInbox' = [i \in 1..(Len(msgs) + 1) |-> msgs'[i].id]
  BY <1>3 DEF ImplementedInbox
<1>5. ImplementedInbox' = Append(ImplementedInbox, id)
  <2> DEFINE new == Append(ImplementedInbox, id)
  <2>1. /\ new \in Seq(Ids) /\ Len(new) = Len(msgs) + 1 /\ new[Len(msgs) + 1] = id
        /\ \A i \in 1..Len(msgs) : new[i] = msgs[i].id
    BY <1>1, <1>2, AppendProperties
  <2>2. DOMAIN new = 1..(Len(msgs) + 1)
    BY <2>1, LenProperties
  <2> HIDE DEF new
  <2>3. new = [i \in 1..(Len(msgs) + 1) |-> new[i]]
    BY <2>1, <2>2
  <2>4. \A i \in 1..(Len(msgs) + 1) : new[i] = msgs'[i].id
    BY <1>1, <1>3, <2>1
  <2>5. QED
    BY <1>4, <2>3, <2>4 DEF new
<1>6. QED
  BY <1>2, <1>5 DEF Contract!Deposit, Contract!Range, Range, Stores

\* The promise of Inbox: stored once, handed out in order and once, watermarks
\* that do not move back.
LEMMA TurnsImplementInbox == ASSUME TailsRead PROVE TakingTurns => ImplementsInbox
<1>1. InitOps => Contract!Init
  BY EmptySeq DEF InitOps, NoMarks, Contract!Init, ImplementedInbox
<1>2. Inv /\ Inv' /\ [Turns]_opvars => [Contract!Next]_(Contract!vars)
  <2> SUFFICES ASSUME Inv, Inv', [Turns]_opvars
               PROVE  [Contract!Next]_(Contract!vars)
    OBVIOUS
  <2>1. Visible
    BY VisibleStep
  <2>2. CASE UNCHANGED <<msgs, marks>>
    BY <2>2 DEF Contract!vars, ImplementedInbox
  <2>3. ASSUME NEW id \in Ids, Stores(id)
        PROVE  Contract!Next
    BY <2>3, DepositStep DEF Contract!Next
  <2>4. ASSUME NEW k \in 1..Len(msgs), HandsOut(k) \/ Acknowledges(k)
        PROVE  Contract!Next
    <3>1. Len(ImplementedInbox) = Len(msgs) /\ ImplementedInbox' = ImplementedInbox
      BY <2>4, InboxOfLog DEF Inv, OpsTypeOK, HandsOut, Acknowledges, ImplementedInbox
    <3>2. Contract!HandOut(k) \/ Contract!Acknowledge(k)
      BY <2>4, <3>1 DEF Contract!HandOut, Contract!Acknowledge, HandsOut, Acknowledges, Biggest
    <3>3. QED
      BY <3>1, <3>2 DEF Contract!Next
  <2>5. QED
    BY <2>1, <2>2, <2>3, <2>4 DEF Visible
<1>3. QED
  BY <1>1, <1>2, InvHolds, PTL DEF TakingTurns, ImplementsInbox, Contract!Spec

-----------------------------------------------------------------------------
(* The status a sender is told never falls. *)

LEMMA StandingAt ==
  ASSUME NEW s \in Seq(Message), InOrder(s),
         \A i, j \in DOMAIN s : s[i].id = s[j].id => i = j,
         NEW i \in DOMAIN s, NEW m
  PROVE  Standing(s, m, s[i].id) = IF i <= m.read THEN 3 ELSE IF i <= m.delivered THEN 2 ELSE 1
<1> DEFINE x == CHOOSE x \in Range(s) : x.id = s[i].id
<1>1. s[i] \in Range(s) /\ s[i].id \in IdsOf(s)
  BY DEF Range, IdsOf
<1>2. x \in Range(s) /\ x.id = s[i].id
  BY <1>1
<1>3. PICK j \in DOMAIN s : x = s[j]
  BY <1>2 DEF Range
<1>4. x.seq = i
  BY <1>2, <1>3 DEF InOrder
<1> HIDE DEF x
<1>5. Standing(s, m, s[i].id) =
        IF x.seq <= m.read THEN 3 ELSE IF x.seq <= m.delivered THEN 2 ELSE 1
  BY <1>1 DEF Standing, x
<1>6. QED
  BY <1>4, <1>5

\* A sender that saw "delivered" or "read" never sees less afterwards (Find).
LEMMA TurnsStanding == ASSUME TailsRead PROVE TakingTurns => StandingNeverFalls
<1>1. ASSUME Inv, Inv', Visible, NEW id \in Ids
      PROVE  Standing(msgs, marks, id) <= Standing(msgs', marks', id)
  <2>1. /\ msgs \in Seq(Message) /\ msgs' \in Seq(Message) /\ marks \in Marks /\ marks' \in Marks
        /\ InOrder(msgs) /\ InOrder(msgs')
        /\ \A i, j \in DOMAIN msgs : msgs[i].id = msgs[j].id => i = j
        /\ \A i, j \in DOMAIN msgs' : msgs'[i].id = msgs'[j].id => i = j
        /\ DOMAIN msgs = 1..Len(msgs) /\ Len(msgs) \in Nat
    BY <1>1, LenProperties DEF Inv, OpsTypeOK, MailboxInv, LogInOrder, InOrder
  <2>2. marks.read <= marks'.read /\ marks.delivered <= marks'.delivered
    <3>1. /\ marks.read \in Nat /\ marks.delivered \in Nat
          /\ marks'.read \in Nat /\ marks'.delivered \in Nat
      BY <2>1 DEF Marks
    <3>2. CASE marks' = marks
      BY <3>1, <3>2
    <3>3. ASSUME NEW k \in 1..Len(msgs), HandsOut(k) \/ Acknowledges(k)
          PROVE  marks.read <= marks'.read /\ marks.delivered <= marks'.delivered
      BY <2>1, <3>1, <3>3 DEF HandsOut, Acknowledges, Biggest
    <3>4. QED
      BY <1>1, <3>2, <3>3 DEF Visible, Stores
  <2>3. ASSUME NEW i \in DOMAIN msgs
        PROVE  i \in DOMAIN msgs' /\ msgs'[i] = msgs[i]
    <3>1. CASE msgs' = msgs
      BY <3>1
    <3>2. ASSUME NEW a \in Ids, Stores(a)
          PROVE  i \in DOMAIN msgs' /\ msgs'[i] = msgs[i]
      <4> DEFINE m == [seq |-> Len(msgs) + 1, id |-> a]
      <4>1. m \in Message /\ msgs' = Append(msgs, m)
        BY <2>1, <3>2 DEF Stores, Message
      <4> HIDE DEF m
      <4>2. QED
        BY <2>1, <2>3, <4>1, AppendProperties, LenProperties
    <3>3. QED
      BY <1>1, <3>1, <3>2 DEF Visible, HandsOut, Acknowledges
  <2>4. CASE id \notin IdsOf(msgs)
    <3>1. Standing(msgs, marks, id) = 0 /\ Standing(msgs', marks', id) \in 0..3
      BY <2>4 DEF Standing
    <3>2. QED
      BY <3>1
  <2>5. CASE id \in IdsOf(msgs)
    <3>1. PICK i \in DOMAIN msgs : msgs[i].id = id
      BY <2>5 DEF IdsOf
    <3>2. i \in DOMAIN msgs' /\ msgs'[i].id = id /\ i \in Nat
      BY <2>1, <2>3, <3>1
    <3>3. Standing(msgs, marks, id)
            = IF i <= marks.read THEN 3 ELSE IF i <= marks.delivered THEN 2 ELSE 1
      BY <2>1, <3>1, StandingAt
    <3>4. Standing(msgs', marks', id)
            = IF i <= marks'.read THEN 3 ELSE IF i <= marks'.delivered THEN 2 ELSE 1
      BY <2>1, <3>2, StandingAt
    <3>5. QED
      BY <2>1, <2>2, <3>2, <3>3, <3>4 DEF Marks
  <2>6. QED
    BY <2>4, <2>5
<1>2. Inv /\ Inv' /\ [Turns]_opvars =>
        [\A id \in Ids : Standing(msgs, marks, id) <= Standing(msgs', marks', id)]_opvars
  BY <1>1, VisibleStep
<1>3. QED
  BY <1>2, InvHolds, PTL DEF TakingTurns, StandingNeverFalls

-----------------------------------------------------------------------------
(***************************************************************************)
(* The calls of Mailbox take turns: who is under way is a holder, and of   *)
(* holders there is one.                                                   *)
(***************************************************************************)
\* Where a call goes; from where, when it is under way already.
LEMMA GoesOn ==
  ASSUME NEW p \in Procs, Start(p) \/ Step(p)
  PROVE  /\ \E l \in PCs : pc' = [pc EXCEPT ![p] = l]
         /\ Step(p) => pc[p] # "idle"
BY DEF PCs, AppendPCs, FetchPCs, AckPCs, Goto, Start, AppendBegin, FetchBegin, AckBegin, Begin,
       Step, AppendStep, AppendReadLog, AppendNewline, AppendWrite, AppendSync,
       AppendWriteFails, AppendFails, FetchStep, FetchReadLog, FetchReadMarks, FetchWriteMarks,
       FetchFails, AckStep, AckReadLog, AckReadMarks, AckWriteMarks, AckFails

LEMMA Ends ==
  ASSUME NEW p \in Procs, Return(p) \/ Die(p)
  PROVE  pc' = [pc EXCEPT ![p] = "idle"] /\ pc[p] # "idle"
BY DEF Return, Die, Forget, Goto

Guarded ==
  /\ pc \in [Procs -> PCs]
  /\ holders \subseteq Procs
  /\ \A p, q \in holders : p = q
  /\ \A p \in Procs : pc[p] # "idle" => p \in holders

LEMMA GuardedStep ==
  ASSUME Guarded, [Next]_vars
  PROVE  Guarded' /\ [Turns]_opvars
<1> USE DEF Guarded
<1>1. ASSUME NEW p \in Procs, Enter(p)
      PROVE  Guarded' /\ Turn(p)
  BY <1>1, GoesOn DEF Enter, MailboxLock!Grant, Turn, OthersIdle
<1>2. ASSUME NEW p \in Procs, Work(p)
      PROVE  Guarded' /\ Turn(p)
  BY <1>2, GoesOn DEF Work, Turn, OthersIdle
<1>3. ASSUME NEW p \in Procs, Leave(p) \/ Crash(p)
      PROVE  Guarded' /\ Turn(p)
  <2>1. "idle" \in PCs
    BY DEF PCs
  <2>2. QED
    BY <1>3, <2>1, Ends DEF Leave, Crash, MailboxLock!Release, Turn, OthersIdle
<1>4. CASE UNCHANGED vars
  BY <1>4 DEF vars, opvars, locals
<1>5. QED
  BY <1>1, <1>2, <1>3, <1>4 DEF Next, Turns

LEMMA MailboxTakesTurns == Spec => TakingTurns /\ []Guarded
<1>1. Init => InitOps /\ Guarded
  BY DEF Init, InitOps, MailboxLock!Init, Guarded, PCs
<1>2. Guarded /\ [Next]_vars => Guarded' /\ [Turns]_opvars
  BY GuardedStep
<1>3. QED
  BY <1>1, <1>2, PTL DEF Spec, TakingTurns

\* Every value of the mailbox's files and of the calls is of its type.
THEOREM MailboxTypeOK == ASSUME TailsRead PROVE Spec => []TypeOK
<1>1. Inv /\ Guarded => TypeOK
  BY DEF Inv, Guarded, TypeOK
<1>2. QED
  BY <1>1, InvHolds, MailboxTakesTurns, PTL

\* No id under two sequence numbers, and no gap in the numbering, whatever
\* writers die or fail (Append).
THEOREM MailboxLogInOrder == ASSUME TailsRead PROVE Spec => []LogInOrder
BY InvHolds, MailboxTakesTurns, PTL DEF Inv, MailboxInv

\* Read never passes delivered, delivered never passes the log (Fetch, Ack).
THEOREM MailboxMarksOrdered == ASSUME TailsRead PROVE Spec => []MarksOrdered
BY InvHolds, MailboxTakesTurns, PTL DEF Inv, MailboxInv

\* Each message comes out of Fetch once, however many readers there are.
THEOREM MailboxHandedOnce == ASSUME TailsRead PROVE Spec => []HandedOnce
BY InvHolds, MailboxTakesTurns, PTL DEF Inv, MailboxInv

\* No message is passed over by the delivered watermark (Fetch, Ack).
THEOREM MailboxNothingPassedOver == ASSUME TailsRead PROVE Spec => []NothingPassedOver
BY InvHolds, MailboxTakesTurns, PTL DEF Inv, MailboxInv

\* What Append answered it stored is in the log.
THEOREM MailboxStoredWhenAnswered == ASSUME TailsRead PROVE Spec => []StoredWhenAnswered
BY InvHolds, MailboxTakesTurns, PTL DEF Inv, MailboxInv

\* "an append-only log" (Mailbox): what was stored stays, where it was.
THEOREM MailboxLogIsAppendOnly == ASSUME TailsRead PROVE Spec => LogIsAppendOnly
BY TurnsAppendOnly, MailboxTakesTurns, PTL

\* The promise of Inbox: stored once, handed out in order and once, watermarks
\* that do not move back.
THEOREM MailboxImplementsInbox == ASSUME TailsRead PROVE Spec => ImplementsInbox
BY TurnsImplementInbox, MailboxTakesTurns, PTL

\* A sender that saw "delivered" or "read" never sees less afterwards (Find).
THEOREM MailboxStandingNeverFalls == ASSUME TailsRead PROVE Spec => StandingNeverFalls
BY TurnsStanding, MailboxTakesTurns, PTL

-----------------------------------------------------------------------------
(***************************************************************************)
(* The mailbox under the lock it really uses, MailboxOnDirLock, for every  *)
(* value of the constants, if no holder of the lock keeps it past the      *)
(* stale window.  Until a process dies its calls take turns, so all of the *)
(* above holds of it; if none dies, it implements Mailbox, and Inbox.  The *)
(* constants and variables are the lock's.                                 *)
(***************************************************************************)
CONSTANTS None, Stale, Wait, MaxHold, MaxCrashes, Removable
VARIABLES at, maker, age, waited, held, crashes

MD == INSTANCE MailboxOnDirLock

DLP == INSTANCE DirLockProofs WITH pc <- at

\* What MailboxOnDirLock and DirLock assume of their constants.
LockConstants ==
  /\ None \notin Procs
  /\ Stale \in Nat /\ Wait \in Nat /\ MaxHold \in Nat
  /\ MaxCrashes \in Nat /\ Removable \in BOOLEAN

HoldsAreShort == MaxHold <= Stale

NoStalls == MaxCrashes = 0 /\ HoldsAreShort

\* A step of the composition is a step of the lock, or leaves it alone.
LEMMA LockTakesPart == [MD!Next]_(MD!vars) => [DLP!Next]_(DLP!vars)
<1> SUFFICES ASSUME [MD!Next]_(MD!vars) PROVE [DLP!Next]_(DLP!vars)
  OBVIOUS
<1> USE DEF MD!DL!Goto, DLP!Goto, MD!DL!RemoveDir, DLP!RemoveDir
<1>1. ASSUME NEW p \in Procs, MD!Queue(p)
      PROVE  DLP!Call(p)
  BY <1>1 DEF MD!Queue, MD!DL!Call, DLP!Call
<1>2. ASSUME NEW p \in Procs, MD!Contend(p)
      PROVE  DLP!Acquiring(p)
  BY <1>2 DEF MD!Contend, MD!DL!MkdirExists, DLP!MkdirExists, MD!DL!MkdirFails,
              DLP!MkdirFails, MD!DL!Stat, DLP!Stat, MD!DL!IsStale, DLP!IsStale,
              MD!DL!Steal, DLP!Steal, MD!DL!GiveUp, DLP!GiveUp, MD!DL!Retry, DLP!Retry,
              DLP!Acquiring
<1>3. ASSUME NEW p \in Procs, MD!Enter(p)
      PROVE  DLP!Mkdir(p)
  BY <1>3 DEF MD!Enter, MD!DL!Mkdir, DLP!Mkdir
<1>4. ASSUME NEW p \in Procs, MD!Leave(p)
      PROVE  DLP!Release(p)
  BY <1>4 DEF MD!Leave, MD!DL!Release, DLP!Release
<1>5. ASSUME NEW p \in Procs, MD!Crash(p)
      PROVE  DLP!Crash(p)
  BY <1>5 DEF MD!Crash, MD!DL!Crash, DLP!Crash
<1>6. ASSUME NEW p \in Procs, MD!Work(p)
      PROVE  UNCHANGED DLP!vars
  BY <1>6 DEF MD!Work, MD!lockvars, DLP!vars
<1>7. CASE MD!Pass
  BY <1>7 DEF MD!Pass, DLP!Next, MD!DL!Tick, DLP!Tick, MD!DL!UpTo, DLP!UpTo
<1>8. CASE UNCHANGED MD!vars
  BY <1>8 DEF MD!vars, MD!lockvars, DLP!vars
<1>9. QED
  BY <1>1, <1>2, <1>3, <1>4, <1>5, <1>6, <1>7, <1>8 DEF MD!Next, DLP!Next, DLP!Acquiring

\* What holds of the lock until a process dies, of the lock of a mailbox.
LEMMA LockUntilDeath ==
  ASSUME LockConstants, HoldsAreShort
  PROVE  MD!Spec => [](DLP!TypeOK /\ (crashes = 0 => DLP!LockInv))
<1>1. MD!Init => DLP!Init
  BY DEF MD!Init, MD!DL!Init, DLP!Init
<1>2. DLP!HoldsAreShort
  BY DEF HoldsAreShort, DLP!HoldsAreShort
<1>3. DLP!Spec => [](crashes = 0 => DLP!LockInv)
  BY <1>2, DLP!LockInvUntilCrash
     DEF LockConstants, DLP!NoneAssumption, DLP!TimeAssumption, DLP!FaultAssumption
<1>4. DLP!Spec => []DLP!TypeOK
  BY DLP!TypeCorrect
     DEF LockConstants, DLP!NoneAssumption, DLP!TimeAssumption, DLP!FaultAssumption
<1>5. QED
  BY <1>1, <1>3, <1>4, LockTakesPart, PTL DEF MD!Spec, DLP!Spec

LEMMA NobodyDies == ASSUME LockConstants, NoStalls PROVE MD!Spec => [](crashes = 0)
<1>1. DLP!TypeOK => crashes = 0
  BY DEF LockConstants, NoStalls, DLP!TypeOK
<1>2. HoldsAreShort
  BY DEF NoStalls
<1>3. QED
  BY <1>1, <1>2, LockUntilDeath, PTL

-----------------------------------------------------------------------------
\* The accesses to the files are those of Mailbox, word for word.
LEMMA SameStart ==
  ASSUME NEW p PROVE (MD!Start(p) <=> Start(p)) /\ (MD!MB!Start(p) <=> Start(p))
BY DEF MD!Start, MD!MB!Start, MD!AppendBegin, MD!MB!AppendBegin, MD!FetchBegin,
       MD!MB!FetchBegin, MD!AckBegin, MD!MB!AckBegin, MD!Begin, MD!MB!Begin, MD!Goto,
       MD!MB!Goto, MD!files, MD!MB!files, MD!history, MD!MB!history,
       Start, AppendBegin, FetchBegin, AckBegin, Begin, Goto, files, history

LEMMA SameStep ==
  ASSUME NEW p PROVE (MD!Step(p) <=> Step(p)) /\ (MD!MB!Step(p) <=> Step(p))
<1>1. /\ MD!WriteRecord(p) <=> WriteRecord(p)
      /\ MD!MB!WriteRecord(p) <=> WriteRecord(p)
      /\ MD!WriteCutOff(p) <=> WriteCutOff(p)
      /\ MD!MB!WriteCutOff(p) <=> WriteCutOff(p)
  BY DEF MD!WriteRecord, MD!MB!WriteRecord, WriteRecord, MD!WriteCutOff, MD!MB!WriteCutOff,
         WriteCutOff, MD!Settled, MD!MB!Settled, Settled, MD!NewMessage, MD!MB!NewMessage,
         NewMessage, MD!NextSeq, MD!MB!NextSeq, NextSeq, MD!Max, MD!MB!Max, Max, MD!SeqsOf,
         MD!MB!SeqsOf, SeqsOf
<1>2. (MD!AppendStep(p) <=> AppendStep(p)) /\ (MD!MB!AppendStep(p) <=> AppendStep(p))
  BY <1>1
     DEF MD!AppendStep, MD!MB!AppendStep, AppendStep, MD!AppendReadLog, MD!MB!AppendReadLog,
         AppendReadLog, MD!AppendNewline, MD!MB!AppendNewline, AppendNewline, MD!AppendWrite,
         MD!MB!AppendWrite, AppendWrite, MD!AppendSync, MD!MB!AppendSync, AppendSync,
         MD!AppendWriteFails, MD!MB!AppendWriteFails, AppendWriteFails, MD!AppendFails,
         MD!MB!AppendFails, AppendFails, MD!IdsOf, MD!MB!IdsOf, IdsOf, MD!Goto, MD!MB!Goto,
         Goto, MD!files, MD!MB!files, files, MD!history, MD!MB!history, history
<1>3. (MD!FetchStep(p) <=> FetchStep(p)) /\ (MD!MB!FetchStep(p) <=> FetchStep(p))
  BY DEF MD!FetchStep, MD!MB!FetchStep, FetchStep, MD!FetchReadLog, MD!MB!FetchReadLog,
         FetchReadLog, MD!FetchReadMarks, MD!MB!FetchReadMarks, FetchReadMarks,
         MD!FetchWriteMarks, MD!MB!FetchWriteMarks, FetchWriteMarks, MD!FetchFails,
         MD!MB!FetchFails, FetchFails, MD!After, MD!MB!After, After, MD!Max, MD!MB!Max, Max,
         MD!Cardinality, MD!MB!Cardinality, Cardinality, MD!FetchPCs, MD!MB!FetchPCs, FetchPCs,
         MD!Goto, MD!MB!Goto, Goto, MD!files, MD!MB!files, files, MD!history, MD!MB!history,
         history
<1>4. (MD!AckStep(p) <=> AckStep(p)) /\ (MD!MB!AckStep(p) <=> AckStep(p))
  BY DEF MD!AckStep, MD!MB!AckStep, AckStep, MD!AckReadLog, MD!MB!AckReadLog, AckReadLog,
         MD!AckReadMarks, MD!MB!AckReadMarks, AckReadMarks, MD!AckWriteMarks,
         MD!MB!AckWriteMarks, AckWriteMarks, MD!AckFails, MD!MB!AckFails, AckFails, MD!Acked,
         MD!MB!Acked, Acked, MD!Biggest, MD!MB!Biggest, Biggest, MD!AckPCs, MD!MB!AckPCs,
         AckPCs, MD!Goto, MD!MB!Goto, Goto, MD!files, MD!MB!files, files, MD!history,
         MD!MB!history, history
<1>5. QED
  BY <1>2, <1>3, <1>4 DEF MD!Step, MD!MB!Step, Step

LEMMA SameEnd ==
  ASSUME NEW p
  PROVE  /\ MD!Return(p) <=> Return(p)
         /\ MD!MB!Return(p) <=> Return(p)
         /\ MD!Die(p) <=> Die(p)
<1>1. /\ MD!Forget(p) <=> Forget(p)
      /\ MD!MB!Forget(p) <=> Forget(p)
  BY DEF MD!Forget, MD!MB!Forget, Forget, MD!Goto, MD!MB!Goto, Goto, MD!NoMarks,
         MD!MB!NoMarks, NoMarks
<1>2. MD!WriteCutOff(p) <=> WriteCutOff(p)
  BY DEF MD!WriteCutOff, WriteCutOff, MD!WriteRecord, WriteRecord, MD!Settled, Settled,
         MD!NewMessage, NewMessage, MD!NextSeq, NextSeq, MD!Max, Max, MD!SeqsOf, SeqsOf
<1>3. QED
  BY <1>1, <1>2 DEF MD!Return, MD!MB!Return, Return, MD!Die, Die, MD!files, MD!MB!files, files

\* Every call of the mailbox on disk is a call of Mailbox, under the lock of
\* LockService: no line interleaves, no message is handed out twice (Mailbox.lock).
THEOREM MailboxOnDiskImplementsMailbox ==
  ASSUME LockConstants, NoStalls PROVE MD!Spec => MD!ImplementsMailbox
<1>1. MD!Init => MD!MB!Init
  BY DEF MD!Init, MD!DL!Init, MD!DL!Holders, MD!MB!Init, MD!MB!MailboxLock!Init,
         MD!MB!InitOps, MD!InitOps, MD!MB!NoMarks, MD!NoMarks
<1>2. DLP!LockInv /\ [MD!Next]_(MD!vars) => [MD!MB!Next]_(MD!MB!vars)
  <2> SUFFICES ASSUME DLP!LockInv, [MD!Next]_(MD!vars)
               PROVE  [MD!MB!Next]_(MD!MB!vars)
    OBVIOUS
  <2> USE DEF LockConstants, DLP!LockInv, DLP!TypeOK, DLP!HolderMadeDir, DLP!Holders,
              MD!DL!Holders, MD!DL!Goto
  <2>1. ASSUME UNCHANGED MD!opvars, MD!DL!Holders' = MD!DL!Holders
        PROVE  UNCHANGED MD!MB!vars
    BY <2>1 DEF MD!opvars, MD!files, MD!locals, MD!history, MD!MB!vars, MD!MB!opvars,
                MD!MB!files, MD!MB!locals, MD!MB!history
  <2>2. ASSUME NEW p \in Procs, MD!Queue(p) \/ MD!Contend(p)
        PROVE  UNCHANGED MD!MB!vars
    <3>1. MD!DL!Holders' = MD!DL!Holders
      BY <2>2 DEF MD!Queue, MD!Contend, MD!DL!Call, MD!DL!MkdirExists, MD!DL!MkdirFails,
                  MD!DL!Stat, MD!DL!Steal, MD!DL!GiveUp, MD!DL!Retry
    <3>2. QED
      BY <2>1, <2>2, <3>1 DEF MD!Queue, MD!Contend
  <2>3. ASSUME NEW p \in Procs, MD!Enter(p)
        PROVE  MD!MB!Enter(p)
    <3>1. MD!DL!Holders = {} /\ MD!DL!Holders' = {p}
      BY <2>3 DEF MD!Enter, MD!DL!Mkdir
    <3>2. QED
      BY <2>3, <3>1, SameStart DEF MD!Enter, MD!MB!Enter, MD!MB!MailboxLock!Grant
  <2>4. ASSUME NEW p \in Procs, MD!Work(p)
        PROVE  MD!MB!Work(p)
    BY <2>4, SameStep DEF MD!Work, MD!MB!Work, MD!lockvars
  <2>5. ASSUME NEW p \in Procs, MD!Leave(p)
        PROVE  MD!MB!Leave(p)
    <3>1. p \in MD!DL!Holders /\ MD!DL!Holders' = MD!DL!Holders \ {p}
      BY <2>5 DEF MD!Leave, MD!DL!Release
    <3>2. QED
      BY <2>5, <3>1, SameEnd DEF MD!Leave, MD!MB!Leave, MD!MB!MailboxLock!Release
  <2>6. ASSUME NEW p \in Procs, MD!Crash(p)
        PROVE  FALSE
    BY <2>6 DEF MD!Crash, MD!DL!Crash, NoStalls, DLP!LockInv
  <2>7. CASE MD!Pass
    BY <2>1, <2>7 DEF MD!Pass, MD!DL!Tick
  <2>8. CASE UNCHANGED MD!vars
    BY <2>1, <2>8 DEF MD!vars, MD!lockvars
  <2>9. QED
    BY <2>2, <2>3, <2>4, <2>5, <2>6, <2>7, <2>8 DEF MD!Next, MD!MB!Next
<1>3. HoldsAreShort
  BY DEF NoStalls
<1>4. QED
  BY <1>1, <1>2, <1>3, LockUntilDeath, NobodyDies, PTL DEF MD!Spec, MD!ImplementsMailbox, MD!MB!Spec

-----------------------------------------------------------------------------
(* The calls of the mailbox on disk take turns until a process dies.       *)

Locked ==
  /\ pc \in [Procs -> PCs]
  /\ \A p \in Procs : pc[p] # "idle" => at[p] = "held"

LEMMA LockedStep ==
  ASSUME LockConstants, DLP!LockInv, Locked, [MD!Next]_(MD!vars)
  PROVE  Locked' /\ [Turns]_opvars
<1> USE DEF Locked, MD!DL!Goto
<1>1. at \in [Procs -> DLP!PCs] /\ \A p, q \in Procs : at[p] = "held" /\ at[q] = "held" => p = q
  BY DEF DLP!LockInv, DLP!TypeOK, DLP!HolderMadeDir, DLP!Holders
<1>2. ASSUME UNCHANGED MD!opvars, \A p \in Procs : pc[p] # "idle" => at'[p] = "held"
      PROVE  Locked' /\ [Turns]_opvars
  BY <1>2 DEF MD!opvars, MD!files, MD!locals, MD!history, opvars, files, locals, history
<1>3. ASSUME NEW p \in Procs, MD!Queue(p) \/ MD!Contend(p)
      PROVE  Locked' /\ [Turns]_opvars
  BY <1>1, <1>2, <1>3 DEF MD!Queue, MD!Contend, MD!DL!Call, MD!DL!MkdirExists, MD!DL!MkdirFails,
         MD!DL!Stat, MD!DL!Steal, MD!DL!GiveUp, MD!DL!Retry
<1>4. ASSUME NEW p \in Procs, MD!Enter(p)
      PROVE  Locked' /\ Turn(p)
  <2>1. DLP!Holders = {}
    BY <1>4 DEF LockConstants, MD!Enter, MD!DL!Mkdir, DLP!LockInv, DLP!TypeOK,
                DLP!HolderMadeDir, DLP!Holders
  <2>2. OthersIdle(p)
    BY <2>1 DEF DLP!Holders, OthersIdle
  <2>3. Start(p) /\ at' = [at EXCEPT ![p] = "held"]
    BY <1>4, SameStart DEF MD!Enter, MD!DL!Mkdir
  <2>4. QED
    BY <1>1, <2>2, <2>3, GoesOn DEF Turn
<1>5. ASSUME NEW p \in Procs, MD!Work(p)
      PROVE  Locked' /\ Turn(p)
  <2>1. Step(p) /\ at' = at
    BY <1>5, SameStep DEF MD!Work, MD!lockvars
  <2>2. QED
    BY <1>1, <2>1, GoesOn DEF Turn, OthersIdle
<1>6. ASSUME NEW p \in Procs, Return(p) \/ Die(p), at[p] = "held", at' = [at EXCEPT ![p] = "idle"]
      PROVE  Locked' /\ Turn(p)
  <2>1. "idle" \in PCs
    BY DEF PCs
  <2>2. QED
    BY <1>1, <1>6, <2>1, Ends DEF Turn, OthersIdle
<1>7. ASSUME NEW p \in Procs, MD!Leave(p)
      PROVE  Locked' /\ Turn(p)
  BY <1>6, <1>7, SameEnd DEF MD!Leave, MD!DL!Release
<1>8. ASSUME NEW p \in Procs, MD!Crash(p)
      PROVE  Locked' /\ [Turns]_opvars
  <2>1. at' = [at EXCEPT ![p] = "idle"]
    BY <1>8 DEF MD!Crash, MD!DL!Crash
  <2>2. CASE at[p] = "held" /\ MD!Die(p)
    BY <1>6, <2>1, <2>2, SameEnd DEF Turns
  <2>3. CASE at[p] # "held" /\ UNCHANGED MD!opvars
    BY <1>1, <1>2, <2>1, <2>3
  <2>4. QED
    BY <1>8, <2>2, <2>3 DEF MD!Crash
<1>9. CASE MD!Pass
  BY <1>2, <1>9 DEF MD!Pass, MD!DL!Tick
<1>10. CASE UNCHANGED MD!vars
  BY <1>2, <1>10 DEF MD!vars, MD!lockvars
<1>11. QED
  BY <1>3, <1>4, <1>5, <1>7, <1>8, <1>9, <1>10 DEF MD!Next, Turns

LEMMA DiskInit == MD!Init => InitOps /\ Locked
BY DEF MD!Init, MD!InitOps, InitOps, MD!NoMarks, NoMarks, Locked, PCs

LEMMA DiskTakesTurns ==
  ASSUME LockConstants, NoStalls PROVE MD!Spec => TakingTurns
<1>1. DLP!LockInv /\ Locked /\ [MD!Next]_(MD!vars) => Locked' /\ [Turns]_opvars
  BY LockedStep
<1>2. HoldsAreShort
  BY DEF NoStalls
<1>3. QED
  BY <1>1, <1>2, DiskInit, LockUntilDeath, NobodyDies, PTL DEF MD!Spec, TakingTurns

\* A death is not undone: before a step that no death follows there was none.
LEMMA InvUntilDeath ==
  ASSUME LockConstants, HoldsAreShort, TailsRead
  PROVE  MD!Spec => [](crashes = 0 => Inv)
<1> DEFINE J == crashes = 0 => Inv /\ Locked
<1>1. MD!Init => J
  BY DiskInit, InvInit
<1>2. DLP!TypeOK /\ (crashes = 0 => DLP!LockInv) /\ J /\ [MD!Next]_(MD!vars) => J'
  <2> SUFFICES ASSUME DLP!TypeOK, crashes = 0 => DLP!LockInv, J, [MD!Next]_(MD!vars),
                      crashes' = 0
               PROVE  (Inv /\ Locked)'
    OBVIOUS
  <2>1. crashes' = crashes \/ crashes' = crashes + 1
    BY LockTakesPart
       DEF DLP!Next, DLP!Call, DLP!Acquiring, DLP!Mkdir, DLP!MkdirExists, DLP!MkdirFails,
           DLP!Stat, DLP!Steal, DLP!GiveUp, DLP!Retry, DLP!Release, DLP!Crash, DLP!Tick, DLP!vars
  <2>2. crashes = 0
    BY <2>1 DEF LockConstants, DLP!TypeOK
  <2>3. Locked' /\ [Turns]_opvars
    BY <2>2, LockedStep
  <2>4. QED
    BY <2>2, <2>3, InvStep
<1>3. QED
  BY <1>1, <1>2, LockUntilDeath, PTL DEF MD!Spec

\* "several server processes can write to the same mailbox without ... handing
\* one message to two readers" (type Mailbox), of the files and the mkdir lock:
\* as long as no process has died, each message comes out of Fetch once.
THEOREM MailboxOnDiskHandedOnce ==
  ASSUME LockConstants, HoldsAreShort, TailsRead
  PROVE  MD!Spec => [](crashes = 0 => HandedOnce)
BY InvUntilDeath, PTL DEF Inv, MailboxInv

\* And no message is passed over by the delivered watermark (Fetch, Ack).
THEOREM MailboxOnDiskNothingPassedOver ==
  ASSUME LockConstants, HoldsAreShort, TailsRead
  PROVE  MD!Spec => [](crashes = 0 => NothingPassedOver)
BY InvUntilDeath, PTL DEF Inv, MailboxInv

\* The mkdir lock and the accesses to the two files together keep the promise
\* made to readers and senders (Append, Fetch, Ack, Mailbox.lock).
THEOREM MailboxOnDiskImplementsInbox ==
  ASSUME LockConstants, NoStalls, TailsRead PROVE MD!Spec => ImplementsInbox
BY DiskTakesTurns, TurnsImplementInbox, PTL

\* A sender that saw "delivered" or "read" never sees less afterwards (Find).
THEOREM MailboxOnDiskStandingNeverFalls ==
  ASSUME LockConstants, NoStalls, TailsRead PROVE MD!Spec => StandingNeverFalls
BY DiskTakesTurns, TurnsStanding, PTL

-----------------------------------------------------------------------------
(***************************************************************************)
(* After a holder has died, its directory is stolen, and of two thieves    *)
(* one may remove the other's: calls write to one log at the same time.    *)
(* What was stored is kept all the same, if nothing else fails: the only   *)
(* write that was cut off is the one of the process that died, which was   *)
(* alone, so no call is past the repair of a line that is then torn.       *)
(***************************************************************************)
OneDeath == MaxCrashes <= 1 /\ HoldsAreShort

WritesSucceed == ~IOFaults /\ ~TailUnread

\* What a call knows of the log without relying on the lock.
Knows(p) ==
  /\ pc[p] # "idle" => at[p] = "held"
  /\ pc[p] = "append.write" => tail = "newline"
  /\ pc[p] = "append.sync" => arg[p] \in IdsOf(msgs)
  /\ pc[p] = "done" /\ arg[p] \in Ids => arg[p] \in IdsOf(msgs)
  /\ pc[p] \in FetchPCs \cup AckPCs => arg[p] \notin Ids

DiskInv ==
  /\ msgs \in Seq(Range(msgs))
  /\ pc \in [Procs -> PCs] /\ arg \in [Procs -> Ids \cup Nat]
  /\ crashes = 0 => tail = "newline"
  /\ \A p \in Procs : Knows(p)

LogKept == Len(msgs) <= Len(msgs') /\ SubSeq(msgs', 1, Len(msgs)) = msgs

LEMMA Appended ==
  ASSUME NEW s, s \in Seq(Range(s)), NEW m, NEW t, t = Append(s, m)
  PROVE  /\ t \in Seq(Range(t)) /\ Len(s) <= Len(t) /\ SubSeq(t, 1, Len(s)) = s
         /\ IdsOf(t) = IdsOf(s) \cup {m.id}
<1> DEFINE R == Range(s) \cup {m}
<1>1. s \in Seq(R) /\ m \in R /\ Len(s) \in Nat
  BY LenProperties
<1> HIDE DEF R
<1>2. /\ t \in Seq(R) /\ Len(t) = Len(s) + 1 /\ t[Len(s) + 1] = m
      /\ \A i \in 1..Len(s) : t[i] = s[i]
  BY <1>1, AppendProperties
<1>3. DOMAIN s = 1..Len(s) /\ DOMAIN t = 1..Len(s) \cup {Len(s) + 1}
  BY <1>1, <1>2, LenProperties
<1>4. Range(t) = R
  BY <1>2, <1>3 DEF Range, R
<1>5. SubSeq(t, 1, Len(s)) = s
  BY <1>1, SubSeqOfConcat1, AppendIsConcat
<1>6. IdsOf(t) = IdsOf(s) \cup {m.id}
  BY <1>2, <1>3 DEF IdsOf
<1>7. QED
  BY <1>1, <1>2, <1>4, <1>5, <1>6

LEMMA LogGrows ==
  ASSUME DiskInv, NEW m, msgs' = Append(msgs, m)
  PROVE  msgs' \in Seq(Range(msgs')) /\ LogKept /\ IdsOf(msgs)' = IdsOf(msgs) \cup {m.id}
<1>1. IdsOf(msgs)' = IdsOf(msgs')
  BY DEF IdsOf
<1>2. msgs \in Seq(Range(msgs))
  BY DEF DiskInv
<1>3. QED
  BY <1>1, <1>2, Appended DEF LogKept

LEMMA LogStays ==
  ASSUME DiskInv, msgs' = msgs
  PROVE  msgs' \in Seq(Range(msgs')) /\ LogKept /\ IdsOf(msgs)' = IdsOf(msgs)
BY SubSeqFull, LenProperties DEF DiskInv, LogKept, IdsOf

\* A step of one call leaves what the others know.
LEMMA OthersKnow ==
  ASSUME DiskInv, NEW p \in Procs, NEW q \in Procs, q # p,
         pc'[q] = pc[q], arg'[q] = arg[q], at'[q] = at[q],
         IdsOf(msgs) \subseteq IdsOf(msgs)', tail = "newline" => tail' = "newline"
  PROVE  Knows(q)'
<1>1. Knows(q)
  BY DEF DiskInv
<1>2. QED
  BY <1>1 DEF Knows, FetchPCs, AckPCs

LEMMA DiskStart ==
  ASSUME DiskInv, NEW p \in Procs, MD!Enter(p), DLP!TypeOK
  PROVE  DiskInv' /\ LogKept
<1>1. /\ UNCHANGED <<msgs, tail, crashes>> /\ pc[p] = "idle" /\ at' = [at EXCEPT ![p] = "held"]
      /\ at \in [Procs -> DLP!PCs]
  BY DEF MD!Enter, MD!DL!Mkdir, MD!DL!Goto, MD!Start, MD!AppendBegin, MD!FetchBegin,
         MD!AckBegin, MD!Begin, MD!files, DLP!TypeOK
<1>2. PICK l \in PCs \ {"idle"}, a \in Ids \cup Nat :
        /\ pc' = [pc EXCEPT ![p] = l] /\ arg' = [arg EXCEPT ![p] = a]
        /\ l \in {"append.log", "fetch.log", "ack.log"}
        /\ l # "append.log" => a \notin Ids
  BY IdsAssumption, LimitsAssumption, CursorsAssumption
     DEF MD!Enter, MD!Start, MD!AppendBegin, MD!FetchBegin, MD!AckBegin, MD!Begin, MD!Goto,
         PCs, AppendPCs, FetchPCs, AckPCs
<1>3. Knows(p)'
  BY <1>1, <1>2 DEF DiskInv, Knows, FetchPCs, AckPCs
<1>4. ASSUME NEW q \in Procs, q # p PROVE Knows(q)'
  BY <1>1, <1>2, <1>4, LogStays, OthersKnow DEF DiskInv
<1>5. QED
  BY <1>1, <1>2, <1>3, <1>4, LogStays DEF DiskInv

LEMMA DiskAppend ==
  ASSUME WritesSucceed, DiskInv, NEW p \in Procs, MD!AppendStep(p), UNCHANGED <<at, crashes>>
  PROVE  DiskInv' /\ LogKept
<1>1. /\ UNCHANGED arg /\ pc[p] \in AppendPCs /\ at[p] = "held"
      /\ Knows(p) /\ (tail = "newline" => tail' = "newline")
  <2>1. UNCHANGED arg /\ pc[p] \in AppendPCs /\ (tail = "newline" => tail' = "newline")
    BY DEF WritesSucceed, AppendPCs, MD!AppendStep, MD!AppendReadLog, MD!AppendNewline,
           MD!AppendWrite, MD!AppendSync, MD!AppendWriteFails, MD!AppendFails, MD!files
  <2>2. Knows(p)
    BY DEF DiskInv
  <2>3. QED
    BY <2>1, <2>2 DEF Knows, AppendPCs
<1>2. ASSUME NEW l \in PCs, pc' = [pc EXCEPT ![p] = l],
             \/ msgs' = msgs
             \/ \E m : m.id = arg[p] /\ msgs' = Append(msgs, m),
             Knows(p)'
      PROVE  DiskInv' /\ LogKept
  <2>1. /\ msgs' \in Seq(Range(msgs')) /\ LogKept
        /\ IdsOf(msgs) \subseteq IdsOf(msgs)'
    BY <1>2, LogStays, LogGrows
  <2>2. ASSUME NEW q \in Procs, q # p PROVE Knows(q)'
    BY <1>1, <1>2, <2>1, <2>2, OthersKnow DEF DiskInv
  <2>3. QED
    BY <1>1, <1>2, <2>1, <2>2 DEF DiskInv
<1>3. CASE MD!AppendReadLog(p)
  <2>1. Knows(p)'
    BY <1>1, <1>3 DEF DiskInv, Knows, MD!AppendReadLog, MD!Goto, MD!files, MD!IdsOf, IdsOf,
                      FetchPCs, AckPCs
  <2>2. QED
    BY <1>2, <1>3, <2>1 DEF MD!AppendReadLog, MD!Goto, MD!files, PCs, AppendPCs
<1>4. CASE MD!AppendNewline(p)
  <2>1. Knows(p)'
    BY <1>1, <1>4 DEF WritesSucceed, DiskInv, Knows, MD!AppendNewline, MD!Goto, IdsOf,
                      FetchPCs, AckPCs
  <2>2. QED
    BY <1>2, <1>4, <2>1 DEF MD!AppendNewline, MD!Goto, PCs, AppendPCs
<1>5. CASE MD!AppendWrite(p)
  <2>1. tail = "newline" /\ tail' = "newline"
    BY <1>1, <1>5 DEF Knows, MD!AppendWrite
  <2>2. msgs' = Append(msgs, MD!NewMessage(p)) /\ MD!NewMessage(p).id = arg[p]
    BY <1>5, <2>1 DEF MD!AppendWrite, MD!WriteRecord, MD!NewMessage
  <2>3. IdsOf(msgs)' = IdsOf(msgs) \cup {arg[p]}
    BY <2>2, LogGrows
  <2>4. Knows(p)'
    BY <1>1, <1>5, <2>1, <2>3 DEF DiskInv, Knows, MD!AppendWrite, MD!Goto, FetchPCs, AckPCs
  <2>5. QED
    BY <1>2, <1>5, <2>2, <2>4 DEF MD!AppendWrite, MD!Goto, PCs, AppendPCs
<1>6. CASE MD!AppendSync(p)
  <2>1. Knows(p)'
    BY <1>1, <1>6 DEF DiskInv, Knows, MD!AppendSync, MD!Goto, MD!files, IdsOf, FetchPCs, AckPCs
  <2>2. QED
    BY <1>2, <1>6, <2>1 DEF MD!AppendSync, MD!Goto, MD!files, PCs
<1>7. QED
  BY <1>3, <1>4, <1>5, <1>6 DEF WritesSucceed, MD!AppendStep, MD!AppendWriteFails, MD!AppendFails

\* A reader's call leaves the log alone, and is never mistaken for a sender's.
LEMMA DiskRead ==
  ASSUME DiskInv, NEW p \in Procs, MD!FetchStep(p) \/ MD!AckStep(p), UNCHANGED <<at, crashes>>
  PROVE  DiskInv' /\ LogKept
<1>1. /\ UNCHANGED <<msgs, tail, arg>> /\ at[p] = "held" /\ arg[p] \notin Ids
      /\ \E l \in {"done", "failed"} \cup FetchPCs \cup AckPCs : pc' = [pc EXCEPT ![p] = l]
  BY DEF DiskInv, Knows, FetchPCs, AckPCs, MD!FetchPCs, MD!AckPCs, MD!FetchStep, MD!AckStep,
         MD!FetchReadLog, MD!FetchReadMarks, MD!FetchWriteMarks, MD!FetchFails, MD!AckReadLog,
         MD!AckReadMarks, MD!AckWriteMarks, MD!AckFails, MD!Goto, MD!files
<1>2. Knows(p)'
  BY <1>1 DEF DiskInv, Knows, FetchPCs, AckPCs
<1>3. ASSUME NEW q \in Procs, q # p PROVE Knows(q)'
  BY <1>1, <1>3, LogStays, OthersKnow DEF DiskInv
<1>4. pc' \in [Procs -> PCs]
  BY <1>1 DEF DiskInv, PCs
<1>5. QED
  BY <1>1, <1>2, <1>3, <1>4, LogStays DEF DiskInv

LEMMA DiskReturn ==
  ASSUME DiskInv, DLP!TypeOK, NEW p \in Procs, MD!Leave(p)
  PROVE  DiskInv' /\ LogKept
<1>1. /\ UNCHANGED <<msgs, tail, crashes>>
      /\ pc' = [pc EXCEPT ![p] = "idle"] /\ arg' = [arg EXCEPT ![p] = 0]
      /\ at' = [at EXCEPT ![p] = "idle"] /\ at \in [Procs -> DLP!PCs]
  BY DEF MD!Leave, MD!DL!Release, MD!DL!Goto, MD!Return, MD!Forget, MD!Goto, MD!files, DLP!TypeOK
<1>2. Knows(p)'
  BY <1>1 DEF DiskInv, Knows, FetchPCs, AckPCs
<1>3. ASSUME NEW q \in Procs, q # p PROVE Knows(q)'
  BY <1>1, <1>3, LogStays, OthersKnow DEF DiskInv
<1>4. QED
  BY <1>1, <1>2, <1>3, LogStays DEF DiskInv, PCs

\* The one death: until then the lock excludes, and the process that dies in the
\* middle of a write is alone.
LEMMA DiskDeath ==
  ASSUME OneDeath, DiskInv, DLP!TypeOK, crashes = 0 => DLP!LockInv, LockConstants,
         NEW p \in Procs, MD!Crash(p)
  PROVE  DiskInv' /\ LogKept
<1>1. /\ crashes = 0 /\ crashes' = 1 /\ tail = "newline" /\ DLP!LockInv
      /\ at' = [at EXCEPT ![p] = "idle"] /\ at \in [Procs -> DLP!PCs]
  BY DEF OneDeath, LockConstants, MD!Crash, MD!DL!Crash, MD!DL!Goto, DLP!TypeOK, DiskInv
<1>2. CASE at[p] # "held" /\ UNCHANGED MD!opvars
  <2>1. UNCHANGED <<msgs, tail, pc, arg>>
    BY <1>2 DEF MD!opvars, MD!files, MD!locals
  <2>2. Knows(p)'
    BY <1>1, <1>2, <2>1 DEF DiskInv, Knows, FetchPCs, AckPCs
  <2>3. ASSUME NEW q \in Procs, q # p PROVE Knows(q)'
    BY <1>1, <2>1, <2>3, LogStays, OthersKnow DEF DiskInv
  <2>4. QED
    BY <1>1, <2>1, <2>2, <2>3, LogStays DEF DiskInv
<1>3. CASE at[p] = "held" /\ MD!Die(p)
  <2>1. ASSUME NEW q \in Procs, q # p PROVE pc[q] = "idle"
    <3>1. at[q] # "held"
      BY <1>1, <1>3, <2>1 DEF DLP!LockInv, DLP!HolderMadeDir, DLP!Holders
    <3>2. QED
      BY <3>1 DEF DiskInv, Knows
  <2>2. pc' = [pc EXCEPT ![p] = "idle"] /\ arg' = [arg EXCEPT ![p] = 0]
    BY <1>3 DEF MD!Die, MD!Forget, MD!Goto
  <2>3. \A q \in Procs : Knows(q)'
    <3>1. \A q \in Procs : pc'[q] = "idle"
      BY <2>1, <2>2 DEF DiskInv
    <3>2. QED
      BY <3>1 DEF Knows, FetchPCs, AckPCs
  <2>4. msgs' = msgs \/ msgs' = Append(msgs, MD!NewMessage(p))
    BY <1>1, <1>3 DEF MD!Die, MD!files, MD!WriteCutOff, MD!Settled, MD!WriteRecord
  <2>5. msgs' \in Seq(Range(msgs')) /\ LogKept
    BY <2>4, LogStays, LogGrows
  <2>6. QED
    BY <1>1, <2>2, <2>3, <2>5 DEF DiskInv, PCs
<1>4. QED
  BY <1>2, <1>3 DEF MD!Crash

LEMMA DiskInvStep ==
  ASSUME OneDeath, WritesSucceed, LockConstants,
         DiskInv, DLP!TypeOK, crashes = 0 => DLP!LockInv, [MD!Next]_(MD!vars)
  PROVE  DiskInv' /\ LogKept
<1>1. ASSUME UNCHANGED MD!opvars, UNCHANGED crashes,
             \A q \in Procs : at[q] = "held" => at'[q] = "held"
      PROVE  DiskInv' /\ LogKept
  <2>1. UNCHANGED <<msgs, tail, pc, arg>>
    BY <1>1 DEF MD!opvars, MD!files, MD!locals
  <2>2. \A q \in Procs : Knows(q)'
    BY <1>1, <2>1 DEF DiskInv, Knows, IdsOf, FetchPCs, AckPCs
  <2>3. QED
    BY <1>1, <2>1, <2>2, LogStays DEF DiskInv
<1>2. ASSUME NEW p \in Procs, MD!Queue(p) \/ MD!Contend(p)
      PROVE  DiskInv' /\ LogKept
  BY <1>1, <1>2 DEF MD!Queue, MD!Contend, MD!DL!Call, MD!DL!MkdirExists, MD!DL!MkdirFails,
                    MD!DL!Stat, MD!DL!Steal, MD!DL!GiveUp, MD!DL!Retry, MD!DL!Goto, DLP!TypeOK
<1>3. ASSUME NEW p \in Procs, MD!Enter(p)
      PROVE  DiskInv' /\ LogKept
  BY <1>3, DiskStart
<1>4. ASSUME NEW p \in Procs, MD!Work(p)
      PROVE  DiskInv' /\ LogKept
  BY <1>4, DiskAppend, DiskRead DEF MD!Work, MD!Step, MD!lockvars
<1>5. ASSUME NEW p \in Procs, MD!Leave(p)
      PROVE  DiskInv' /\ LogKept
  BY <1>5, DiskReturn
<1>6. ASSUME NEW p \in Procs, MD!Crash(p)
      PROVE  DiskInv' /\ LogKept
  BY <1>6, DiskDeath
<1>7. CASE MD!Pass
  BY <1>1, <1>7 DEF MD!Pass, MD!DL!Tick
<1>8. CASE UNCHANGED MD!vars
  BY <1>1, <1>8 DEF MD!vars, MD!lockvars
<1>9. QED
  BY <1>2, <1>3, <1>4, <1>5, <1>6, <1>7, <1>8 DEF MD!Next

LEMMA DiskInvInit == MD!Init => DiskInv
<1> SUFFICES ASSUME MD!Init PROVE DiskInv
  OBVIOUS
<1>1. msgs = <<>> /\ tail = "newline" /\ crashes = 0
      /\ pc = [p \in Procs |-> "idle"] /\ arg = [p \in Procs |-> 0]
  BY DEF MD!Init, MD!InitOps, MD!DL!Init
<1>2. msgs \in Seq(Range(msgs))
  BY <1>1, EmptySeq
<1>3. QED
  BY <1>1, <1>2 DEF DiskInv, Knows, PCs, FetchPCs, AckPCs

LEMMA DiskInvHolds ==
  ASSUME LockConstants, OneDeath, WritesSucceed PROVE MD!Spec => []DiskInv
<1>1. DiskInv /\ DLP!TypeOK /\ (crashes = 0 => DLP!LockInv) /\ [MD!Next]_(MD!vars) => DiskInv'
  BY DiskInvStep
<1>2. HoldsAreShort
  BY DEF OneDeath
<1>3. QED
  BY <1>1, <1>2, DiskInvInit, LockUntilDeath, PTL DEF MD!Spec

\* What Append answered for is in the log, also when a process has died in the
\* middle of a write and others write at the same time (Append, acquireLockWait).
THEOREM StoredAfterDeath ==
  ASSUME LockConstants, OneDeath, WritesSucceed PROVE MD!Spec => []StoredWhenAnswered
<1>1. DiskInv => StoredWhenAnswered
  BY DEF DiskInv, Knows, StoredWhenAnswered
<1>2. QED
  BY <1>1, DiskInvHolds, PTL

\* And no write takes an earlier message away (Append, acquireLockWait).
THEOREM AppendOnlyAfterDeath ==
  ASSUME LockConstants, OneDeath, WritesSucceed PROVE MD!Spec => LogIsAppendOnly
<1>1. DiskInv /\ DLP!TypeOK /\ (crashes = 0 => DLP!LockInv) /\ [MD!Next]_(MD!vars) =>
        [/\ Len(msgs) <= Len(msgs')
         /\ SubSeq(msgs', 1, Len(msgs)) = msgs]_opvars
  BY DiskInvStep DEF LogKept
<1>2. HoldsAreShort
  BY DEF OneDeath
<1>3. QED
  BY <1>1, <1>2, DiskInvHolds, LockUntilDeath, PTL DEF MD!Spec, LogIsAppendOnly
=============================================================================
