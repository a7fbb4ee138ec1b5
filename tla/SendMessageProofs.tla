-------------------------- MODULE SendMessageProofs -------------------------
(***************************************************************************)
(* SendMessage for any number of processes, senders, keys and messages,    *)
(* with crashes, stolen locks and failing files.  Up to the first theft of *)
(* a live claim's lock a sender's key delivers one message and a key stays *)
(* with its message; and whatever happens no message is delivered without  *)
(* a record, statuses are current and never fall back.  All of it hangs on *)
(* a key file that is there being readable.                                *)
(***************************************************************************)
EXTENDS SendMessage, SequenceTheorems, TLAPS

KeysRead == ~KeyUnread

\* What the mailbox's own steps do to its variables.
MailboxTypeOK == inbox \in Seq(Ids) /\ delivered \in 0..Len(inbox) /\ read \in 0..delivered

LEMMA DepositKeepsType ==
  ASSUME MailboxTypeOK, NEW i \in Ids, Box!Deposit(i)
  PROVE  MailboxTypeOK' /\ Range(inbox)' = Range(inbox) \cup {i}
<1>1. inbox' = Append(inbox, i) /\ delivered' = delivered /\ read' = read
  BY DEF Box!Deposit
<1>2. inbox' \in Seq(Ids) /\ Len(inbox') = Len(inbox) + 1 /\ Len(inbox) \in Nat
  BY <1>1, AppendProperties, LenProperties DEF MailboxTypeOK
<1>3. MailboxTypeOK'
  BY <1>1, <1>2 DEF MailboxTypeOK
<1>4. DOMAIN inbox = 1..Len(inbox) /\ DOMAIN inbox' = 1..(Len(inbox) + 1)
  BY <1>2, LenProperties DEF MailboxTypeOK
<1>5. inbox'[Len(inbox) + 1] = i /\ \A n \in DOMAIN inbox : inbox'[n] = inbox[n]
  BY <1>1, <1>2, <1>4, AppendProperties DEF MailboxTypeOK
<1>6. DOMAIN inbox' = DOMAIN inbox \cup {Len(inbox) + 1}
  BY <1>2, <1>4
<1>7. Range(inbox)' = Range(inbox) \cup {i}
  BY <1>5, <1>6, Zenon DEF Range
<1>8. QED
  BY <1>3, <1>7

LEMMA ReaderKeepsType ==
  ASSUME MailboxTypeOK, NEW n \in 1..Len(inbox), Box!HandOut(n) \/ Box!Acknowledge(n)
  PROVE  MailboxTypeOK' /\ inbox' = inbox
<1>1. Len(inbox) \in Nat
  BY LenProperties DEF MailboxTypeOK
<1>2. CASE Box!HandOut(n)
  BY <1>1, <1>2 DEF MailboxTypeOK, Box!HandOut
<1>3. CASE Box!Acknowledge(n)
  BY <1>1, <1>3 DEF MailboxTypeOK, Box!Acknowledge
<1>4. QED
  BY <1>2, <1>3

-----------------------------------------------------------------------------
LEMMA StandingType == ASSUME NEW i PROVE Standing(i) \in 0..3
BY DEF Standing

LEMMA PathsType ==
  ASSUME NEW s \in Senders, NEW k \in Keys
  PROVE  KeyPath(s, k) \in Paths
BY DEF Paths

\* A step that leaves the mailbox alone keeps its type.
LEMMA MailboxUntouched ==
  ASSUME MailboxTypeOK, UNCHANGED mailbox
  PROVE  MailboxTypeOK' /\ Range(inbox)' = Range(inbox)
BY DEF MailboxTypeOK, mailbox

-----------------------------------------------------------------------------
TypesRest ==
  /\ reached \subseteq Ids
  /\ index \in [Paths -> Ids \cup {Nobody, Blank}]
  /\ ledger \in [Ids -> SentRecord \cup {NoRecord}]
  /\ maker \in Procs \cup {Nobody} /\ holders \subseteq Procs /\ thieves \subseteq Procs
  /\ robbed \in BOOLEAN
  /\ pc \in [Procs -> PCs]
  /\ sender \in [Procs -> Senders \cup {<<>>}]
  /\ key \in [Procs -> Keys \cup {NoKey}]
  /\ to \in [Procs -> Recipients]
  /\ id \in [Procs -> Ids \cup {Nobody}]
  /\ answer \in [Procs -> Answers]
  /\ origin \in [Ids -> Origin]
  /\ since \in [Procs -> 0..3]
  /\ crashes \in 0..MaxCrashes

HasId == {"claim", "claim.steal", "claim.read", "claim.truncate", "claim.write", "claim.won",
          "claim.found", "record", "deliver", "record.final", "lookup", "find.log", "find.marks"}

LEMMA TypeStep ==
  ASSUME TypesRest, [Next]_vars,
         \A p \in Procs : pc[p] \in HasId => id[p] \in Ids,
         \A p \in Procs : pc[p] = "record.final" => answer[p] # "none"
  PROVE  TypesRest'
<1> USE DEF TypesRest, files, params, keysLock, Goto, HasId
<1>1. ASSUME NEW p \in Procs, Send(p)
      PROVE  TypesRest'
  BY <1>1 DEF Send, Origin, PCs
<1>2. ASSUME NEW p \in Procs, Claim(p)
      PROVE  TypesRest'
  <2>1. ASSUME ClaimFree(p) \/ ClaimTimeout(p) \/ ClaimFails(p)
        PROVE  TypesRest'
    BY <2>1 DEF ClaimFree, ClaimTimeout, ClaimFails, PCs
  <2>5. ASSUME ClaimLock(p) \/ ClaimStale(p) \/ ClaimSteal(p) \/ ClaimRelease(p)
        PROVE  TypesRest'
    <3>1. /\ maker' \in Procs \cup {Nobody} /\ holders' \subseteq Procs /\ thieves' \subseteq Procs
          /\ robbed' \in BOOLEAN
      BY <2>5 DEF ClaimLock, ClaimStale, ClaimSteal, ClaimRelease, LedgerLock!Grant,
                  LedgerLock!Judge, LedgerLock!Steal, LedgerLock!Release, LedgerLock!Removal
    <3>2. pc' \in [Procs -> PCs]
      BY <2>5 DEF ClaimLock, ClaimStale, ClaimSteal, ClaimRelease, PCs
    <3>3. UNCHANGED <<reached, index, ledger, sender, key, to, id, answer, origin, since, crashes>>
      BY <2>5 DEF ClaimLock, ClaimStale, ClaimSteal, ClaimRelease
    <3>4. QED
      BY <3>1, <3>2, <3>3
  <2>2. ASSUME ClaimTaken(p)
        PROVE  TypesRest'
    <3>1. Standing(index[MyPath(p)]) \in 0..3
      BY StandingType
    <3>2. since' \in [Procs -> 0..3]
      BY <2>2, <3>1 DEF ClaimTaken, AskFor
    <3>3. QED
      BY <2>2, <3>2 DEF ClaimTaken, AskFor, PCs
  <2>3. ASSUME ClaimTruncate(p) \/ ClaimWrite(p)
        PROVE  TypesRest'
    BY <2>3 DEF ClaimTruncate, ClaimWrite, PCs
  <2>4. QED
    BY <1>2, <2>1, <2>2, <2>3, <2>5 DEF Claim
<1>3. ASSUME NEW p \in Procs, Deliver(p)
      PROVE  TypesRest'
  <2>1. ASSUME Record(p)
        PROVE  TypesRest'
    <3>1. ledger' \in [Ids -> SentRecord \cup {NoRecord}]
      BY <2>1 DEF Record, WriteSent, SentRecord, Answers
    <3>2. QED
      BY <2>1, <3>1 DEF Record, PCs
  <2>2. ASSUME RecordFinal(p)
        PROVE  TypesRest'
    <3>1. answer[p] # "none"
      BY <2>2 DEF RecordFinal
    <3>2. ledger' \in [Ids -> SentRecord \cup {NoRecord}]
      BY <2>2, <3>1 DEF RecordFinal, WriteSent, SentRecord, Answers
    <3>3. QED
      BY <2>2, <3>2 DEF RecordFinal, PCs
  <2>3. ASSUME RecordFails(p) \/ RecordFinalFails(p)
        PROVE  TypesRest'
    BY <2>3 DEF RecordFails, RecordFinalFails, PCs
  <2>4. ASSUME DeliverToMailbox(p) \/ MailboxFails(p) \/ DeliverToSession(p) \/ SessionFails(p)
        PROVE  TypesRest'
    <3>1. \E st \in Answers : Outcome(p, st) /\ UNCHANGED <<index, ledger>>
      BY <2>4 DEF DeliverToMailbox, MailboxFails, DeliverToSession, SessionFails, Outcome, Answers
    <3>2. reached' \subseteq Ids
      BY <2>4 DEF DeliverToMailbox, MailboxFails, DeliverToSession, SessionFails
    <3>3. QED
      BY <3>1, <3>2 DEF Outcome, PCs
  <2>5. QED
    BY <1>3, <2>1, <2>2, <2>3, <2>4 DEF Deliver
<1>4. ASSUME NEW p \in Procs, Query(p)
      PROVE  TypesRest'
  <2>1. PICK i \in Ids : AskFor(p, i)
    BY <1>4 DEF Query
  <2>2. Standing(i) \in 0..3
    BY StandingType
  <2>3. since' \in [Procs -> 0..3]
    BY <2>1, <2>2 DEF AskFor
  <2>4. QED
    BY <1>4, <2>1, <2>3 DEF Query, AskFor, PCs
<1>5. ASSUME NEW p \in Procs, Forget(p), UNCHANGED <<maker, robbed>>, holders' \subseteq Procs,
             thieves' \subseteq Procs, crashes' \in 0..MaxCrashes
      PROVE  TypesRest'
  <2>1. since' \in [Procs -> 0..3]
    BY <1>5 DEF Forget
  <2>2. pc' \in [Procs -> PCs] /\ to' \in [Procs -> Recipients] /\ answer' \in [Procs -> Answers]
    BY <1>5 DEF Forget, PCs, Recipients, Answers
  <2>3. sender' \in [Procs -> Senders \cup {<<>>}] /\ key' \in [Procs -> Keys \cup {NoKey}]
        /\ id' \in [Procs -> Ids \cup {Nobody}]
    BY <1>5 DEF Forget
  <2>4. QED
    BY <1>5, <2>1, <2>2, <2>3 DEF Forget
<1>6. ASSUME NEW p \in Procs, Report(p)
      PROVE  TypesRest'
  <2>1. ASSUME Lookup(p)
        PROVE  TypesRest'
    <3>1. ledger[id[p]].status \in Answers
      BY <2>1 DEF Lookup, SentRecord, NoRecord, Answers
    <3>2. answer' \in [Procs -> Answers]
      BY <2>1, <3>1 DEF Lookup
    <3>3. pc' \in [Procs -> PCs]
      BY <2>1 DEF Lookup, PCs
    <3>4. QED
      BY <2>1, <3>2, <3>3 DEF Lookup
  <2>2. ASSUME FindLog(p) \/ LookupFails(p) \/ FindFails(p)
        PROVE  TypesRest'
    BY <2>2 DEF FindLog, LookupFails, FindFails, PCs
  <2>3. ASSUME FindMarks(p)
        PROVE  TypesRest'
    BY <2>3 DEF FindMarks, StatusOf, Answers, PCs
  <2>4. ASSUME Return(p)
        PROVE  TypesRest'
    BY <1>5, <2>4 DEF Return
  <2>5. QED
    BY <1>6, <2>1, <2>2, <2>3, <2>4 DEF Report
<1>10. ASSUME NEW p \in Procs, Crash(p)
      PROVE  TypesRest'
  <2>1. crashes' \in 0..MaxCrashes
    BY <1>10, CrashesAssumption DEF Crash
  <2>2. /\ UNCHANGED <<maker, robbed>> /\ holders' \subseteq Procs /\ thieves' \subseteq Procs
        /\ Forget(p)
    BY <1>10 DEF Crash, LedgerLock!Die
  <2>3. QED
    BY <1>5, <2>1, <2>2
<1>7. CASE Reader
  BY <1>7 DEF Reader
<1>8. CASE UNCHANGED vars
  BY <1>8 DEF vars
<1>9. QED
  BY <1>1, <1>2, <1>3, <1>4, <1>6, <1>7, <1>8, <1>10 DEF Next

-----------------------------------------------------------------------------
(***************************************************************************)
(* The inductive invariant.  OneDeliveryPerKey is not inductive: that two  *)
(* delivered messages cannot share a key takes that a delivered message's  *)
(* key file has its id, hence that a call has the key from the moment it   *)
(* stops holding the lock, hence that the file it found free is free until *)
(* it has written it, hence that a holder whose directory nobody has taken *)
(* away is the only one.                                                   *)
(***************************************************************************)
Claiming == {"claim", "claim.steal", "claim.read", "claim.truncate", "claim.write", "claim.won"}
Delivering == {"record", "deliver", "record.final"}
Locked == {"claim.read", "claim.truncate", "claim.write", "claim.won", "claim.found", "claim.lost"}
KeyWon == {"claim.won"} \cup Delivering

Owns(p) ==
  pc[p] \in Claiming \cup Delivering =>
    /\ id[p] \in Ids /\ sender[p] \in Senders
    /\ origin[id[p]] = [sender |-> sender[p], key |-> key[p], minted |-> TRUE]

HasKey(p) == pc[p] \in Claiming => key[p] \in Keys

HasLock(p) == pc[p] \in Locked => p \in holders

KeyFree(p) ==
  ~robbed /\ pc[p] \in {"claim.truncate", "claim.write"} => index[MyPath(p)] \notin Ids

KeyHeld(p) == ~robbed /\ pc[p] \in KeyWon /\ key[p] # NoKey => index[MyPath(p)] = id[p]

OnRecord(p) == pc[p] \in {"deliver", "record.final"} => ledger[id[p]] # NoRecord

HasOutcome(p) == pc[p] = "record.final" => answer[p] # "none"

Asks(p) == pc[p] \in {"claim.found", "lookup", "find.log", "find.marks"} => id[p] \in Ids

CallInv(p) ==
  /\ Owns(p) /\ HasKey(p) /\ HasLock(p) /\ KeyFree(p) /\ KeyHeld(p)
  /\ OnRecord(p) /\ HasOutcome(p) /\ Asks(p)

\* What is known of a message that has got to its recipient.
Accounted(i) ==
  /\ i \in Ids /\ origin[i].minted /\ origin[i].sender \in Senders
  /\ ~robbed /\ origin[i].key # NoKey => index[KeyPath(origin[i].sender, origin[i].key)] = i
  /\ ledger[i] # NoRecord

\* Until somebody is robbed, who has the lock has its own directory on disk.
HoldersOwn == ~robbed => \A p \in holders : p = maker

SendInv ==
  /\ MailboxTypeOK /\ TypesRest
  /\ HoldersOwn
  /\ \A p \in Procs : CallInv(p)
  /\ \A i \in Delivered : Accounted(i)

LEMMA SendInvInit == Init => SendInv
<1> SUFFICES ASSUME Init PROVE SendInv
  OBVIOUS
<1>1. MailboxTypeOK
  BY EmptySeq DEF Init, Box!Init, MailboxTypeOK
<1>2. TypesRest
  <2>1. since \in [Procs -> 0..3] /\ crashes \in 0..MaxCrashes
    BY CrashesAssumption DEF Init
  <2>2. ledger \in [Ids -> SentRecord \cup {NoRecord}] /\ origin \in [Ids -> Origin]
    BY DEF Init, Unminted, Origin, NoKey
  <2>3. /\ pc \in [Procs -> PCs] /\ to \in [Procs -> Recipients]
        /\ answer \in [Procs -> Answers]
    BY DEF Init, PCs, Recipients, Answers
  <2>4. QED
    BY <2>1, <2>2, <2>3 DEF Init, TypesRest, LedgerLock!Init
<1>3. Delivered = {}
  BY DEF Init, Box!Init, Delivered, Range
<1>4. ASSUME NEW p \in Procs
      PROVE  CallInv(p)
  BY DEF Init, CallInv, Owns, HasKey, HasLock, KeyFree, KeyHeld, OnRecord, HasOutcome, Asks,
         Claiming, Delivering, Locked, KeyWon
<1>5. HoldersOwn
  BY DEF Init, LedgerLock!Init, HoldersOwn
<1>6. QED
  BY <1>1, <1>2, <1>3, <1>4, <1>5 DEF SendInv

-----------------------------------------------------------------------------
(* What no step takes back. *)

KeysKept == ~robbed => \A f \in Paths : index[f] \in Ids => index'[f] = index[f]

TheftsKept == robbed => robbed'

OriginsKept == \A i \in Ids : origin[i].minted => origin'[i] = origin[i]

RecordsKept == \A i \in Ids : ledger[i] # NoRecord => ledger'[i] # NoRecord

LEMMA StepKeeps ==
  ASSUME SendInv, [Next]_vars
  PROVE  KeysKept /\ OriginsKept /\ RecordsKept
<1> USE DEF files, params
<1>1. ASSUME NEW p \in Procs, Send(p)
      PROVE  KeysKept /\ OriginsKept /\ RecordsKept
  BY <1>1 DEF Send, KeysKept, OriginsKept, RecordsKept, SendInv, TypesRest
<1>2. ASSUME NEW p \in Procs, Claim(p)
      PROVE  KeysKept /\ OriginsKept /\ RecordsKept
  <2>1. UNCHANGED <<origin, ledger>>
    BY <1>2 DEF Claim, ClaimLock, ClaimStale, ClaimSteal, ClaimTaken, ClaimFree, ClaimTruncate,
                ClaimWrite, ClaimTimeout, ClaimFails, ClaimRelease
  <2>2. CASE ClaimTruncate(p) \/ ClaimWrite(p)
    <3>1. ~robbed => index[MyPath(p)] \notin Ids
      BY <2>2 DEF ClaimTruncate, ClaimWrite, SendInv, CallInv, KeyFree
    <3>2. KeysKept
      BY <2>2, <3>1 DEF ClaimTruncate, ClaimWrite, KeysKept, SendInv, TypesRest
    <3>3. QED
      BY <2>1, <3>2 DEF OriginsKept, RecordsKept
  <2>3. CASE UNCHANGED index
    BY <2>1, <2>3 DEF KeysKept, OriginsKept, RecordsKept
  <2>4. QED
    BY <1>2, <2>2, <2>3 DEF Claim, ClaimLock, ClaimStale, ClaimSteal, ClaimTaken, ClaimFree,
                            ClaimTimeout, ClaimFails, ClaimRelease
<1>3. ASSUME NEW p \in Procs, Deliver(p)
      PROVE  KeysKept /\ OriginsKept /\ RecordsKept
  <2>1. UNCHANGED <<origin, index>>
    BY <1>3 DEF Deliver, Record, RecordFails, DeliverToMailbox, MailboxFails, DeliverToSession,
                SessionFails, RecordFinal, RecordFinalFails, Outcome
  <2>2. UNCHANGED ledger \/ \E st \in Answers : WriteSent(p, st)
    BY <1>3 DEF Deliver, Record, RecordFails, DeliverToMailbox, MailboxFails, DeliverToSession,
                SessionFails, RecordFinal, RecordFinalFails, Outcome, Answers, SendInv, TypesRest
  <2>3. RecordsKept
    <3>1. to[p] # "nobody"
      BY DEF SendInv, TypesRest, Recipients
    <3>2. \A st : [to |-> to[p], status |-> st] # NoRecord
      BY <3>1 DEF NoRecord
    <3>3. QED
      BY <2>2, <3>2 DEF RecordsKept, WriteSent, SendInv, TypesRest
  <2>4. QED
    BY <2>1, <2>3 DEF KeysKept, OriginsKept
<1>4. ASSUME UNCHANGED <<index, origin, ledger>>
      PROVE  KeysKept /\ OriginsKept /\ RecordsKept
  BY <1>4 DEF KeysKept, OriginsKept, RecordsKept
<1>5. ASSUME NEW p \in Procs, Query(p) \/ Report(p) \/ Crash(p)
      PROVE  UNCHANGED <<index, origin, ledger>>
  BY <1>5 DEF Query, AskFor, Report, Lookup, FindLog, FindMarks, LookupFails, FindFails, Return, Crash, Forget
<1>6. CASE Reader \/ UNCHANGED vars
  BY <1>6, <1>4 DEF Reader, vars
<1>7. QED
  BY <1>1, <1>2, <1>3, <1>4, <1>5, <1>6 DEF Next

\* A theft is not forgotten, and until there is one only an own directory is removed.
LEMMA LockKept ==
  ASSUME SendInv, [Next]_vars
  PROVE  TheftsKept /\ HoldersOwn'
<1> USE DEF TheftsKept, HoldersOwn, SendInv, TypesRest, keysLock
<1>1. UNCHANGED keysLock => TheftsKept /\ HoldersOwn'
  OBVIOUS
<1>2. ASSUME NEW p \in Procs, ClaimLock(p) \/ ClaimStale(p) \/ ClaimSteal(p) \/ ClaimRelease(p)
      PROVE  TheftsKept /\ HoldersOwn'
  <2>1. CASE ClaimLock(p)
    BY <2>1, NotProc DEF ClaimLock, LedgerLock!Grant
  <2>2. CASE ClaimStale(p)
    BY <2>2 DEF ClaimStale, LedgerLock!Judge
  <2>3. CASE ClaimSteal(p)
    BY <2>3 DEF ClaimSteal, LedgerLock!Steal, LedgerLock!Removal, LedgerLock!Robs
  <2>4. CASE ClaimRelease(p)
    BY <2>4 DEF ClaimRelease, LedgerLock!Release, LedgerLock!Removal, LedgerLock!Robs
  <2>5. QED
    BY <1>2, <2>1, <2>2, <2>3, <2>4
<1>3. ASSUME NEW p \in Procs, Crash(p)
      PROVE  TheftsKept /\ HoldersOwn'
  BY <1>3 DEF Crash, LedgerLock!Die
<1>4. ASSUME NEW p \in Procs, Claim(p)
      PROVE  UNCHANGED keysLock \/ ClaimLock(p) \/ ClaimStale(p) \/ ClaimSteal(p) \/ ClaimRelease(p)
  BY <1>4 DEF Claim, ClaimTaken, ClaimFree, ClaimTruncate, ClaimWrite, ClaimTimeout, ClaimFails
<1>5. ASSUME NEW p \in Procs, Send(p) \/ Query(p) \/ Deliver(p) \/ Report(p)
      PROVE  UNCHANGED keysLock
  BY <1>5 DEF Send, Query, Deliver, Record, RecordFails, DeliverToMailbox, MailboxFails,
              DeliverToSession, SessionFails, RecordFinal, RecordFinalFails, Outcome, Report, Lookup,
              FindLog, FindMarks, LookupFails, FindFails, Return
<1>6. CASE Reader \/ UNCHANGED vars
  BY <1>1, <1>6 DEF Reader, vars
<1>7. QED
  BY <1>1, <1>2, <1>3, <1>4, <1>5, <1>6 DEF Next

-----------------------------------------------------------------------------
(* What a step of one call leaves to the others. *)

SameCall(q) ==
  /\ UNCHANGED <<pc[q], sender[q], key[q], to[q], id[q], answer[q]>>
  /\ q \in holders => q \in holders'

OwnStep(p) == Send(p) \/ Query(p) \/ Claim(p) \/ Deliver(p) \/ Report(p) \/ Crash(p)

LEMMA OtherCallsSame ==
  ASSUME SendInv, NEW p \in Procs, OwnStep(p), NEW q \in Procs, q # p
  PROVE  SameCall(q) /\ (~robbed /\ q \in holders => UNCHANGED index)
<1> USE DEF SendInv, TypesRest, Goto, params, files, keysLock
<1>1. CASE Send(p)
  BY <1>1 DEF Send, SameCall
<1>2. CASE Query(p)
  BY <1>2 DEF Query, AskFor, SameCall
<1>3. CASE Claim(p)
  <2>1. UNCHANGED <<pc[q], sender[q], key[q], to[q], id[q], answer[q]>>
    BY <1>3 DEF Claim, ClaimLock, ClaimStale, ClaimSteal, ClaimTaken, AskFor, ClaimFree,
                ClaimTruncate, ClaimWrite, ClaimTimeout, ClaimFails, ClaimRelease
  <2>2. q \in holders => q \in holders'
    BY <1>3 DEF Claim, ClaimLock, ClaimStale, ClaimSteal, ClaimTaken, ClaimFree, ClaimTruncate,
                ClaimWrite, ClaimTimeout, ClaimFails, ClaimRelease, LedgerLock!Grant,
                LedgerLock!Judge, LedgerLock!Steal, LedgerLock!Release
  <2>3. ~robbed /\ q \in holders => UNCHANGED index
    <3>1. ClaimTruncate(p) \/ ClaimWrite(p) => p \in holders
      BY DEF ClaimTruncate, ClaimWrite, CallInv, HasLock, Locked
    <3>2. p \in holders /\ q \in holders => robbed
      BY DEF HoldersOwn
    <3>3. QED
      BY <1>3, <3>1, <3>2 DEF Claim, ClaimLock, ClaimStale, ClaimSteal, ClaimTaken, ClaimFree,
                              ClaimTimeout, ClaimFails, ClaimRelease
  <2>4. QED
    BY <2>1, <2>2, <2>3 DEF SameCall
<1>4. CASE Deliver(p)
  BY <1>4 DEF Deliver, Record, RecordFails, DeliverToMailbox, MailboxFails, DeliverToSession,
              SessionFails, RecordFinal, RecordFinalFails, Outcome, SameCall
<1>5. CASE Report(p)
  BY <1>5 DEF Report, Lookup, FindLog, FindMarks, LookupFails, FindFails, Return, Forget, SameCall
<1>6. CASE Crash(p)
  BY <1>6 DEF Crash, LedgerLock!Die, Forget, SameCall
<1>7. QED
  BY <1>1, <1>2, <1>3, <1>4, <1>5, <1>6 DEF OwnStep

LEMMA CallKept ==
  ASSUME SendInv, TypesRest', KeysKept, OriginsKept, RecordsKept, TheftsKept,
         NEW q \in Procs, SameCall(q), ~robbed /\ q \in holders => UNCHANGED index
  PROVE  CallInv(q)'
<1> USE DEF SendInv, CallInv, SameCall, TheftsKept
<1>1. Owns(q)'
  BY DEF Owns, OriginsKept
<1>2. HasKey(q)' /\ HasLock(q)' /\ HasOutcome(q)' /\ Asks(q)'
  BY DEF HasKey, HasLock, HasOutcome, Asks
<1>3. MyPath(q)' = MyPath(q)
  BY DEF MyPath
<1>4. KeyFree(q)'
  BY <1>3 DEF KeyFree, HasLock, Locked
<1>5. KeyHeld(q)'
  <2>1. SUFFICES ASSUME ~robbed, pc[q] \in KeyWon, key[q] # NoKey
                 PROVE  index'[MyPath(q)] = id[q]
    BY <1>3 DEF KeyHeld
  <2>2. index[MyPath(q)] = id[q] /\ id[q] \in Ids /\ sender[q] \in Senders /\ key[q] \in Keys
    BY <2>1 DEF KeyHeld, Owns, TypesRest, KeyWon, Claiming
  <2>3. MyPath(q) \in Paths
    BY <2>2, PathsType DEF MyPath
  <2>4. QED
    BY <2>1, <2>2, <2>3 DEF KeysKept
<1>6. OnRecord(q)'
  BY DEF OnRecord, RecordsKept, Owns, Delivering
<1>7. QED
  BY <1>1, <1>2, <1>4, <1>5, <1>6

LEMMA AccountedKept ==
  ASSUME SendInv, KeysKept, OriginsKept, RecordsKept, TheftsKept, NEW i, Accounted(i)
  PROVE  Accounted(i)'
<1>1. i \in Ids /\ origin'[i] = origin[i] /\ ledger'[i] # NoRecord
  BY DEF Accounted, OriginsKept, RecordsKept
<1>2. ASSUME ~robbed, origin[i].key # NoKey
      PROVE  index'[KeyPath(origin[i].sender, origin[i].key)] = i
  <2>1. origin[i].key \in Keys
    BY <1>1, <1>2 DEF SendInv, TypesRest, Origin
  <2>2. KeyPath(origin[i].sender, origin[i].key) \in Paths
    BY <2>1, PathsType DEF Accounted
  <2>3. QED
    BY <1>1, <1>2, <2>2 DEF Accounted, KeysKept
<1>3. QED
  BY <1>1, <1>2 DEF Accounted, TheftsKept

-----------------------------------------------------------------------------
(* What a step does for the call that takes it. *)

LEMMA CallAdvances ==
  ASSUME KeysRead, SendInv, TypesRest', KeysKept, OriginsKept, RecordsKept, TheftsKept,
         NEW p \in Procs, OwnStep(p)
  PROVE  CallInv(p)'
<1> USE DEF SendInv, TypesRest, Goto, params, files, keysLock, TheftsKept
<1> USE DEF Claiming, Delivering, Locked, KeyWon
<1> USE DEF CallInv, Owns, HasKey, HasLock, KeyFree, KeyHeld, OnRecord, HasOutcome, Asks, MyPath
<1>1. CASE Send(p)
  BY <1>1 DEF Send
<1>2. CASE Query(p)
  BY <1>2 DEF Query, AskFor
<1>3. ASSUME Forget(p)
      PROVE  CallInv(p)'
  BY <1>3 DEF Forget
<1>4. CASE Claim(p)
  <2>1. CASE ClaimLock(p)
    BY <2>1 DEF ClaimLock, LedgerLock!Grant
  <2>2. CASE ClaimTaken(p)
    BY <2>2 DEF ClaimTaken, AskFor
  <2>3. CASE ClaimFree(p)
    BY <2>3 DEF ClaimFree, KeysRead
  <2>4. CASE ClaimTruncate(p)
    <3>1. sender[p] \in Senders /\ key[p] \in Keys
      BY <2>4 DEF ClaimTruncate
    <3>2. index'[MyPath(p)] = Blank
      BY <2>4, <3>1, PathsType DEF ClaimTruncate
    <3>3. QED
      BY <2>4, <3>2, NotIds DEF ClaimTruncate
  <2>5. CASE ClaimWrite(p)
    <3>1. sender[p] \in Senders /\ key[p] \in Keys
      BY <2>5 DEF ClaimWrite
    <3>2. index'[MyPath(p)] = id[p]
      BY <2>5, <3>1, PathsType DEF ClaimWrite
    <3>3. QED
      BY <2>5, <3>2 DEF ClaimWrite
  <2>6. CASE ClaimTimeout(p) \/ ClaimFails(p)
    BY <2>6 DEF ClaimTimeout, ClaimFails
  <2>7. CASE ClaimStale(p) \/ ClaimSteal(p)
    BY <2>7 DEF ClaimStale, ClaimSteal
  <2>8. CASE ClaimRelease(p)
    BY <2>8 DEF ClaimRelease
  <2>9. QED
    BY <1>4, <2>1, <2>2, <2>3, <2>4, <2>5, <2>6, <2>7, <2>8 DEF Claim
<1>5. CASE Deliver(p)
  <2>1. CASE Record(p)
    <3>1. ledger'[id[p]] # NoRecord
      BY <2>1 DEF Record, WriteSent, NoRecord, Recipients
    <3>2. QED
      BY <2>1, <3>1 DEF Record
  <2>2. CASE RecordFinal(p) \/ RecordFails(p) \/ RecordFinalFails(p)
    BY <2>2 DEF RecordFinal, RecordFails, RecordFinalFails
  <2>3. ASSUME pc[p] = "deliver", NEW st \in Answers \ {"none"}, Outcome(p, st)
        PROVE  CallInv(p)'
    BY <2>3 DEF Outcome
  <2>4. CASE DeliverToMailbox(p) \/ MailboxFails(p) \/ DeliverToSession(p) \/ SessionFails(p)
    BY <2>3, <2>4 DEF DeliverToMailbox, MailboxFails, DeliverToSession, SessionFails, Answers
  <2>5. QED
    BY <1>5, <2>1, <2>2, <2>4 DEF Deliver
<1>6. CASE Report(p)
  BY <1>3, <1>6 DEF Report, Lookup, FindLog, FindMarks, LookupFails, FindFails, Return
<1>7. CASE Crash(p)
  BY <1>3, <1>7 DEF Crash
<1>8. QED
  BY <1>1, <1>2, <1>4, <1>5, <1>6, <1>7 DEF OwnStep

\* Only a call that has recorded its message delivers it, to the one recipient.
LEMMA WhatIsDelivered ==
  ASSUME SendInv, NEW p \in Procs, OwnStep(p)
  PROVE  /\ MailboxTypeOK'
         /\ \/ Delivered' = Delivered
            \/ pc[p] = "deliver" /\ Delivered' = Delivered \cup {id[p]}
<1>1. ASSUME UNCHANGED <<mailbox, reached>>
      PROVE  MailboxTypeOK' /\ Delivered' = Delivered
  BY <1>1, MailboxUntouched DEF SendInv, Delivered
<1>2. CASE Send(p) \/ Query(p) \/ Claim(p) \/ Report(p) \/ Crash(p)
  BY <1>1, <1>2
     DEF Send, Query, Claim, ClaimLock, ClaimStale, ClaimSteal, ClaimTaken, ClaimFree,
         ClaimTruncate, ClaimWrite, ClaimTimeout, ClaimFails, ClaimRelease, Report, Lookup,
         FindLog, FindMarks, LookupFails, FindFails, Return, Crash, Forget
<1>3. CASE Deliver(p)
  <2>1. CASE Record(p) \/ RecordFails(p) \/ RecordFinal(p) \/ RecordFinalFails(p)
    BY <1>1, <2>1 DEF Record, RecordFails, RecordFinal, RecordFinalFails
  <2>2. ASSUME pc[p] = "deliver", Box!Deposit(id[p]), UNCHANGED reached
        PROVE  MailboxTypeOK' /\ Delivered' = Delivered \cup {id[p]}
    <3>1. id[p] \in Ids
      BY <2>2 DEF SendInv, CallInv, Owns, Delivering
    <3>2. QED
      BY <2>2, <3>1, DepositKeepsType DEF SendInv, Delivered
  <2>3. ASSUME UNCHANGED mailbox, reached' = reached \cup {id[p]}
        PROVE  MailboxTypeOK' /\ Delivered' = Delivered \cup {id[p]}
    BY <2>3, MailboxUntouched DEF SendInv, Delivered
  <2>4. CASE DeliverToMailbox(p) \/ MailboxFails(p)
    BY <1>1, <2>2, <2>4 DEF DeliverToMailbox, MailboxFails
  <2>5. CASE DeliverToSession(p) \/ SessionFails(p)
    BY <1>1, <2>3, <2>5 DEF DeliverToSession, SessionFails
  <2>6. QED
    BY <1>3, <2>1, <2>4, <2>5 DEF Deliver
<1>4. QED
  BY <1>2, <1>3 DEF OwnStep

LEMMA SendInvStep == ASSUME KeysRead PROVE SendInv /\ [Next]_vars => SendInv'
<1> SUFFICES ASSUME SendInv, [Next]_vars
             PROVE  SendInv'
  OBVIOUS
<1>1. KeysKept /\ OriginsKept /\ RecordsKept /\ TheftsKept /\ HoldersOwn'
  BY StepKeeps, LockKept
<1>2. TypesRest'
  <2>1. \A p \in Procs : pc[p] \in HasId => id[p] \in Ids
    BY DEF SendInv, CallInv, Owns, Asks, HasId, Claiming, Delivering, KeyWon
  <2>2. \A p \in Procs : pc[p] = "record.final" => answer[p] # "none"
    BY DEF SendInv, CallInv, HasOutcome
  <2>3. TypesRest
    BY DEF SendInv
  <2>4. QED
    BY <2>1, <2>2, <2>3, TypeStep
<1>3. ASSUME NEW p \in Procs, OwnStep(p)
      PROVE  SendInv'
  <2>1. \A q \in Procs : CallInv(q)'
    <3>1. ASSUME NEW q \in Procs, q # p
          PROVE  CallInv(q)'
      BY <1>1, <1>2, <1>3, <3>1, OtherCallsSame, CallKept
    <3>2. CallInv(p)'
      BY <1>1, <1>2, <1>3, CallAdvances
    <3>3. QED
      BY <3>1, <3>2
  <2>2. ASSUME NEW i \in Delivered
        PROVE  Accounted(i)'
    BY <1>1, AccountedKept DEF SendInv
  <2>3. ASSUME pc[p] = "deliver", NEW i, i = id[p]
        PROVE  Accounted(i)'
    <3>1. /\ i \in Ids /\ sender[p] \in Senders /\ ledger[i] # NoRecord
          /\ origin[i] = [sender |-> sender[p], key |-> key[p], minted |-> TRUE]
      BY <2>3 DEF SendInv, CallInv, Owns, OnRecord, Delivering
    <3>2. ~robbed /\ key[p] # NoKey => index[KeyPath(sender[p], key[p])] = i
      BY <2>3 DEF SendInv, CallInv, KeyHeld, KeyWon, Delivering, MyPath
    <3>3. Accounted(i)
      BY <3>1, <3>2 DEF Accounted
    <3>4. QED
      BY <1>1, <3>3, AccountedKept
  <2>4. ASSUME NEW i \in Delivered'
        PROVE  Accounted(i)'
    BY <1>3, <2>2, <2>3, WhatIsDelivered
  <2>5. QED
    BY <1>1, <1>2, <1>3, <2>1, <2>4, WhatIsDelivered DEF SendInv
<1>4. CASE Reader
  <2>1. MailboxTypeOK' /\ inbox' = inbox
    BY <1>4, ReaderKeepsType DEF Reader, SendInv
  <2>2. UNCHANGED <<reached, index, ledger, holders, robbed, pc, sender, key, to, id, answer, origin>>
    BY <1>4 DEF Reader, files, params, keysLock
  <2>3. QED
    BY <1>1, <1>2, <2>1, <2>2
       DEF SendInv, CallInv, Owns, HasKey, HasLock, KeyFree, KeyHeld, OnRecord, HasOutcome, Asks,
           MyPath, Delivered, Accounted
<1>5. CASE UNCHANGED vars
  <2>1. UNCHANGED <<mailbox, reached, index, ledger, holders, robbed, pc, sender, key, to, id, answer,
                   origin>>
    BY <1>5 DEF vars, files, params, keysLock
  <2>2. MailboxTypeOK' /\ Range(inbox)' = Range(inbox)
    BY <2>1, MailboxUntouched DEF SendInv
  <2>3. QED
    BY <1>1, <1>2, <2>1, <2>2
       DEF SendInv, CallInv, Owns, HasKey, HasLock, KeyFree, KeyHeld, OnRecord, HasOutcome, Asks,
           MyPath, Delivered, Accounted
<1>6. QED
  BY <1>3, <1>4, <1>5 DEF Next, OwnStep

LEMMA SendInvHolds == ASSUME KeysRead PROVE Spec => []SendInv
BY SendInvInit, SendInvStep, PTL DEF Spec

-----------------------------------------------------------------------------
\* Every value the variables take is of its type.
THEOREM SendTypeOK == ASSUME KeysRead PROVE Spec => []TypeOK
<1>1. SendInv => TypeOK
  BY DEF SendInv, MailboxTypeOK, TypesRest, TypeOK
<1>2. QED
  BY <1>1, SendInvHolds, PTL

\* A sender's key delivers one message, whatever is retried, raced or killed and
\* whoever steals the locks of the dead, also if two senders' keys share a file; until
\* a thief or a late release takes the lock from a claim that is alive (SendMessage,
\* claimKey).
THEOREM SendOneDeliveryPerKey == ASSUME KeysRead PROVE Spec => []OneDeliveryPerKey
<1>1. SendInv => OneDeliveryPerKey
  BY DEF SendInv, Accounted, OneDeliveryPerKey
<1>2. QED
  BY <1>1, SendInvHolds, PTL

\* No message is delivered that message_status does not know (SendMessage).
THEOREM SendNothingUnrecorded == ASSUME KeysRead PROVE Spec => []NothingUnrecorded
<1>1. SendInv => NothingUnrecorded
  BY DEF SendInv, Accounted, NothingUnrecorded
<1>2. QED
  BY <1>1, SendInvHolds, PTL

\* A key stays with the message that claimed it, over any number of deaths, until a
\* claim that is alive has its lock stolen (claimKey).
THEOREM SendKeysStayClaimed == ASSUME KeysRead PROVE Spec => KeysStayClaimed
<1>1. SendInv /\ [Next]_vars => [KeysKept]_vars
  BY StepKeeps
<1>2. KeysKept <=> (~robbed => \A f \in Paths : index[f] \in Ids => index'[f] = index[f])
  BY DEF KeysKept
<1>3. QED
  BY <1>1, <1>2, SendInvHolds, PTL DEF Spec, KeysStayClaimed
-----------------------------------------------------------------------------
(***************************************************************************)
(* What is told of a message.  The record of a message is written only by  *)
(* the call that minted it, for the one recipient, and says "queued" until *)
(* that call knows better.  A message never stands less far than before,   *)
(* so an answer is as late as the question.                                *)
(***************************************************************************)
Sending == Claiming \cup Delivering

NoDuplicates == \A m, n \in DOMAIN inbox : inbox[m] = inbox[n] => m = n

OneSenderPerMessage ==
  \A p, q \in Procs : pc[p] \in Sending /\ pc[q] \in Sending /\ id[p] = id[q] => p = q

\* What is known of the record of a message.
RecordHolds(i) ==
  ledger[i] # NoRecord =>
    /\ origin[i].minted
    /\ ledger[i].status \in {"queued", "delivered", "failed"}
    /\ ledger[i].status = "delivered" => ledger[i].to = "session"

Fresh(p) == pc[p] \in Claiming \cup {"record"} => ledger[id[p]] = NoRecord

InProgress(p) ==
  pc[p] \in {"deliver", "record.final"} => ledger[id[p]] = [to |-> to[p], status |-> "queued"]

TrueOutcome(p) ==
  pc[p] = "record.final" =>
    /\ answer[p] \in {"queued", "delivered", "failed"}
    /\ answer[p] = "delivered" => to[p] = "session"

Asked(p) ==
  /\ pc[p] \in {"claim.found", "lookup", "find.log", "find.marks"} => since[p] <= Standing(id[p])
  /\ pc[p] \in {"find.log", "find.marks"} => answer[p] = "queued" /\ ledger[id[p]] # NoRecord
  /\ pc[p] = "find.marks" => Stored(id[p])

IsCurrent(p) ==
  pc[p] = "told" =>
    /\ id[p] \in Ids /\ ledger[id[p]] # NoRecord
    /\ ledger[id[p]].to = "mailbox" /\ answer[p] # "failed" =>
         /\ since[p] <= Rank(answer[p])
         /\ Rank(answer[p]) > 1 => Rank(answer[p]) <= Standing(id[p])

CallTrue(p) == Fresh(p) /\ InProgress(p) /\ TrueOutcome(p) /\ Asked(p) /\ IsCurrent(p)

ReportInv ==
  /\ NoDuplicates /\ OneSenderPerMessage
  /\ \A i \in Ids : RecordHolds(i)
  /\ \A p \in Procs : CallTrue(p)

LEMMA ReportInvInit == Init => ReportInv
<1> SUFFICES ASSUME Init PROVE ReportInv
  OBVIOUS
<1>1. NoDuplicates
  BY DEF Init, Box!Init, NoDuplicates
<1>2. \A i \in Ids : RecordHolds(i)
  BY DEF Init, RecordHolds
<1>3. QED
  BY <1>1, <1>2 DEF Init, ReportInv, OneSenderPerMessage, Sending, Claiming, Delivering, CallTrue, Fresh,
                    InProgress, TrueOutcome, Asked, IsCurrent

\* A message stored stands where its position is among the watermarks.
StandingIs ==
  \A n \in DOMAIN inbox :
    Standing(inbox[n]) = IF n <= read THEN 3 ELSE IF n <= delivered THEN 2 ELSE 1

LEMMA StandingAt == NoDuplicates => StandingIs
<1> SUFFICES ASSUME NoDuplicates, NEW n \in DOMAIN inbox
             PROVE  Standing(inbox[n]) = IF n <= read THEN 3 ELSE IF n <= delivered THEN 2 ELSE 1
  BY DEF StandingIs
<1>1. Stored(inbox[n])
  BY DEF Stored, Range
<1>2. (CHOOSE m \in DOMAIN inbox : inbox[m] = inbox[n]) = n
  BY DEF NoDuplicates
<1>3. QED
  BY <1>1, <1>2 DEF Standing

LEMMA StandingAtNext == NoDuplicates' => StandingIs'
BY StandingAt, PTL

\* No step of the mailbox makes a message stand less far.
Rises == \A i : Standing(i) <= Standing(i)' /\ (Stored(i) => Stored(i)')

LEMMA StandingRises ==
  ASSUME MailboxTypeOK, NoDuplicates,
         \/ \E i \in Ids : Box!Deposit(i)
         \/ \E n \in 1..Len(inbox) : Box!HandOut(n) \/ Box!Acknowledge(n)
  PROVE  NoDuplicates' /\ Rises
<1>1. /\ Len(inbox) \in Nat /\ DOMAIN inbox = 1..Len(inbox)
      /\ delivered \in 0..Len(inbox) /\ read \in 0..delivered
  BY LenProperties DEF MailboxTypeOK
<1>2. /\ DOMAIN inbox \subseteq DOMAIN inbox'
      /\ \A n \in DOMAIN inbox : inbox'[n] = inbox[n]
      /\ read <= read' /\ delivered <= delivered' /\ read' \in Nat /\ delivered' \in Nat
      /\ NoDuplicates'
  <2>1. CASE \E i \in Ids : Box!Deposit(i)
    <3>1. PICK i \in Ids : Box!Deposit(i)
      BY <2>1
    <3>2. /\ inbox' = Append(inbox, i) /\ UNCHANGED <<delivered, read>>
          /\ \A n \in DOMAIN inbox : inbox[n] # i
      BY <3>1 DEF Box!Deposit, Box!Range
    <3>3. /\ DOMAIN inbox' = 1..(Len(inbox) + 1) /\ inbox'[Len(inbox) + 1] = i
          /\ \A n \in 1..Len(inbox) : inbox'[n] = inbox[n]
      BY <3>2, AppendProperties, LenProperties DEF MailboxTypeOK
    <3>4. NoDuplicates'
      BY <1>1, <3>2, <3>3 DEF NoDuplicates
    <3>5. QED
      BY <1>1, <3>2, <3>3, <3>4
  <2>2. CASE \E n \in 1..Len(inbox) : Box!HandOut(n) \/ Box!Acknowledge(n)
    <3>1. UNCHANGED inbox /\ NoDuplicates'
      BY <2>2 DEF Box!HandOut, Box!Acknowledge, NoDuplicates
    <3>2. read <= read' /\ delivered <= delivered' /\ read' \in Nat /\ delivered' \in Nat
      BY <1>1, <2>2 DEF Box!HandOut, Box!Acknowledge
    <3>3. QED
      BY <3>1, <3>2
  <2>3. QED
    BY <2>1, <2>2
<1>3. StandingIs /\ StandingIs'
  BY <1>2, StandingAt, StandingAtNext
<1>4. ASSUME NEW i
      PROVE  Standing(i) <= Standing(i)' /\ (Stored(i) => Stored(i)')
  <2>1. CASE ~Stored(i)
    <3>1. Standing(i) = 0 /\ Standing(i)' \in {0, 1, 2, 3}
      BY <2>1 DEF Standing
    <3>2. QED
      BY <2>1, <3>1
  <2>2. CASE Stored(i)
    <3>1. PICK n \in DOMAIN inbox : inbox[n] = i
      BY <2>2 DEF Stored, Range
    <3>2. n \in DOMAIN inbox' /\ inbox'[n] = i /\ n \in Nat
      BY <1>1, <1>2, <3>1
    <3>3. Standing(i) = IF n <= read THEN 3 ELSE IF n <= delivered THEN 2 ELSE 1
      BY <1>3, <3>1 DEF StandingIs
    <3>4. Standing(i)' = IF n <= read' THEN 3 ELSE IF n <= delivered' THEN 2 ELSE 1
      BY <1>3, <3>2 DEF StandingIs
    <3>5. Stored(i)'
      BY <3>2 DEF Stored, Range
    <3>6. QED
      BY <1>1, <1>2, <3>2, <3>3, <3>4, <3>5
  <2>3. QED
    BY <2>1, <2>2
<1>5. QED
  BY <1>2, <1>4 DEF Rises

LEMMA StandingStays ==
  ASSUME NoDuplicates, UNCHANGED mailbox
  PROVE  NoDuplicates' /\ Rises
<1>1. \A i : Standing(i)' = Standing(i) /\ (Stored(i)' <=> Stored(i))
  BY DEF mailbox, Standing, Stored
<1>2. \A i : Standing(i) \in {0, 1, 2, 3}
  BY DEF Standing
<1>3. QED
  BY <1>1, <1>2 DEF Rises, NoDuplicates, mailbox

-----------------------------------------------------------------------------
(* What a step of a call does to the mailbox, to the records, to the calls. *)

LEMMA MailboxRises ==
  ASSUME SendInv, NoDuplicates, NEW p \in Procs, OwnStep(p)
  PROVE  NoDuplicates' /\ Rises
<1>1. ASSUME pc[p] = "deliver", Box!Deposit(id[p])
      PROVE  NoDuplicates' /\ Rises
  <2>1. id[p] \in Ids
    BY <1>1 DEF SendInv, CallInv, Owns, Delivering
  <2>2. QED
    BY <1>1, <2>1, StandingRises DEF SendInv
<1>2. UNCHANGED mailbox \/ (pc[p] = "deliver" /\ Box!Deposit(id[p]))
  BY DEF OwnStep, Send, Query, Claim, ClaimLock, ClaimStale, ClaimSteal, ClaimTaken, ClaimFree,
         ClaimTruncate, ClaimWrite, ClaimTimeout, ClaimFails, ClaimRelease, Deliver, Record, RecordFails, DeliverToMailbox, MailboxFails,
         DeliverToSession, SessionFails, RecordFinal, RecordFinalFails, Report, Lookup, FindLog,
         FindMarks, LookupFails, FindFails, Return, Crash, Forget
<1>3. QED
  BY <1>1, <1>2, StandingStays

LEMMA WhoWritesRecords ==
  ASSUME NEW p \in Procs, OwnStep(p)
  PROVE  UNCHANGED ledger \/ Record(p) \/ RecordFinal(p)
BY DEF OwnStep, Send, Query, Claim, ClaimLock, ClaimStale, ClaimSteal, ClaimTaken, ClaimFree,
       ClaimTruncate, ClaimWrite, ClaimTimeout, ClaimFails, ClaimRelease, Deliver, RecordFails, DeliverToMailbox, MailboxFails,
       DeliverToSession, SessionFails, RecordFinalFails, Outcome, Report, Lookup, FindLog,
       FindMarks, LookupFails, FindFails, Return, Crash, Forget, files

\* A record keeps its recipient.
RecipientsKept == \A i \in Ids : ledger[i] # NoRecord => ledger'[i].to = ledger[i].to

LEMMA RecipientsStay ==
  ASSUME SendInv, ReportInv, NEW p \in Procs, OwnStep(p)
  PROVE  RecipientsKept
<1>1. CASE UNCHANGED ledger
  BY <1>1 DEF RecipientsKept
<1>2. CASE Record(p)
  <2>1. ledger[id[p]] = NoRecord
    BY <1>2 DEF Record, ReportInv, CallTrue, Fresh
  <2>2. QED
    BY <1>2, <2>1 DEF Record, WriteSent, RecipientsKept, SendInv, TypesRest
<1>3. CASE RecordFinal(p)
  <2>1. ledger[id[p]] = [to |-> to[p], status |-> "queued"]
    BY <1>3 DEF RecordFinal, ReportInv, CallTrue, InProgress
  <2>2. QED
    BY <1>3, <2>1 DEF RecordFinal, WriteSent, RecipientsKept, SendInv, TypesRest
<1>4. QED
  BY <1>1, <1>2, <1>3, WhoWritesRecords

LEMMA SendingStays ==
  ASSUME SendInv, NEW p \in Procs, OwnStep(p), pc'[p] \in Sending, ~Send(p)
  PROVE  pc[p] \in Sending /\ UNCHANGED <<id[p], to[p]>>
<1> USE DEF SendInv, TypesRest, Goto, params, Sending, Claiming, Delivering
<1>1. CASE Query(p) \/ Crash(p) \/ Report(p)
  BY <1>1 DEF Query, AskFor, Crash, Forget, Report, Lookup, FindLog, FindMarks, LookupFails,
              FindFails, Return
<1>2. CASE Claim(p)
  BY <1>2 DEF Claim, ClaimLock, ClaimStale, ClaimSteal, ClaimTaken, AskFor, ClaimFree,
              ClaimTruncate, ClaimWrite, ClaimTimeout, ClaimFails, ClaimRelease
<1>3. CASE Deliver(p)
  BY <1>3 DEF Deliver, Record, RecordFails, DeliverToMailbox, MailboxFails, DeliverToSession,
              SessionFails, RecordFinal, RecordFinalFails, Outcome
<1>4. QED
  BY <1>1, <1>2, <1>3 DEF OwnStep

LEMMA OneSenderStays ==
  ASSUME SendInv, OneSenderPerMessage, NEW p \in Procs, OwnStep(p)
  PROVE  OneSenderPerMessage'
<1>1. ASSUME NEW q \in Procs, q # p, pc'[p] \in Sending, pc'[q] \in Sending, id'[p] = id'[q]
      PROVE  FALSE
  <2>1. pc[q] \in Sending /\ id'[q] = id[q]
    BY <1>1, OtherCallsSame DEF SameCall
  <2>2. origin[id[q]].minted /\ id[q] \in Ids
    <3>1. Owns(q)
      BY DEF SendInv, CallInv
    <3>2. QED
      BY <2>1, <3>1 DEF Owns, Sending
  <2>3. CASE Send(p)
    BY <1>1, <2>1, <2>2, <2>3 DEF Send, SendInv, TypesRest
  <2>4. CASE ~Send(p)
    BY <1>1, <2>1, <2>4, SendingStays DEF OneSenderPerMessage
  <2>5. QED
    BY <2>3, <2>4
<1>2. ASSUME NEW q \in Procs, NEW r \in Procs, q # r, q # p, r # p,
             pc'[q] \in Sending, pc'[r] \in Sending, id'[q] = id'[r]
      PROVE  FALSE
  BY <1>2, OtherCallsSame DEF SameCall, OneSenderPerMessage
<1>3. QED
  BY <1>1, <1>2 DEF OneSenderPerMessage

LEMMA SinceSame ==
  ASSUME SendInv, NEW p \in Procs, OwnStep(p), NEW q \in Procs, q # p
  PROVE  since'[q] = since[q]
BY DEF SendInv, TypesRest, OwnStep, Send, Query, AskFor, Claim, ClaimLock, ClaimStale,
       ClaimSteal, ClaimTaken, ClaimFree, ClaimTruncate, ClaimWrite, ClaimTimeout, ClaimFails,
       ClaimRelease, Deliver, Record, RecordFails,
       DeliverToMailbox, MailboxFails, DeliverToSession, SessionFails, RecordFinal,
       RecordFinalFails, Outcome, Report, Lookup, FindLog, FindMarks, LookupFails, FindFails,
       Return, Crash, Forget

\* What a call that takes no step knows stays true.
LEMMA CallTrueKept ==
  ASSUME SendInv, ReportInv, NEW q \in Procs, SameCall(q), since'[q] = since[q], SendInv',
         Rises, RecordsKept, RecipientsKept,
         pc[q] \in Sending => ledger'[id[q]] = ledger[id[q]]
  PROVE  CallTrue(q)'
<1> USE DEF SameCall
<1>1. CallTrue(q)
  BY DEF ReportInv
<1>2. Fresh(q)' /\ InProgress(q)'
  BY <1>1 DEF CallTrue, Fresh, InProgress, Sending, Claiming, Delivering
<1>3. TrueOutcome(q)'
  BY <1>1 DEF CallTrue, TrueOutcome
<1>4. Standing(id[q]) <= Standing(id[q])' /\ Standing(id[q])' \in 0..3 /\ Standing(id[q]) \in 0..3
      /\ since[q] \in 0..3
  <2>1. Standing(id[q]) \in 0..3 /\ Standing(id[q])' \in 0..3
    BY StandingType DEF Standing
  <2>2. QED
    BY <2>1 DEF Rises, SendInv, TypesRest
<1>5. Asked(q)'
  <2>1. pc[q] \in {"find.log", "find.marks"} => id[q] \in Ids
    BY DEF SendInv, CallInv, Asks
  <2>2. QED
    BY <1>1, <1>4, <2>1 DEF CallTrue, Asked, RecordsKept, Rises
<1>6. IsCurrent(q)'
  <2> SUFFICES ASSUME pc[q] = "told" PROVE IsCurrent(q)'
    BY DEF IsCurrent
  <2>1. /\ id[q] \in Ids /\ ledger[id[q]] # NoRecord /\ ledger'[id[q]] # NoRecord
        /\ ledger'[id[q]].to = ledger[id[q]].to
    BY <1>1 DEF CallTrue, IsCurrent, RecordsKept, RecipientsKept
  <2>2. Rank(answer[q]) \in 1..3
    BY DEF Rank
  <2>3. QED
    BY <1>1, <1>4, <2>1, <2>2 DEF CallTrue, IsCurrent
<1>7. QED
  BY <1>2, <1>3, <1>5, <1>6 DEF CallTrue

-----------------------------------------------------------------------------
(* What a step does for what the call that takes it knows. *)

LEMMA CallTrueAdvances ==
  ASSUME SendInv, ReportInv, NEW p \in Procs, OwnStep(p), SendInv', Rises,
         RecordsKept, RecipientsKept
  PROVE  CallTrue(p)'
<1> USE DEF Goto, params, files, CallTrue
<1>1. CallTrue(p) /\ CallInv(p)
  BY DEF ReportInv, SendInv
<1>2. TypesRest /\ pc'[p] \in PCs
  BY DEF SendInv, TypesRest
<1>3. \A i : Standing(i) \in {0, 1, 2, 3} /\ Standing(i)' \in {0, 1, 2, 3} /\ Standing(i) <= Standing(i)'
  BY DEF Standing, Rises
<1>4. ASSUME pc'[p] \in {"idle", "claim.truncate", "claim.write", "claim.lost", "gone", "error"},
             pc'[p] \in Claiming => ledger'[id'[p]] = NoRecord
      PROVE  CallTrue(p)'
  BY <1>4 DEF Fresh, InProgress, TrueOutcome, Asked, IsCurrent, Claiming
<1>5. ASSUME pc'[p] \in {"claim", "claim.steal", "claim.read", "claim.won", "record"}, ledger'[id'[p]] = NoRecord
      PROVE  CallTrue(p)'
  BY <1>5 DEF Fresh, InProgress, TrueOutcome, Asked, IsCurrent
<1>6. ASSUME NEW i, AskFor(p, i), UNCHANGED mailbox, pc'[p] \in {"claim.found", "lookup"}
      PROVE  CallTrue(p)'
  <2>1. id'[p] = i /\ since'[p] = Standing(i)
    BY <1>2, <1>6 DEF AskFor, TypesRest
  <2>2. QED
    BY <1>3, <1>6, <2>1
       DEF Fresh, InProgress, TrueOutcome, Asked, IsCurrent, Claiming
<1>7. CASE Send(p)
  <2>1. PICK i \in Ids : ~origin[i].minted /\ id' = [id EXCEPT ![p] = i]
    BY <1>7 DEF Send
  <2>2. ledger'[i] = NoRecord
    BY <1>7, <2>1 DEF Send, ReportInv, RecordHolds
  <2>3. id'[p] = i /\ pc'[p] \in {"claim", "record"}
    BY <1>2, <1>7, <2>1 DEF Send, TypesRest
  <2>4. QED
    BY <1>5, <2>2, <2>3
<1>8. CASE Query(p)
  BY <1>2, <1>6, <1>8 DEF Query, TypesRest
<1>9. CASE Claim(p)
  <2>1. CASE ClaimTaken(p)
    BY <1>2, <1>6, <2>1 DEF ClaimTaken, TypesRest
  <2>2. CASE ClaimRelease(p) /\ pc[p] \in {"claim.found", "claim.lost"}
    <3>1. UNCHANGED <<mailbox, id, since>>
      BY <2>2 DEF ClaimRelease
    <3>2. pc[p] = "claim.lost" => pc'[p] = "error"
      BY <1>2, <2>2 DEF ClaimRelease, TypesRest
    <3>3. pc[p] = "claim.found" => pc'[p] = "lookup" /\ (since[p] <= Standing(id[p]))'
      BY <1>1, <1>2, <2>2, <3>1 DEF ClaimRelease, TypesRest, Asked, Standing, Stored, mailbox
    <3>4. CASE pc[p] = "claim.lost"
      BY <1>4, <3>2, <3>4 DEF Claiming
    <3>5. CASE pc[p] = "claim.found"
      BY <3>3, <3>5 DEF Fresh, InProgress, TrueOutcome, Asked, IsCurrent, Claiming
    <3>6. QED
      BY <2>2, <3>4, <3>5
  <2>3. CASE ~ClaimTaken(p) /\ ~(ClaimRelease(p) /\ pc[p] \in {"claim.found", "claim.lost"})
    <3>1. /\ UNCHANGED <<ledger, id>> /\ pc[p] \in Claiming
          /\ pc'[p] \in {"claim", "claim.steal", "claim.read", "claim.truncate", "claim.write",
                          "claim.won", "claim.lost", "record", "error"}
      BY <1>2, <1>9, <2>3
         DEF Claim, ClaimLock, ClaimStale, ClaimSteal, ClaimFree, ClaimTruncate, ClaimWrite,
             ClaimTimeout, ClaimFails, ClaimRelease, Claiming, TypesRest
    <3>2. ledger'[id'[p]] = NoRecord
      BY <1>1, <3>1 DEF Fresh
    <3>3. QED
      BY <1>4, <1>5, <3>1, <3>2
  <2>4. QED
    BY <2>1, <2>2, <2>3
<1>10. CASE Deliver(p)
  <2>1. CASE RecordFails(p) \/ RecordFinalFails(p)
    <3>1. pc'[p] = "error"
      BY <1>2, <2>1 DEF RecordFails, RecordFinalFails, TypesRest
    <3>2. QED
      BY <1>4, <3>1 DEF Claiming
  <2>2. CASE Record(p)
    <3>1. id[p] \in Ids
      BY <1>1, <2>2 DEF Record, CallInv, Owns, Delivering
    <3>2. pc'[p] = "deliver" /\ ledger'[id'[p]] = [to |-> to'[p], status |-> "queued"]
      BY <1>2, <2>2, <3>1 DEF Record, WriteSent, TypesRest
    <3>3. QED
      BY <3>2 DEF Fresh, InProgress, TrueOutcome, Asked, IsCurrent, Claiming
  <2>3. ASSUME pc[p] = "deliver", NEW st \in {"queued", "delivered", "failed"}, Outcome(p, st),
               st = "delivered" => to[p] = "session"
        PROVE  CallTrue(p)'
    <3>1. /\ pc'[p] = "record.final" /\ answer'[p] = st
          /\ ledger'[id'[p]] = [to |-> to'[p], status |-> "queued"]
          /\ id'[p] = id[p] /\ to'[p] = to[p]
      BY <1>1, <1>2, <2>3 DEF Outcome, InProgress, TypesRest
    <3>2. QED
      BY <2>3, <3>1
         DEF Fresh, InProgress, TrueOutcome, Asked, IsCurrent, Claiming
  <2>4. CASE DeliverToMailbox(p) \/ MailboxFails(p) \/ DeliverToSession(p) \/ SessionFails(p)
    BY <2>3, <2>4 DEF DeliverToMailbox, MailboxFails, DeliverToSession, SessionFails
  <2>7. CASE RecordFinal(p)
    <3>1. /\ pc'[p] = IF answer[p] = "failed" THEN "error" ELSE "sent"
          /\ id'[p] = id[p] /\ pc[p] = "record.final"
      BY <1>2, <2>7 DEF RecordFinal, TypesRest
    <3>2. QED
      BY <3>1 DEF Fresh, InProgress, TrueOutcome, Asked, IsCurrent, Claiming
  <2>8. QED
    BY <1>10, <2>1, <2>2, <2>4, <2>7 DEF Deliver
<1>11. ASSUME Forget(p)
       PROVE  CallTrue(p)'
  <2>1. pc'[p] = "idle"
    BY <1>2, <1>11 DEF Forget, TypesRest
  <2>2. QED
    BY <1>4, <2>1 DEF Claiming
<1>12. CASE Crash(p)
  BY <1>11, <1>12 DEF Crash
<1>13. CASE Report(p)
  <2>1. CASE Return(p)
    BY <1>11, <2>1 DEF Return
  <2>2. CASE LookupFails(p)
    <3>1. pc'[p] = "error"
      BY <1>2, <2>2 DEF LookupFails, TypesRest
    <3>2. QED
      BY <1>4, <3>1 DEF Claiming
  <2>3. CASE Lookup(p)
    <3>1. id[p] \in Ids /\ since[p] <= Standing(id[p]) /\ since[p] \in 0..3
      BY <1>1, <1>2, <2>3 DEF Lookup, CallInv, Asks, Asked, TypesRest
    <3> DEFINE rec == ledger[id[p]]
    <3>2. /\ UNCHANGED <<mailbox, ledger, id, since, reached>> /\ answer'[p] = rec.status
          /\ pc'[p] = IF rec = NoRecord THEN "gone"
                      ELSE IF rec.to = "mailbox" /\ rec.status # "failed" THEN "find.log"
                      ELSE "told"
      BY <1>2, <2>3 DEF Lookup, TypesRest
    <3>3. rec # NoRecord =>
            /\ rec.status \in {"queued", "delivered", "failed"}
            /\ rec.status = "delivered" => rec.to = "session"
      BY <3>1 DEF ReportInv, RecordHolds
    <3>4. (since[p] <= Standing(id[p]))'
      BY <1>3, <3>1, <3>2
    <3>5. CASE pc'[p] = "gone"
      BY <1>4, <3>5 DEF Claiming
    <3>6. CASE pc'[p] = "find.log"
      BY <3>2, <3>3, <3>4, <3>6
         DEF Fresh, InProgress, TrueOutcome, Asked, IsCurrent, Claiming
    <3>7. CASE pc'[p] = "told"
      BY <3>1, <3>2, <3>3, <3>7
         DEF Fresh, InProgress, TrueOutcome, Asked, IsCurrent, Claiming
    <3>8. QED
      BY <3>2, <3>5, <3>6, <3>7
  <2>4. CASE FindLog(p)
    <3>1. /\ id[p] \in Ids /\ since[p] <= Standing(id[p]) /\ since[p] \in 0..3
          /\ answer[p] = "queued" /\ ledger[id[p]] # NoRecord
      BY <1>1, <1>2, <2>4 DEF FindLog, CallInv, Asks, Asked, TypesRest
    <3>2. /\ UNCHANGED <<mailbox, ledger, id, since, answer>>
          /\ pc'[p] = IF Stored(id[p]) THEN "find.marks" ELSE "told"
      BY <1>2, <2>4 DEF FindLog, TypesRest
    <3>3. (since[p] <= Standing(id[p]))'
      BY <1>3, <3>1, <3>2
    <3>4. CASE Stored(id[p])
      BY <3>1, <3>2, <3>3, <3>4
         DEF Fresh, InProgress, TrueOutcome, Asked, IsCurrent, Claiming, Rises
    <3>5. CASE ~Stored(id[p])
      <4>1. since[p] = 0 /\ Rank("queued") = 1
        BY <3>1, <3>5 DEF Standing, Rank
      <4>2. QED
        BY <3>1, <3>2, <3>5, <4>1
           DEF Fresh, InProgress, TrueOutcome, Asked, IsCurrent, Claiming
    <3>6. QED
      BY <3>4, <3>5
  <2>5. CASE FindMarks(p)
    <3>1. /\ id[p] \in Ids /\ since[p] <= Standing(id[p]) /\ since[p] \in 0..3
          /\ ledger[id[p]] # NoRecord /\ Stored(id[p])
      BY <1>1, <1>2, <2>5 DEF FindMarks, CallInv, Asks, Asked, TypesRest
    <3>2. /\ UNCHANGED <<mailbox, ledger, id, since>>
          /\ pc'[p] = "told" /\ answer'[p] = StatusOf(id[p])
      BY <1>2, <2>5 DEF FindMarks, TypesRest
    <3>3. Standing(id[p]) \in 1..3
      BY <3>1 DEF Standing
    <3>4. Rank(StatusOf(id[p])) = Standing(id[p])
      BY <3>3 DEF Rank, StatusOf
    <3>6. Standing(id[p]) <= (Standing(id[p]))'
      BY <1>3, <3>2
    <3>7. QED
      BY <3>1, <3>2, <3>3, <3>4, <3>6
         DEF Fresh, InProgress, TrueOutcome, Asked, IsCurrent, Claiming
  <2>6. CASE FindFails(p)
    <3>1. pc'[p] = "told.recorded" /\ answer'[p] = "queued"
      BY <1>1, <1>2, <2>6 DEF FindFails, Asked, TypesRest
    <3>2. QED
      BY <3>1 DEF Fresh, InProgress, TrueOutcome, Asked, IsCurrent, Claiming
  <2>7. QED
    BY <1>13, <2>1, <2>2, <2>3, <2>4, <2>5, <2>6 DEF Report
<1>14. QED
  BY <1>7, <1>8, <1>9, <1>10, <1>12, <1>13 DEF OwnStep

LEMMA ReportInvStep ==
  ASSUME KeysRead PROVE SendInv /\ ReportInv /\ [Next]_vars => ReportInv'
<1> SUFFICES ASSUME SendInv, ReportInv, [Next]_vars
             PROVE  ReportInv'
  OBVIOUS
<1>1. SendInv' /\ OriginsKept /\ RecordsKept
  BY SendInvStep, StepKeeps
<1>2. ASSUME NEW p \in Procs, OwnStep(p)
      PROVE  ReportInv'
  <2>1. NoDuplicates' /\ Rises /\ OneSenderPerMessage' /\ RecipientsKept
    BY <1>2, MailboxRises, OneSenderStays, RecipientsStay DEF ReportInv
  <2>3. ASSUME NEW q \in Procs
        PROVE  CallTrue(q)'
    <3>1. CASE q = p
      BY <1>1, <1>2, <2>1, <3>1, CallTrueAdvances
    <3>2. CASE q # p
      <4>1. SameCall(q) /\ since'[q] = since[q]
        BY <1>2, <3>2, OtherCallsSame, SinceSame
      <4>2. pc[q] \in Sending => ledger'[id[q]] = ledger[id[q]]
        <5>1. pc[p] \in Sending /\ pc[q] \in Sending => id[p] # id[q]
          BY <3>2 DEF ReportInv, OneSenderPerMessage
        <5>2. CASE UNCHANGED ledger
          BY <5>2
        <5>3. CASE Record(p) \/ RecordFinal(p)
          BY <5>1, <5>3 DEF Record, RecordFinal, WriteSent, Sending, Delivering, SendInv,
                            CallInv, Owns, TypesRest
        <5>4. QED
          BY <1>2, <5>2, <5>3, WhoWritesRecords
      <4>3. QED
        BY <1>1, <2>1, <4>1, <4>2, CallTrueKept
    <3>3. QED
      BY <3>1, <3>2
  <2>4. ASSUME NEW i \in Ids
        PROVE  RecordHolds(i)'
    <3>1. RecordHolds(i)
      BY DEF ReportInv
    <3>2. CASE ledger'[i] = ledger[i]
      BY <1>1, <3>1, <3>2 DEF RecordHolds, OriginsKept
    <3>3. CASE (Record(p) \/ RecordFinal(p)) /\ i = id[p]
      <4>1. origin[i].minted
        <5>1. Owns(p) /\ pc[p] \in Delivering
          BY <3>3 DEF SendInv, CallInv, Record, RecordFinal, Delivering
        <5>2. QED
          BY <3>3, <5>1 DEF Owns
      <4>2. CASE Record(p)
        BY <1>1, <3>3, <4>1, <4>2 DEF Record, WriteSent, RecordHolds, OriginsKept, SendInv, TypesRest
      <4>3. CASE RecordFinal(p)
        <5>1. TrueOutcome(p) /\ pc[p] = "record.final"
          BY <4>3 DEF RecordFinal, ReportInv, CallTrue
        <5>2. ledger'[i] = [to |-> to[p], status |-> answer[p]] /\ origin'[i].minted
          BY <1>1, <3>3, <4>1, <4>3 DEF RecordFinal, WriteSent, OriginsKept, SendInv, TypesRest
        <5>3. QED
          BY <3>3, <5>1, <5>2 DEF RecordHolds, TrueOutcome
      <4>4. QED
        BY <3>3, <4>2, <4>3
    <3>4. QED
      BY <1>2, <3>2, <3>3, WhoWritesRecords DEF Record, RecordFinal, WriteSent, SendInv, TypesRest
  <2>5. QED
    BY <2>1, <2>3, <2>4 DEF ReportInv
<1>3. ASSUME NoDuplicates', Rises, inbox' = inbox,
             UNCHANGED <<reached, ledger, pc, to, id, answer, origin, since>>
      PROVE  ReportInv'
  <2>1. Delivered' = Delivered /\ RecordsKept /\ RecipientsKept
    BY <1>3 DEF Delivered, RecordsKept, RecipientsKept
  <2>2. ASSUME NEW i \in Ids
        PROVE  RecordHolds(i)'
    BY <1>3, <2>1 DEF ReportInv, RecordHolds
  <2>3. ASSUME NEW q \in Procs
        PROVE  CallTrue(q)'
    <3>1. CallTrue(q)
      BY DEF ReportInv
    <3>2. (Standing(id[q]))' >= Standing(id[q]) /\ since'[q] = since[q] /\ since[q] \in 0..3
          /\ Standing(id[q]) \in 0..3 /\ (Standing(id[q]))' \in 0..3 /\ Stored(id[q])' = Stored(id[q])
      BY <1>3 DEF Rises, Standing, Stored, SendInv, TypesRest
    <3>3. Rank(answer[q]) \in 1..3
      BY DEF Rank
    <3>4. Fresh(q)' /\ InProgress(q)' /\ TrueOutcome(q)'
      BY <1>3, <2>1, <3>1 DEF CallTrue, Fresh, InProgress, TrueOutcome
    <3>5. Asked(q)'
      BY <1>3, <3>1, <3>2 DEF CallTrue, Asked
    <3>6. IsCurrent(q)'
      BY <1>3, <3>1, <3>2, <3>3 DEF CallTrue, IsCurrent
    <3>7. QED
      BY <3>4, <3>5, <3>6 DEF CallTrue
  <2>4. QED
    BY <1>3, <2>2, <2>3 DEF ReportInv, OneSenderPerMessage
<1>4. CASE Reader
  <2>1. inbox' = inbox
    BY <1>4, ReaderKeepsType DEF Reader, SendInv
  <2>2. NoDuplicates' /\ Rises
    BY <1>4, StandingRises DEF Reader, SendInv, ReportInv
  <2>3. QED
    BY <1>3, <1>4, <2>1, <2>2 DEF Reader, files, params
<1>5. CASE UNCHANGED vars
  <2>1. NoDuplicates' /\ Rises
    BY <1>5, StandingStays DEF vars, ReportInv
  <2>2. QED
    BY <1>3, <1>5, <2>1 DEF vars, mailbox, files, params
<1>6. QED
  BY <1>2, <1>4, <1>5 DEF Next, OwnStep

LEMMA ReportInvHolds == ASSUME KeysRead PROVE Spec => []ReportInv
BY SendInvInit, SendInvStep, ReportInvInit, ReportInvStep, PTL DEF Spec

\* A status of a mailbox message is one it had between the question and the answer,
\* although log and watermarks are read one after the other without the lock
\* (MessageStatus, Find).
THEOREM SendStatusIsCurrent == ASSUME KeysRead PROVE Spec => []StatusIsCurrent
<1>1. ReportInv => StatusIsCurrent
  BY DEF ReportInv, CallTrue, IsCurrent, StatusIsCurrent
<1>2. QED
  BY <1>1, ReportInvHolds, PTL

-----------------------------------------------------------------------------
\* A step of the mailbox alone, and one that writes a record.
LEMMA ToldRises ==
  ASSUME SendInv, ReportInv, Rises, NEW i \in Ids, ledger'[i] = ledger[i]
  PROVE  Told(i) <= Told(i)'
<1>1. /\ Standing(i) <= Standing(i)' /\ (Stored(i) => Stored(i)')
      /\ Standing(i) \in {0, 1, 2, 3} /\ Standing(i)' \in {0, 1, 2, 3}
      /\ Stored(i)' => Standing(i)' >= 1
  BY DEF Rises, Standing
<1>2. RecordHolds(i)
  BY DEF ReportInv
<1>3. CASE ledger[i] = NoRecord
  BY <1>3 DEF Told, NoRecord
<1>4. CASE ledger[i] # NoRecord
  BY <1>1, <1>2, <1>4 DEF Told, RecordHolds
<1>5. QED
  BY <1>3, <1>4

LEMMA ToldRisesWithRecord ==
  ASSUME SendInv, ReportInv, NEW p \in Procs, Record(p) \/ RecordFinal(p), NEW i, i = id[p]
  PROVE  /\ Told(i) <= Told(i)'
         /\ ledger[i].to = "session" /\ ledger[i].status # "queued" => ledger'[i] = ledger[i]
<1>1. /\ CallTrue(p) /\ Owns(p) /\ to[p] \in Recipients /\ ledger \in [Ids -> SentRecord \cup {NoRecord}]
      /\ i \in Ids
  BY DEF SendInv, ReportInv, CallInv, TypesRest, Owns, Record, RecordFinal, Delivering
<1>2. /\ Standing(i)' = Standing(i) /\ Stored(i)' = Stored(i) /\ Standing(i) \in {0, 1, 2, 3}
      /\ Stored(i) => Standing(i) >= 1
  <2>1. UNCHANGED <<inbox, delivered, read>>
    BY DEF Record, RecordFinal, mailbox
  <2>2. QED
    BY <2>1 DEF Standing, Stored
<1>3. CASE Record(p)
  <2>1. ledger[i] = NoRecord /\ ledger'[i] = [to |-> to[p], status |-> "queued"]
    BY <1>1, <1>3 DEF Record, WriteSent, CallTrue, Fresh
  <2>2. Told(i) = 0 /\ Told(i)' \in {0, 1, 2, 3, 4}
    BY <1>2, <2>1 DEF Told, NoRecord
  <2>3. QED
    BY <2>1, <2>2 DEF NoRecord
<1>4. CASE RecordFinal(p)
  <2>1. /\ ledger[i] = [to |-> to[p], status |-> "queued"]
        /\ ledger'[i] = [to |-> to[p], status |-> answer[p]]
        /\ answer[p] \in {"queued", "delivered", "failed"}
        /\ answer[p] = "delivered" => to[p] = "session"
    BY <1>1, <1>4 DEF RecordFinal, WriteSent, CallTrue, InProgress, TrueOutcome
  <2>2. Told(i) <= Told(i)'
    BY <1>1, <1>2, <2>1 DEF Told, Recipients
  <2>3. QED
    BY <2>1, <2>2
<1>5. QED
  BY <1>3, <1>4

\* What is said of a message never falls back, and of a session it never changes once
\* it is more than "queued" (MessageStatus), whoever retries, dies, steals the lock or
\* fails to record.
THEOREM SendStatusNeverFallsBack == ASSUME KeysRead PROVE Spec => StatusNeverFallsBack
<1>1. ASSUME SendInv, ReportInv, [Next]_vars, NEW i \in Ids
      PROVE  /\ Told(i) <= Told(i)'
             /\ ledger[i].to = "session" /\ ledger[i].status # "queued" => ledger'[i] = ledger[i]
  <2>1. ASSUME NEW p \in Procs, OwnStep(p)
        PROVE  /\ Told(i) <= Told(i)'
               /\ ledger[i].to = "session" /\ ledger[i].status # "queued" => ledger'[i] = ledger[i]
    <3>1. Rises
      BY <1>1, <2>1, MailboxRises DEF ReportInv
    <3>2. ledger'[i] = ledger[i] \/ ((Record(p) \/ RecordFinal(p)) /\ i = id[p])
      BY <1>1, <2>1, WhoWritesRecords DEF Record, RecordFinal, WriteSent, SendInv, TypesRest
    <3>3. CASE ledger'[i] = ledger[i]
      BY <1>1, <3>1, <3>3, ToldRises
    <3>4. CASE (Record(p) \/ RecordFinal(p)) /\ i = id[p]
      BY <1>1, <3>4, ToldRisesWithRecord
    <3>5. QED
      BY <3>2, <3>3, <3>4
  <2>2. CASE Reader
    <3>1. Rises /\ ledger' = ledger
      BY <1>1, <2>2, StandingRises DEF Reader, files, SendInv, ReportInv
    <3>2. QED
      BY <1>1, <3>1, ToldRises
  <2>3. CASE UNCHANGED vars
    <3>1. Rises /\ ledger' = ledger
      BY <1>1, <2>3, StandingStays DEF vars, files, ReportInv
    <3>2. QED
      BY <1>1, <3>1, ToldRises
  <2>4. QED
    BY <1>1, <2>1, <2>2, <2>3 DEF Next, OwnStep
<1>2. SendInv /\ ReportInv /\ [Next]_vars =>
        [\A i \in Ids :
           /\ Told(i) <= Told(i)'
           /\ ledger[i].to = "session" /\ ledger[i].status # "queued" => ledger'[i] = ledger[i]]_vars
  BY <1>1
<1>3. QED
  BY <1>2, SendInvHolds, ReportInvHolds, PTL DEF Spec, StatusNeverFallsBack
=============================================================================
