----------------------------- MODULE SendMessage ----------------------------
(***************************************************************************)
(* send_message and message_status (message.go) over the sent ledger       *)
(* (ledger.go): claim the sender's idempotency key, record the message,    *)
(* deliver it, record what came of it.  Any number of server processes do  *)
(* this at once, a client that got no answer does it again with the same   *)
(* key, and a process may die between any two of the steps.                *)
(*                                                                         *)
(* Below it are the promises of other modules: Inbox for the recipient's   *)
(* mailbox (Append deposits, Find reads log and watermarks one after the   *)
(* other without the lock) and StealableLock for the lock on sent/keys,    *)
(* whose directory outlives a process that dies and may be stolen.  A      *)
(* session recipient is whatever SubmitPrompt reports of it, which may be  *)
(* a success also when a dialog swallowed the text (Submit).               *)
(***************************************************************************)
EXTENDS Naturals, Sequences, Functions

CONSTANTS
  Procs,        \* calls in progress
  Ids,          \* the message ids minted, each once
  Senders,      \* Self.Address() of the senders, as sequences of tokens
  Keys,         \* the idempotency keys senders use, likewise
  Nobody,       \* neither an id nor a process: a key file or a lock that is not there
  Blank,        \* not an id: a key file that is there and empty
  MaxCrashes,   \* bound: how many processes die
  IOFaults,     \* TRUE: writes and reads of files may fail
  KeyUnread     \* TRUE: reading a key file may fail, and its error is ignored

ASSUME NotIds == Nobody \notin Ids /\ Blank \notin Ids
ASSUME NotProc == Nobody \notin Procs
ASSUME KeysAssumption == <<>> \notin Keys
ASSUME CrashesAssumption == MaxCrashes \in Nat
ASSUME FaultsAssumption == IOFaults \in BOOLEAN /\ KeyUnread \in BOOLEAN

VARIABLES
  inbox, delivered, read,    \* the recipient's mailbox (Inbox)
  reached,    \* the messages the recipient session got
  index,      \* sent/keys/<sender>__<key>: the id in it
  ledger,     \* sent/<id>.json
  maker, holders, thieves,   \* the lock on sent/keys (StealableLock)
  robbed,     \* history: that lock was removed while its maker had it
  pc, sender, key, to, id, answer,    \* a call of SendMessage or MessageStatus
  origin,     \* history: sender and key of the call that minted an id
  since,      \* history: how far the message was when its status was asked for
  crashes

mailbox == <<inbox, delivered, read>>
files == <<index, ledger>>
keysLock == <<maker, holders, thieves, robbed>>
params == <<sender, key, to>>
vars == <<mailbox, reached, files, keysLock, pc, params, id, answer, origin, since, crashes>>

Box == INSTANCE Inbox

LedgerLock == INSTANCE StealableLock WITH None <- Nobody

NoKey == <<>>

Recipients == {"mailbox", "session"}

Unminted == [sender |-> <<>>, key |-> <<>>, minted |-> FALSE]

NoRecord == [to |-> "nobody", status |-> "none"]

\* keyPath: the sender, "anonymous" if it has no address, two underscores, the key.
Anonymous == <<"anonymous">>

KeyPath(s, k) == (IF s = <<>> THEN Anonymous ELSE s) \o <<"__">> \o k

Paths == {KeyPath(s, k) : s \in Senders, k \in Keys}

PCs == {"idle", "claim", "claim.steal", "claim.read", "claim.truncate", "claim.write",
        "claim.won", "claim.found", "claim.lost", "record", "deliver", "record.final", "lookup",
        "find.log", "find.marks", "sent", "told", "told.recorded", "gone", "error"}

Init ==
  /\ Box!Init
  /\ reached = {}
  /\ index = [f \in Paths |-> Nobody]
  /\ ledger = [i \in Ids |-> NoRecord]
  /\ LedgerLock!Init
  /\ robbed = FALSE
  /\ pc = [p \in Procs |-> "idle"]
  /\ sender = [p \in Procs |-> <<>>]
  /\ key = [p \in Procs |-> NoKey]
  /\ to = [p \in Procs |-> "mailbox"]
  /\ id = [p \in Procs |-> Nobody]
  /\ answer = [p \in Procs |-> "none"]
  /\ origin = [i \in Ids |-> Unminted]
  /\ since = [p \in Procs |-> 0]
  /\ crashes = 0

Goto(p, l) == pc' = [pc EXCEPT ![p] = l]

Stored(i) == i \in Range(inbox)

\* 0 not stored, 1 queued, 2 delivered, 3 read: where the message is now.
Standing(i) ==
  IF ~Stored(i) THEN 0
  ELSE LET seq == CHOOSE n \in DOMAIN inbox : inbox[n] = i
       IN  IF seq <= read THEN 3 ELSE IF seq <= delivered THEN 2 ELSE 1

-----------------------------------------------------------------------------
(* SendMessage: a fresh id, and the key claimed for it. *)

Send(p) ==
  /\ pc[p] = "idle"
  /\ \E s \in Senders, k \in Keys \cup {NoKey}, t \in Recipients, i \in Ids :
       /\ ~origin[i].minted
       /\ origin' = [origin EXCEPT ![i] = [sender |-> s, key |-> k, minted |-> TRUE]]
       /\ sender' = [sender EXCEPT ![p] = s]
       /\ key' = [key EXCEPT ![p] = k]
       /\ to' = [to EXCEPT ![p] = t]
       /\ id' = [id EXCEPT ![p] = i]
       /\ Goto(p, IF k = NoKey THEN "record" ELSE "claim")
  /\ UNCHANGED <<mailbox, reached, files, keysLock, answer, since, crashes>>

\* acquireLock: the directory is made, or found and judged by its age, and removed
\* if it is stale, whichever directory is there by then.
ClaimLock(p) ==
  /\ pc[p] = "claim"
  /\ LedgerLock!Grant(p)
  /\ Goto(p, "claim.read")
  /\ UNCHANGED <<mailbox, reached, files, robbed, params, id, answer, origin, since, crashes>>

ClaimStale(p) ==
  /\ pc[p] = "claim"
  /\ LedgerLock!Judge(p)
  /\ Goto(p, "claim.steal")
  /\ UNCHANGED <<mailbox, reached, files, robbed, params, id, answer, origin, since, crashes>>

ClaimSteal(p) ==
  /\ pc[p] = "claim.steal"
  /\ LedgerLock!Steal(p)
  /\ robbed' = (robbed \/ LedgerLock!Robs)
  /\ Goto(p, "claim")
  /\ UNCHANGED <<mailbox, reached, files, params, id, answer, origin, since, crashes>>

MyPath(p) == KeyPath(sender[p], key[p])

AskFor(p, i) ==
  /\ id' = [id EXCEPT ![p] = i]
  /\ since' = [since EXCEPT ![p] = Standing(i)]

\* Mutant of ClaimTaken: the retry sends the earlier message once more.
ClaimTakenResends(p) ==
  /\ pc[p] = "claim.read"
  /\ index[MyPath(p)] \in Ids
  /\ AskFor(p, index[MyPath(p)])
  /\ Goto(p, "claim.won")
  /\ UNCHANGED <<mailbox, reached, files, keysLock, params, answer, origin, crashes>>

\* The key is taken: nothing is sent, the earlier message is looked up.
ClaimTaken(p) ==
  /\ pc[p] = "claim.read"
  /\ index[MyPath(p)] \in Ids
  /\ AskFor(p, index[MyPath(p)])
  /\ Goto(p, "claim.found")
  /\ UNCHANGED <<mailbox, reached, files, keysLock, params, answer, origin, crashes>>

\* Mutant of ClaimFree: the key file is not looked at.
ClaimAnyway(p) ==
  /\ pc[p] = "claim.read"
  /\ Goto(p, "claim.truncate")
  /\ UNCHANGED <<mailbox, reached, files, keysLock, params, id, answer, origin, since, crashes>>

\* No file, one a process that died left empty, or one that cannot be read.
ClaimFree(p) ==
  /\ pc[p] = "claim.read"
  /\ index[MyPath(p)] \notin Ids \/ KeyUnread
  /\ Goto(p, "claim.truncate")
  /\ UNCHANGED <<mailbox, reached, files, keysLock, params, id, answer, origin, since, crashes>>

\* os.WriteFile creates or truncates the file, then writes it.
ClaimTruncate(p) ==
  /\ pc[p] = "claim.truncate"
  /\ index' = [index EXCEPT ![MyPath(p)] = Blank]
  /\ Goto(p, "claim.write")
  /\ UNCHANGED <<mailbox, reached, ledger, keysLock, params, id, answer, origin, since, crashes>>

ClaimWrite(p) ==
  /\ pc[p] = "claim.write"
  /\ index' = [index EXCEPT ![MyPath(p)] = id[p]]
  /\ Goto(p, "claim.won")
  /\ UNCHANGED <<mailbox, reached, ledger, keysLock, params, id, answer, origin, since, crashes>>

\* The lock was not to be had in time.
ClaimTimeout(p) ==
  /\ pc[p] = "claim"
  /\ Goto(p, "error")
  /\ UNCHANGED <<mailbox, reached, files, keysLock, params, id, answer, origin, since, crashes>>

ClaimFails(p) ==
  /\ IOFaults
  /\ pc[p] \in {"claim.truncate", "claim.write"}
  /\ Goto(p, "claim.lost")
  /\ UNCHANGED <<mailbox, reached, files, keysLock, params, id, answer, origin, since, crashes>>

\* defer release: the directory is removed, whoever made it.
ClaimRelease(p) ==
  /\ LedgerLock!Release(p)
  /\ robbed' = (robbed \/ LedgerLock!Robs)
  /\ \/ pc[p] = "claim.won" /\ Goto(p, "record")
     \/ pc[p] = "claim.found" /\ Goto(p, "lookup")
     \/ pc[p] = "claim.lost" /\ Goto(p, "error")
  /\ UNCHANGED <<mailbox, reached, files, params, id, answer, origin, since, crashes>>

-----------------------------------------------------------------------------
(* The record, the delivery, the record again. *)

WriteSent(p, status) == ledger' = [ledger EXCEPT ![id[p]] = [to |-> to[p], status |-> status]]

\* Mutant of Record: nothing is recorded before the delivery.
RecordLater(p) ==
  /\ pc[p] = "record"
  /\ Goto(p, "deliver")
  /\ UNCHANGED <<mailbox, reached, files, keysLock, params, id, answer, origin, since, crashes>>

Record(p) ==
  /\ pc[p] = "record"
  /\ WriteSent(p, "queued")
  /\ Goto(p, "deliver")
  /\ UNCHANGED <<mailbox, reached, index, keysLock, params, id, answer, origin, since, crashes>>

RecordFails(p) ==
  /\ IOFaults
  /\ pc[p] = "record"
  /\ Goto(p, "error")
  /\ UNCHANGED <<mailbox, reached, files, keysLock, params, id, answer, origin, since, crashes>>

Outcome(p, status) ==
  /\ answer' = [answer EXCEPT ![p] = status]
  /\ Goto(p, "record.final")
  /\ UNCHANGED <<files, keysLock, params, id, origin, since, crashes>>

DeliverToMailbox(p) ==
  /\ pc[p] = "deliver"
  /\ to[p] = "mailbox"
  /\ Box!Deposit(id[p])
  /\ Outcome(p, "queued")
  /\ UNCHANGED reached

\* Append says no: before it wrote, or although it did (a failing Sync, a write
\* that stopped at the newline).
MailboxFails(p) ==
  /\ pc[p] = "deliver"
  /\ to[p] = "mailbox"
  /\ \/ UNCHANGED mailbox
     \/ IOFaults /\ Box!Deposit(id[p])
  /\ Outcome(p, "failed")
  /\ UNCHANGED reached

\* SubmitPrompt took the envelope for confirmed, in the conversation or in the input
\* box behind a running turn; whether it got there is SubmitPrompt's business.
DeliverToSession(p) ==
  /\ pc[p] = "deliver"
  /\ to[p] = "session"
  /\ \/ reached' = reached \cup {id[p]}
     \/ UNCHANGED reached
  /\ \E status \in {"delivered", "queued"} : Outcome(p, status)
  /\ UNCHANGED mailbox

\* It could not be woken, or SubmitPrompt could not confirm what it typed.
SessionFails(p) ==
  /\ pc[p] = "deliver"
  /\ to[p] = "session"
  /\ \/ UNCHANGED reached
     \/ reached' = reached \cup {id[p]}
  /\ Outcome(p, "failed")
  /\ UNCHANGED mailbox

RecordFinal(p) ==
  /\ pc[p] = "record.final"
  /\ WriteSent(p, answer[p])
  /\ Goto(p, IF answer[p] = "failed" THEN "error" ELSE "sent")
  /\ UNCHANGED <<mailbox, reached, index, keysLock, params, id, answer, origin, since, crashes>>

RecordFinalFails(p) ==
  /\ IOFaults
  /\ pc[p] = "record.final"
  /\ Goto(p, "error")
  /\ UNCHANGED <<mailbox, reached, files, keysLock, params, id, answer, origin, since, crashes>>

-----------------------------------------------------------------------------
(* MessageStatus, of a message asked about or of an earlier send's. *)

Query(p) ==
  /\ pc[p] = "idle"
  /\ \E i \in Ids : origin[i].minted /\ AskFor(p, i)
  /\ Goto(p, "lookup")
  /\ UNCHANGED <<mailbox, reached, files, keysLock, params, answer, origin, crashes>>

\* Mutant of Lookup: the record is believed, the mailbox is not asked.
LookupRecordOnly(p) ==
  /\ pc[p] = "lookup"
  /\ answer' = [answer EXCEPT ![p] = ledger[id[p]].status]
  /\ Goto(p, IF ledger[id[p]] = NoRecord THEN "gone" ELSE "told")
  /\ UNCHANGED <<mailbox, reached, files, keysLock, params, id, origin, since, crashes>>

\* readSent
Lookup(p) ==
  /\ pc[p] = "lookup"
  /\ LET rec == ledger[id[p]] IN
       /\ answer' = [answer EXCEPT ![p] = rec.status]
       /\ Goto(p, IF rec = NoRecord THEN "gone"
                  ELSE IF rec.to = "mailbox" /\ rec.status # "failed" THEN "find.log"
                  ELSE "told")
  /\ UNCHANGED <<mailbox, reached, files, keysLock, params, id, origin, since, crashes>>

LookupFails(p) ==
  /\ IOFaults
  /\ pc[p] = "lookup"
  /\ Goto(p, "error")
  /\ UNCHANGED <<mailbox, reached, files, keysLock, params, id, answer, origin, since, crashes>>

\* Find: readAll
FindLog(p) ==
  /\ pc[p] = "find.log"
  /\ Goto(p, IF Stored(id[p]) THEN "find.marks" ELSE "told")
  /\ UNCHANGED <<mailbox, reached, files, keysLock, params, id, answer, origin, since, crashes>>

StatusOf(i) ==
  CASE Standing(i) = 3 -> "read" [] Standing(i) = 2 -> "delivered" [] OTHER -> "queued"

\* Find: readState
FindMarks(p) ==
  /\ pc[p] = "find.marks"
  /\ answer' = [answer EXCEPT ![p] = StatusOf(id[p])]
  /\ Goto(p, "told")
  /\ UNCHANGED <<mailbox, reached, files, keysLock, params, id, origin, since, crashes>>

\* An error of Find is ignored: the record's own status is reported.
FindFails(p) ==
  /\ IOFaults
  /\ pc[p] \in {"find.log", "find.marks"}
  /\ Goto(p, "told.recorded")
  /\ UNCHANGED <<mailbox, reached, files, keysLock, params, id, answer, origin, since, crashes>>

-----------------------------------------------------------------------------
Forget(p) ==
  /\ Goto(p, "idle")
  /\ sender' = [sender EXCEPT ![p] = <<>>]
  /\ key' = [key EXCEPT ![p] = NoKey]
  /\ to' = [to EXCEPT ![p] = "mailbox"]
  /\ id' = [id EXCEPT ![p] = Nobody]
  /\ answer' = [answer EXCEPT ![p] = "none"]
  /\ since' = [since EXCEPT ![p] = 0]
  /\ UNCHANGED <<mailbox, reached, files, origin>>

Return(p) ==
  /\ pc[p] \in {"sent", "told", "told.recorded", "gone", "error"}
  /\ Forget(p)
  /\ UNCHANGED <<keysLock, crashes>>

\* The lock directory of a process that dies stays behind.
Crash(p) ==
  /\ pc[p] # "idle"
  /\ crashes < MaxCrashes
  /\ crashes' = crashes + 1
  /\ LedgerLock!Die(p)
  /\ UNCHANGED robbed
  /\ Forget(p)

\* The recipient client fetches and acknowledges.
Reader ==
  /\ \E n \in 1..Len(inbox) : Box!HandOut(n) \/ Box!Acknowledge(n)
  /\ UNCHANGED <<reached, files, keysLock, pc, params, id, answer, origin, since, crashes>>

Claim(p) ==
  \/ ClaimLock(p) \/ ClaimStale(p) \/ ClaimSteal(p) \/ ClaimTimeout(p)
  \/ ClaimTaken(p) \/ ClaimFree(p) \/ ClaimTruncate(p) \/ ClaimWrite(p) \/ ClaimFails(p)
  \/ ClaimRelease(p)

Deliver(p) ==
  \/ Record(p) \/ RecordFails(p)
  \/ DeliverToMailbox(p) \/ MailboxFails(p) \/ DeliverToSession(p) \/ SessionFails(p)
  \/ RecordFinal(p) \/ RecordFinalFails(p)

Report(p) ==
  Lookup(p) \/ LookupFails(p) \/ FindLog(p) \/ FindMarks(p) \/ FindFails(p) \/ Return(p)

Next ==
  \/ \E p \in Procs :
       Send(p) \/ Query(p) \/ Claim(p) \/ Deliver(p) \/ Report(p) \/ Crash(p)
  \/ Reader

Spec == Init /\ [][Next]_vars

-----------------------------------------------------------------------------
Answers == {"none", "queued", "delivered", "read", "failed"}
Origin == [sender : Senders \cup {<<>>}, key : Keys \cup {NoKey}, minted : BOOLEAN]
SentRecord == [to : Recipients, status : Answers \ {"none"}]

TypeOK ==
  /\ inbox \in Seq(Ids) /\ delivered \in 0..Len(inbox) /\ read \in 0..delivered
  /\ reached \subseteq Ids
  /\ index \in [Paths -> Ids \cup {Nobody, Blank}]
  /\ ledger \in [Ids -> SentRecord \cup {NoRecord}]
  /\ maker \in Procs \cup {Nobody} /\ holders \subseteq Procs /\ thieves \subseteq Procs
  /\ robbed \in BOOLEAN
  /\ pc \in [Procs -> PCs]
  /\ sender \in [Procs -> Senders \cup {<<>>}]
  /\ key \in [Procs -> Keys \cup {NoKey}]
  /\ to \in [Procs -> Recipients]
  /\ id \in [Procs -> Ids \cup {Nobody}]
  /\ answer \in [Procs -> Answers]
  /\ origin \in [Ids -> Origin]
  /\ since \in [Procs -> 0..3]
  /\ crashes \in 0..MaxCrashes

Delivered == Range(inbox) \cup reached

\* "a second send with the same key does not deliver again" (send_message, Key):
\* two messages that got to their recipients with one sender's key are one
\* message, whoever retried, raced, died or stole a dead one's lock, as long as no
\* live claim had its lock stolen.
OneDeliveryPerKey ==
  ~robbed =>
    \A i, j \in Delivered :
      origin[i] = origin[j] /\ origin[i].key # NoKey => i = j

\* "what became of message X" (ledger.go): no message gets to a recipient before
\* the ledger knows it, so message_status has an answer after a crash as well.
NothingUnrecorded == \A i \in Delivered : ledger[i] # NoRecord

\* What message_status says of a message: 0 nothing, 1 queued, 2 delivered, 3 read,
\* 4 failed.
Told(i) ==
  LET rec == ledger[i] IN
    IF rec.to = "mailbox" /\ rec.status # "failed" /\ Stored(i) THEN Standing(i)
    ELSE CASE rec.status = "queued" -> 1 [] rec.status = "delivered" -> 2
           [] rec.status = "failed" -> 4 [] OTHER -> 0

\* What is said of a message never falls back, whoever retries, reads, dies or fails
\* to record: from queued to delivered to read, or for good to failed, and of a
\* session "what the delivery confirmed, which never changes afterwards"
\* (MessageStatus).
StatusNeverFallsBack ==
  [][\A i \in Ids :
       /\ Told(i) <= Told(i)'
       /\ ledger[i].to = "session" /\ ledger[i].status # "queued" => ledger'[i] = ledger[i]]_vars

\* "two processes retrying the same send at the same moment cannot both claim it"
\* (claimKey): once a key belongs to a message it never belongs to another, and
\* no retry empties its file, as long as no live claim had its lock stolen.
KeysStayClaimed ==
  [][~robbed => \A f \in Paths : index[f] \in Ids => index'[f] = index[f]]_vars

Rank(status) == CASE status = "read" -> 3 [] status = "delivered" -> 2 [] OTHER -> 1

\* "the status is read live" (MessageStatus): although the log and the watermarks
\* are read one after the other without the lock, the status is one the message
\* had between the question and the answer, unless a read of them failed.
StatusIsCurrent ==
  \A p \in Procs :
    pc[p] = "told" /\ ledger[id[p]].to = "mailbox" /\ answer[p] # "failed" =>
      /\ since[p] <= Rank(answer[p])
      /\ Rank(answer[p]) > 1 => Rank(answer[p]) <= Standing(id[p])

\* "a repeated key returns the first record" (ledger.go).
RepeatedKeyFindsRecord == \A p \in Procs : ~(pc[p] = "gone" /\ key[p] # NoKey)
=============================================================================
