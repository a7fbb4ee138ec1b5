----------------------------- MODULE MailboxWait ----------------------------
(***************************************************************************)
(* Mailbox.Wait: the long poll behind wait_for_messages.  A waiter watches *)
(* the size of the log and reads again only when it has changed, so that a *)
(* message is noticed at all hangs on the order of its stat and its read.  *)
(* The mailbox below it is Inbox, which Mailbox implements: a Fetch is one *)
(* HandOut, under the lock, while a ReadAfter takes no lock and may run in *)
(* the middle of a write.                                                  *)
(***************************************************************************)
EXTENDS Integers, Sequences

CONSTANTS
  Waiters,     \* the calls of Wait, one per client
  Ids,         \* the ids of the messages senders append
  Cursors,     \* the explicit cursors clients wait behind
  NoCursor,    \* a client that waits for what nobody has fetched
  Limits,      \* the limits clients ask for
  MaxWrites    \* bound: how many writes the log gets

ASSUME NoCursorAssumption == NoCursor \notin Cursors
ASSUME CursorsAssumption == Cursors \subseteq Nat
ASSUME LimitsAssumption == Limits \subseteq Nat \ {0}
ASSUME WritesAssumption == MaxWrites \in Nat

VARIABLES
  inbox, delivered, read,    \* the mailbox (Inbox)
  size,       \* the size of log.jsonl, in writes
  writing,    \* a sender has the lock and has written part of a line
  pc,         \* where in Wait a waiter is
  cursor,     \* opts.Cursor
  limit,      \* opts.Limit
  lastSize,   \* lastSize
  result,     \* the sequence numbers Wait is about to return
  expired,    \* the deadline has passed
  aborted,    \* the client has cancelled the call
  stored      \* history: how many messages the log had at the last stat

mailbox == <<inbox, delivered, read>>
log == <<size, writing>>
call == <<cursor, limit>>
vars == <<mailbox, log, pc, call, lastSize, result, expired, aborted, stored>>

PCs == {"idle", "stat", "read", "deadline", "select", "found", "timed out", "aborted", "failed"}

Box == INSTANCE Inbox

Init ==
  /\ Box!Init
  /\ size = 0
  /\ writing = FALSE
  /\ pc = [w \in Waiters |-> "idle"]
  /\ cursor = [w \in Waiters |-> NoCursor]
  /\ limit = [w \in Waiters |-> 1]
  /\ lastSize = [w \in Waiters |-> -1]
  /\ result = [w \in Waiters |-> {}]
  /\ expired = [w \in Waiters |-> FALSE]
  /\ aborted = [w \in Waiters |-> FALSE]
  /\ stored = [w \in Waiters |-> 0]

Goto(w, l) == pc' = [pc EXCEPT ![w] = l]

-----------------------------------------------------------------------------
(* One call of Wait. *)

\* Mutant of Call: the limit is not clamped.
CallUnclamped(w) ==
  /\ pc[w] = "idle"
  /\ Goto(w, "stat")
  /\ \E c \in Cursors \cup {NoCursor} : cursor' = [cursor EXCEPT ![w] = c]
  /\ \E n \in Limits \cup {0} : limit' = [limit EXCEPT ![w] = n]
  /\ UNCHANGED <<mailbox, log, lastSize, result, expired, aborted, stored>>

Call(w) ==
  /\ pc[w] = "idle"
  /\ Goto(w, "stat")
  /\ \E c \in Cursors \cup {NoCursor} : cursor' = [cursor EXCEPT ![w] = c]
  /\ \E n \in Limits : limit' = [limit EXCEPT ![w] = n]
  /\ UNCHANGED <<mailbox, log, lastSize, result, expired, aborted, stored>>

\* The size is remembered before the log is read: a message that arrives in
\* between changes it once more.
Stat(w) ==
  /\ pc[w] = "stat"
  /\ lastSize' = [lastSize EXCEPT ![w] = size]
  /\ stored' = [stored EXCEPT ![w] = Len(inbox)]
  /\ Goto(w, IF size = lastSize[w] THEN "deadline" ELSE "read")
  /\ UNCHANGED <<mailbox, log, call, result, expired, aborted>>

\* The last message a read past n returns.
Upto(n, w) == IF n + limit[w] < Len(inbox) THEN n + limit[w] ELSE Len(inbox)

Found(w, ns) ==
  /\ result' = [result EXCEPT ![w] = ns]
  /\ Goto(w, IF ns = {} THEN "deadline" ELSE "found")

\* read() without a cursor: Fetch, which waits for the lock.
ReadFetch(w) ==
  /\ pc[w] = "read"
  /\ cursor[w] = NoCursor
  /\ ~writing
  /\ LET ns == (delivered + 1)..Upto(delivered, w) IN
       /\ Found(w, ns)
       /\ IF ns = {} THEN UNCHANGED mailbox ELSE Box!HandOut(Upto(delivered, w))
  /\ UNCHANGED <<log, call, lastSize, expired, aborted, stored>>

\* read() with a cursor: ReadAfter.
ReadReplay(w) ==
  /\ pc[w] = "read"
  /\ cursor[w] # NoCursor
  /\ Found(w, (cursor[w] + 1)..Upto(cursor[w], w))
  /\ UNCHANGED <<mailbox, log, call, lastSize, expired, aborted, stored>>

\* The lock was not to be had in time, or a file could not be read.
ReadFails(w) ==
  /\ pc[w] = "read"
  /\ Goto(w, "failed")
  /\ UNCHANGED <<mailbox, log, call, lastSize, result, expired, aborted, stored>>

\* Mutants of Deadline: the size is taken after the read; the deadline is not
\* looked at.
DeadlineThenSize(w) ==
  /\ pc[w] = "deadline"
  /\ lastSize' = [lastSize EXCEPT ![w] = size]
  /\ Goto(w, IF expired[w] THEN "timed out" ELSE "select")
  /\ UNCHANGED <<mailbox, log, call, result, expired, aborted, stored>>

DeadlineIgnored(w) ==
  /\ pc[w] = "deadline"
  /\ Goto(w, "select")
  /\ UNCHANGED <<mailbox, log, call, lastSize, result, expired, aborted, stored>>

Deadline(w) ==
  /\ pc[w] = "deadline"
  /\ Goto(w, IF expired[w] THEN "timed out" ELSE "select")
  /\ UNCHANGED <<mailbox, log, call, lastSize, result, expired, aborted, stored>>

\* The sleep is over.  A timer and a cancelled context may be ready together:
\* select takes either.
Wake(w) ==
  /\ pc[w] = "select"
  /\ Goto(w, "stat")
  /\ UNCHANGED <<mailbox, log, call, lastSize, result, expired, aborted, stored>>

Aborted(w) ==
  /\ pc[w] = "select"
  /\ aborted[w]
  /\ Goto(w, "aborted")
  /\ UNCHANGED <<mailbox, log, call, lastSize, result, expired, aborted, stored>>

Return(w) ==
  /\ pc[w] \in {"found", "timed out", "aborted", "failed"}
  /\ Goto(w, "idle")
  /\ cursor' = [cursor EXCEPT ![w] = NoCursor]
  /\ limit' = [limit EXCEPT ![w] = 1]
  /\ lastSize' = [lastSize EXCEPT ![w] = -1]
  /\ result' = [result EXCEPT ![w] = {}]
  /\ expired' = [expired EXCEPT ![w] = FALSE]
  /\ aborted' = [aborted EXCEPT ![w] = FALSE]
  /\ stored' = [stored EXCEPT ![w] = 0]
  /\ UNCHANGED <<mailbox, log>>

-----------------------------------------------------------------------------
(* Around it: clients abort, deadlines pass, senders append, readers ack. *)

Abort(w) ==
  /\ pc[w] # "idle"
  /\ ~aborted[w]
  /\ aborted' = [aborted EXCEPT ![w] = TRUE]
  /\ UNCHANGED <<mailbox, log, pc, call, lastSize, result, expired, stored>>

Expire(w) ==
  /\ pc[w] # "idle"
  /\ ~expired[w]
  /\ expired' = [expired EXCEPT ![w] = TRUE]
  /\ UNCHANGED <<mailbox, log, pc, call, lastSize, result, aborted, stored>>

Grow == size < MaxWrites /\ size' = size + 1

waiting == <<pc, call, lastSize, result, expired, aborted, stored>>

\* Append's write reaches the file in parts.
WriteSome ==
  /\ ~writing
  /\ Grow
  /\ writing' = TRUE
  /\ UNCHANGED <<mailbox, waiting>>

WriteRest ==
  /\ writing
  /\ Grow
  /\ \E id \in Ids : Box!Deposit(id)
  /\ writing' = FALSE
  /\ UNCHANGED waiting

\* The writer died, or its write failed, and the lock is free again.
WriteCutOff ==
  /\ writing
  /\ writing' = FALSE
  /\ UNCHANGED <<mailbox, size, waiting>>

Ack ==
  /\ ~writing
  /\ \E upto \in 1..Len(inbox) : Box!Acknowledge(upto)
  /\ UNCHANGED <<log, waiting>>

Step(w) ==
  \/ Stat(w) \/ ReadFetch(w) \/ ReadReplay(w) \/ ReadFails(w)
  \/ Deadline(w) \/ Wake(w) \/ Return(w)

Next ==
  \/ \E w \in Waiters : Call(w) \/ Step(w) \/ Aborted(w) \/ Abort(w) \/ Expire(w)
  \/ WriteSome \/ WriteRest \/ WriteCutOff \/ Ack

Spec == Init /\ [][Next]_vars

(* A call of Wait runs, and a select that can see the cancelled context     *)
(* again and again sees it; nobody has to send, to abort, or to run out of  *)
(* time.                                                                    *)
FairSpec ==
  /\ Spec
  /\ \A w \in Waiters : WF_vars(Step(w)) /\ SF_vars(Aborted(w))

-----------------------------------------------------------------------------
TypeOK ==
  /\ inbox \in Seq(Ids)
  /\ delivered \in Nat /\ read \in Nat
  /\ size \in Nat
  /\ writing \in BOOLEAN
  /\ pc \in [Waiters -> PCs]
  /\ cursor \in [Waiters -> Cursors \cup {NoCursor}]
  /\ limit \in [Waiters -> Nat \ {0}]
  /\ lastSize \in [Waiters -> Nat \cup {-1}]
  /\ result \in [Waiters -> SUBSET Nat]
  /\ expired \in [Waiters -> BOOLEAN]
  /\ aborted \in [Waiters -> BOOLEAN]
  /\ stored \in [Waiters -> Nat]

Behind(w) == IF cursor[w] = NoCursor THEN delivered ELSE cursor[w]

\* "TimedOut set when nothing arrived in time" (Wait): every message that was in
\* the log when the waiter last looked at its size is behind the waiter's
\* cursor, or was handed to another reader, although it did not read the log
\* then if the size was the same.
TimeoutMeansNothingThere ==
  \A w \in Waiters : pc[w] = "timed out" => stored[w] <= Behind(w)

\* "Wait blocks until the mailbox has at least one message to return": whatever
\* the clock does, a waiter does not sleep on while there is one for it.
NoLostWakeup ==
  \A w \in Waiters :
    pc[w] # "idle" /\ Len(inbox) > Behind(w) ~> pc[w] = "idle" \/ Len(inbox) <= Behind(w)

\* "the timeout passes, or the context is cancelled" (Wait): either ends the
\* call.
WaitEnds == \A w \in Waiters : pc[w] # "idle" /\ (expired[w] \/ aborted[w]) ~> pc[w] = "idle"
=============================================================================
