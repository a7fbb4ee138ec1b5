-------------------------- MODULE MailboxWaitProofs -------------------------
(***************************************************************************)
(* MailboxWait for any number of waiters, messages, cursors and limits: a  *)
(* wait that times out has left nothing behind that it had seen arrive,    *)
(* and one whose deadline has passed is over a few steps later.            *)
(***************************************************************************)
EXTENDS MailboxWait, SequenceTheorems, TLAPS

(***************************************************************************)
(* Why reading only when the size has changed is enough: as long as the    *)
(* size is the one a waiter remembers, the log is the one it has read, and *)
(* what it had read then was behind it.                                    *)
(***************************************************************************)
Remembers(w) ==
  lastSize[w] # -1 =>
    /\ lastSize[w] <= size
    /\ stored[w] <= Len(inbox)
    /\ lastSize[w] = size => stored[w] = Len(inbox)

HasRead == {"deadline", "select", "timed out", "aborted"}

Looked(w) ==
  /\ pc[w] = "idle" => lastSize[w] = -1
  /\ pc[w] = "read" => lastSize[w] # -1
  /\ pc[w] \in HasRead \/ (pc[w] = "stat" /\ lastSize[w] # -1) =>
       lastSize[w] # -1 /\ stored[w] <= Behind(w)

WaitInv ==
  /\ TypeOK
  /\ delivered <= Len(inbox)
  /\ \A w \in Waiters : Remembers(w) /\ Looked(w)

LEMMA WaitInvInit == Init => WaitInv
<1> SUFFICES ASSUME Init PROVE WaitInv
  OBVIOUS
<1>1. TypeOK
  <2>1. /\ inbox \in Seq(Ids) /\ delivered \in Nat /\ read \in Nat /\ size \in Nat
        /\ limit \in [Waiters -> Nat \ {0}] /\ lastSize \in [Waiters -> Nat \cup {-1}]
        /\ stored \in [Waiters -> Nat]
    BY EmptySeq DEF Init, Box!Init
  <2>2. /\ writing \in BOOLEAN
        /\ pc \in [Waiters -> PCs]
        /\ cursor \in [Waiters -> Cursors \cup {NoCursor}]
        /\ result \in [Waiters -> SUBSET Nat]
        /\ expired \in [Waiters -> BOOLEAN]
        /\ aborted \in [Waiters -> BOOLEAN]
    BY DEF Init, PCs
  <2>3. QED
    BY <2>1, <2>2 DEF TypeOK
<1>2. delivered <= Len(inbox)
  BY EmptySeq DEF Init, Box!Init
<1>3. ASSUME NEW w \in Waiters
      PROVE  Remembers(w) /\ Looked(w)
  BY <1>3 DEF Init, Remembers, Looked, HasRead
<1>4. QED
  BY <1>1, <1>2, <1>3 DEF WaitInv

\* What a read past n returns is empty only if nothing is past n.
LEMMA NothingFound ==
  ASSUME WaitInv, NEW w \in Waiters, NEW n \in Nat, (n + 1)..Upto(n, w) = {}
  PROVE  Len(inbox) <= n
<1>1. limit[w] \in Nat \ {0} /\ Len(inbox) \in Nat
  BY LenProperties DEF WaitInv, TypeOK
<1>2. Upto(n, w) \in Nat
  BY <1>1 DEF Upto
<1>3. ~(n + 1 <= Upto(n, w))
  <2>1. SUFFICES ASSUME n + 1 <= Upto(n, w) PROVE FALSE
    OBVIOUS
  <2>2. n + 1 \in (n + 1)..Upto(n, w)
    BY <1>2, <2>1
  <2>3. QED
    BY <2>2
<1>4. QED
  BY <1>1, <1>3 DEF Upto

\* Only Fetch and Ack change what readers have, and neither goes back.
LEMMA MailboxMoves ==
  ASSUME WaitInv, NEW m \in Nat,
         \/ \E id \in Ids : Box!Deposit(id)
         \/ Box!HandOut(m) \/ Box!Acknowledge(m)
  PROVE  /\ inbox' \in Seq(Ids) /\ delivered' \in Nat /\ read' \in Nat
         /\ Len(inbox) <= Len(inbox') /\ delivered <= delivered' /\ delivered' <= Len(inbox')
<1> USE LenProperties DEF WaitInv, TypeOK
<1>1. ASSUME NEW id \in Ids, Box!Deposit(id)
      PROVE  inbox' \in Seq(Ids) /\ Len(inbox') = Len(inbox) + 1 /\ UNCHANGED <<delivered, read>>
  BY <1>1, AppendProperties DEF Box!Deposit
<1>2. CASE Box!HandOut(m)
  BY <1>2 DEF Box!HandOut
<1>3. CASE Box!Acknowledge(m)
  BY <1>3 DEF Box!Acknowledge
<1>4. QED
  BY <1>1, <1>2, <1>3

-----------------------------------------------------------------------------
(* What a step of one waiter, and of everybody else, has to keep. *)

\* A step of w that leaves the files alone, or moves delivered on: the other
\* waiters' facts survive it.
LEMMA OthersUndisturbed ==
  ASSUME WaitInv, NEW v \in Waiters,
         UNCHANGED <<inbox, size>>, delivered' \in Nat, delivered <= delivered',
         UNCHANGED <<lastSize[v], stored[v], cursor[v], pc[v]>>
  PROVE  Remembers(v)' /\ Looked(v)'
<1>1. Remembers(v)'
  BY DEF WaitInv, Remembers
<1>2. stored[v] \in Nat /\ delivered \in Nat
  BY DEF WaitInv, TypeOK
<1>3. Behind(v)' = Behind(v) \/ (cursor[v] = NoCursor /\ Behind(v) = delivered /\ Behind(v)' = delivered')
  BY DEF Behind
<1>4. stored[v] <= Behind(v) => stored'[v] <= Behind(v)'
  BY <1>2, <1>3
<1>5. QED
  BY <1>1, <1>4 DEF WaitInv, Looked

\* The log may grow under a waiter, if its size does too.
LEMMA LogGrows ==
  ASSUME WaitInv, NEW v \in Waiters,
         size' = size + 1, inbox' \in Seq(Ids), Len(inbox) <= Len(inbox'),
         UNCHANGED <<delivered, waiting>>
  PROVE  Remembers(v)' /\ Looked(v)'
<1>1. lastSize[v] \in Nat \cup {-1} /\ stored[v] \in Nat /\ size \in Nat
      /\ Len(inbox) \in Nat /\ Len(inbox') \in Nat
  BY LenProperties DEF WaitInv, TypeOK
<1>2. UNCHANGED <<lastSize[v], stored[v], cursor[v], pc[v], Behind(v)>>
  BY DEF waiting, call, Behind
<1>3. Remembers(v)'
  BY <1>1, <1>2 DEF WaitInv, Remembers
<1>4. QED
  BY <1>2, <1>3 DEF WaitInv, Looked

LEMMA WaitInvStep == WaitInv /\ [Next]_vars => WaitInv'
<1> SUFFICES ASSUME WaitInv, [Next]_vars
             PROVE  WaitInv'
  OBVIOUS
<1> USE DEF mailbox, log, call, Goto
<1>1. ASSUME NEW w \in Waiters, Call(w)
      PROVE  WaitInv'
  <2>1. TypeOK'
    <3>1. cursor' \in [Waiters -> Cursors \cup {NoCursor}] /\ limit' \in [Waiters -> Nat \ {0}]
      BY <1>1, LimitsAssumption DEF Call, WaitInv, TypeOK
    <3>2. pc' \in [Waiters -> PCs]
      BY <1>1 DEF Call, WaitInv, TypeOK, PCs
    <3>3. QED
      BY <1>1, <3>1, <3>2 DEF Call, WaitInv, TypeOK
  <2>2. ASSUME NEW v \in Waiters
        PROVE  Remembers(v)' /\ Looked(v)'
    <3>1. Remembers(v)'
      BY <1>1 DEF Call, WaitInv, Remembers
    <3>2. Looked(v)'
      <4>1. CASE v = w
        BY <1>1, <4>1 DEF Call, WaitInv, TypeOK, Looked, HasRead
      <4>2. CASE v # w
        BY <1>1, <4>2 DEF Call, WaitInv, TypeOK, Looked, Behind
      <4>3. QED
        BY <4>1, <4>2
    <3>3. QED
      BY <3>1, <3>2
  <2>3. QED
    BY <1>1, <2>1, <2>2 DEF Call, WaitInv
<1>2. ASSUME NEW w \in Waiters, Stat(w)
      PROVE  WaitInv'
  <2>1. TypeOK'
    <3>1. Len(inbox) \in Nat /\ size \in Nat
      BY LenProperties DEF WaitInv, TypeOK
    <3>2. stored' \in [Waiters -> Nat] /\ lastSize' \in [Waiters -> Nat \cup {-1}]
      BY <1>2, <3>1 DEF Stat, WaitInv, TypeOK
    <3>3. pc' \in [Waiters -> PCs]
      BY <1>2 DEF Stat, WaitInv, TypeOK, PCs
    <3>4. QED
      BY <1>2, <3>2, <3>3 DEF Stat, WaitInv, TypeOK
  <2>2. ASSUME NEW v \in Waiters, v # w
        PROVE  Remembers(v)' /\ Looked(v)'
    <3>1. UNCHANGED <<lastSize[v], stored[v], cursor[v], pc[v]>>
      BY <1>2, <2>2 DEF Stat, WaitInv, TypeOK
    <3>2. QED
      BY <1>2, <3>1, OthersUndisturbed DEF Stat, WaitInv, TypeOK
  <2>3. Remembers(w)' /\ Looked(w)'
    <3>1. size \in Nat /\ Len(inbox) \in Nat
      BY LenProperties DEF WaitInv, TypeOK
    <3>2. lastSize'[w] = size /\ stored'[w] = Len(inbox) /\ size' = size /\ inbox' = inbox
      BY <1>2 DEF Stat, WaitInv, TypeOK
    <3>3. Remembers(w)'
      BY <3>1, <3>2 DEF Remembers
    <3>4. CASE size = lastSize[w]
      <4>1. stored[w] = Len(inbox) /\ stored[w] <= Behind(w)
        BY <1>2, <3>1, <3>4 DEF Stat, WaitInv, Remembers, Looked
      <4>2. Behind(w)' = Behind(w) /\ pc'[w] = "deadline"
        BY <1>2, <3>4 DEF Stat, Behind, WaitInv, TypeOK
      <4>3. QED
        BY <3>1, <3>2, <3>3, <4>1, <4>2 DEF Looked
    <3>5. CASE size # lastSize[w]
      <4>1. pc'[w] = "read"
        BY <1>2, <3>5 DEF Stat, WaitInv, TypeOK
      <4>2. QED
        BY <3>1, <3>2, <3>3, <4>1 DEF Looked, HasRead
    <3>6. QED
      BY <3>4, <3>5
  <2>4. QED
    BY <1>2, <2>1, <2>2, <2>3 DEF Stat, WaitInv
<1>3. ASSUME NEW w \in Waiters, ReadFetch(w)
      PROVE  WaitInv'
  <2> DEFINE ns == (delivered + 1)..Upto(delivered, w)
  <2>1. Upto(delivered, w) \in Nat
    BY LenProperties DEF WaitInv, TypeOK, Upto
  <2>2. /\ inbox' = inbox /\ read' = read /\ delivered' \in Nat
        /\ delivered <= delivered' /\ delivered' <= Len(inbox')
    BY <1>3, <2>1 DEF ReadFetch, Box!HandOut, WaitInv, TypeOK
  <2>3. TypeOK'
    <3>1. ns \in SUBSET Nat
      BY <2>1 DEF WaitInv, TypeOK
    <3>2. result' \in [Waiters -> SUBSET Nat] /\ pc' \in [Waiters -> PCs]
      BY <1>3, <3>1 DEF ReadFetch, Found, WaitInv, TypeOK, PCs
    <3>3. QED
      BY <1>3, <2>2, <3>2 DEF ReadFetch, WaitInv, TypeOK
  <2>4. ASSUME NEW v \in Waiters, v # w
        PROVE  Remembers(v)' /\ Looked(v)'
    <3>1. UNCHANGED <<lastSize[v], stored[v], cursor[v], pc[v], inbox, size>>
      BY <1>3, <2>2, <2>4 DEF ReadFetch, Found, WaitInv, TypeOK
    <3>2. QED
      BY <2>2, <3>1, OthersUndisturbed
  <2>5. Remembers(w)' /\ Looked(w)'
    <3>1. UNCHANGED <<lastSize[w], stored[w], cursor[w], inbox, size>>
      BY <1>3, <2>2 DEF ReadFetch
    <3>2. Remembers(w)' /\ lastSize'[w] # -1 /\ stored[w] <= Len(inbox)
      BY <1>3, <3>1 DEF ReadFetch, WaitInv, Remembers, Looked
    <3>3. CASE ns = {}
      <4>1. Len(inbox) <= delivered /\ delivered' = delivered
        BY <1>3, <3>3, NothingFound DEF ReadFetch, WaitInv, TypeOK
      <4>2. Behind(w)' = delivered /\ pc'[w] = "deadline"
        BY <1>3, <3>1, <3>3, <4>1 DEF ReadFetch, Found, Behind, WaitInv, TypeOK
      <4>3. stored[w] \in Nat /\ Len(inbox) \in Nat /\ delivered \in Nat
        BY LenProperties DEF WaitInv, TypeOK
      <4>4. stored'[w] <= Behind(w)'
        BY <3>1, <3>2, <4>1, <4>2, <4>3
      <4>5. QED
        BY <3>2, <4>2, <4>4 DEF Looked
    <3>4. CASE ns # {}
      <4>1. pc'[w] = "found"
        BY <1>3, <3>4 DEF ReadFetch, Found, WaitInv, TypeOK
      <4>2. QED
        BY <3>2, <4>1 DEF Looked, HasRead
    <3>5. QED
      BY <3>3, <3>4
  <2>6. QED
    BY <2>2, <2>3, <2>4, <2>5 DEF WaitInv
<1>4. ASSUME NEW w \in Waiters, ReadReplay(w)
      PROVE  WaitInv'
  <2> DEFINE ns == (cursor[w] + 1)..Upto(cursor[w], w)
  <2>1. cursor[w] \in Nat
    BY <1>4, CursorsAssumption DEF ReadReplay, WaitInv, TypeOK
  <2>2. Upto(cursor[w], w) \in Nat
    BY <2>1, LenProperties DEF WaitInv, TypeOK, Upto
  <2>3. TypeOK'
    <3>1. ns \in SUBSET Nat
      BY <2>1, <2>2
    <3>2. result' \in [Waiters -> SUBSET Nat] /\ pc' \in [Waiters -> PCs]
      BY <1>4, <3>1 DEF ReadReplay, Found, WaitInv, TypeOK, PCs
    <3>3. QED
      BY <1>4, <3>2 DEF ReadReplay, WaitInv, TypeOK
  <2>4. ASSUME NEW v \in Waiters, v # w
        PROVE  Remembers(v)' /\ Looked(v)'
    <3>1. UNCHANGED <<lastSize[v], stored[v], cursor[v], pc[v]>>
      BY <1>4, <2>4 DEF ReadReplay, Found, WaitInv, TypeOK
    <3>2. QED
      BY <1>4, <3>1, OthersUndisturbed DEF ReadReplay, WaitInv, TypeOK
  <2>5. Remembers(w)' /\ Looked(w)'
    <3>1. UNCHANGED <<lastSize[w], stored[w], cursor[w], inbox, size, delivered>>
      BY <1>4 DEF ReadReplay
    <3>2. Remembers(w)' /\ lastSize'[w] # -1 /\ stored[w] <= Len(inbox)
      BY <1>4, <3>1 DEF ReadReplay, WaitInv, Remembers, Looked
    <3>3. CASE ns = {}
      <4>1. Len(inbox) <= cursor[w]
        BY <2>1, <3>3, NothingFound
      <4>2. Behind(w)' = cursor[w] /\ pc'[w] = "deadline"
        BY <1>4, <3>1, <3>3 DEF ReadReplay, Found, Behind, WaitInv, TypeOK
      <4>3. stored[w] \in Nat /\ Len(inbox) \in Nat
        BY LenProperties DEF WaitInv, TypeOK
      <4>4. stored'[w] <= Behind(w)'
        BY <2>1, <3>1, <3>2, <4>1, <4>2, <4>3
      <4>5. QED
        BY <3>2, <4>2, <4>4 DEF Looked
    <3>4. CASE ns # {}
      <4>1. pc'[w] = "found"
        BY <1>4, <3>4 DEF ReadReplay, Found, WaitInv, TypeOK
      <4>2. QED
        BY <3>2, <4>1 DEF Looked, HasRead
    <3>5. QED
      BY <3>3, <3>4
  <2>6. QED
    BY <1>4, <2>3, <2>4, <2>5 DEF ReadReplay, WaitInv
<1>5. ASSUME NEW w \in Waiters, ReadFails(w) \/ Deadline(w) \/ Wake(w) \/ Aborted(w)
      PROVE  WaitInv'
  <2>1. UNCHANGED <<mailbox, log, cursor, limit, lastSize, result, expired, aborted, stored>>
    BY <1>5 DEF ReadFails, Deadline, Wake, Aborted
  <2>2. pc' \in [Waiters -> PCs]
    BY <1>5 DEF ReadFails, Deadline, Wake, Aborted, WaitInv, TypeOK, PCs
  <2>3. TypeOK'
    BY <2>1, <2>2 DEF WaitInv, TypeOK
  <2>4. ASSUME NEW v \in Waiters
        PROVE  Remembers(v)' /\ Looked(v)'
    <3>1. Remembers(v)' /\ Behind(v)' = Behind(v)
      BY <2>1 DEF WaitInv, Remembers, Behind
    <3>2. CASE v = w
      BY <1>5, <2>1, <3>1, <3>2
         DEF ReadFails, Deadline, Wake, Aborted, WaitInv, TypeOK, Looked, HasRead
    <3>3. CASE v # w
      <4>1. pc'[v] = pc[v]
        BY <1>5, <3>3 DEF ReadFails, Deadline, Wake, Aborted, WaitInv, TypeOK
      <4>2. QED
        BY <2>1, <3>1, <4>1 DEF WaitInv, Looked
    <3>4. QED
      BY <3>1, <3>2, <3>3
  <2>5. QED
    BY <2>1, <2>3, <2>4 DEF WaitInv
<1>6. ASSUME NEW w \in Waiters, Return(w)
      PROVE  WaitInv'
  <2>1. TypeOK'
    <3>1. /\ limit' \in [Waiters -> Nat \ {0}] /\ stored' \in [Waiters -> Nat]
          /\ lastSize' \in [Waiters -> Nat \cup {-1}]
      <4>1. /\ limit \in [Waiters -> Nat \ {0}] /\ stored \in [Waiters -> Nat]
            /\ lastSize \in [Waiters -> Nat \cup {-1}]
        BY DEF WaitInv, TypeOK
      <4>2. /\ limit' = [limit EXCEPT ![w] = 1] /\ stored' = [stored EXCEPT ![w] = 0]
            /\ lastSize' = [lastSize EXCEPT ![w] = -1]
        BY <1>6 DEF Return
      <4>3. QED
        BY <4>1, <4>2
    <3>2. /\ cursor' \in [Waiters -> Cursors \cup {NoCursor}]
          /\ result' \in [Waiters -> SUBSET Nat]
          /\ expired' \in [Waiters -> BOOLEAN] /\ aborted' \in [Waiters -> BOOLEAN]
          /\ pc' \in [Waiters -> PCs]
      BY <1>6 DEF Return, WaitInv, TypeOK, PCs
    <3>3. QED
      BY <1>6, <3>1, <3>2 DEF Return, WaitInv, TypeOK
  <2>2. ASSUME NEW v \in Waiters, v # w
        PROVE  Remembers(v)' /\ Looked(v)'
    <3>1. UNCHANGED <<lastSize[v], stored[v], cursor[v], pc[v]>>
      BY <1>6, <2>2 DEF Return, WaitInv, TypeOK
    <3>2. UNCHANGED <<inbox, size, delivered>> /\ delivered \in Nat
      BY <1>6 DEF Return, WaitInv, TypeOK
    <3>3. QED
      BY <3>1, <3>2, OthersUndisturbed
  <2>3. Remembers(w)' /\ Looked(w)'
    BY <1>6 DEF Return, WaitInv, TypeOK, Remembers, Looked, HasRead
  <2>4. QED
    BY <1>6, <2>1, <2>2, <2>3 DEF Return, WaitInv
<1>7. ASSUME NEW w \in Waiters, Abort(w) \/ Expire(w)
      PROVE  WaitInv'
  <2>1. UNCHANGED <<mailbox, log, pc, cursor, limit, lastSize, result, stored>>
    BY <1>7 DEF Abort, Expire
  <2>2. expired' \in [Waiters -> BOOLEAN] /\ aborted' \in [Waiters -> BOOLEAN]
    BY <1>7 DEF Abort, Expire, WaitInv, TypeOK
  <2>3. QED
    BY <2>1, <2>2 DEF WaitInv, TypeOK, Remembers, Looked, Behind
<1>8. CASE WriteSome \/ WriteRest
  <2>1. /\ inbox' \in Seq(Ids) /\ Len(inbox) <= Len(inbox')
        /\ UNCHANGED <<delivered, read, waiting>>
    <3>1. Len(inbox) \in Nat
      BY LenProperties DEF WaitInv, TypeOK
    <3>2. CASE WriteSome
      BY <3>1, <3>2 DEF WriteSome, WaitInv, TypeOK
    <3>3. ASSUME NEW id \in Ids, Box!Deposit(id)
          PROVE  inbox' \in Seq(Ids) /\ Len(inbox) <= Len(inbox') /\ UNCHANGED <<delivered, read>>
      BY <3>1, <3>3, AppendProperties DEF Box!Deposit, WaitInv, TypeOK
    <3>4. QED
      BY <1>8, <3>2, <3>3 DEF WriteRest
  <2>2. size' = size + 1 /\ writing' \in BOOLEAN
    BY <1>8 DEF WriteSome, WriteRest, Grow
  <2>3. TypeOK'
    BY <2>1, <2>2 DEF waiting, WaitInv, TypeOK
  <2>4. delivered' <= Len(inbox')
    BY <2>1, LenProperties DEF WaitInv, TypeOK
  <2>5. QED
    BY <2>1, <2>2, <2>3, <2>4, LogGrows DEF WaitInv
<1>9. CASE WriteCutOff
  BY <1>9 DEF WriteCutOff, waiting, WaitInv, TypeOK, Remembers, Looked, Behind
<1>10. CASE Ack
  <2>1. PICK upto \in 1..Len(inbox) : Box!Acknowledge(upto)
    BY <1>10 DEF Ack
  <2>2. upto \in Nat /\ inbox' = inbox
    BY <2>1 DEF Box!Acknowledge
  <2>3. delivered' \in Nat /\ read' \in Nat /\ delivered <= delivered' /\ delivered' <= Len(inbox')
    BY <2>1, <2>2, MailboxMoves
  <2>4. TypeOK'
    BY <1>10, <2>2, <2>3 DEF Ack, waiting, WaitInv, TypeOK
  <2>5. ASSUME NEW v \in Waiters
        PROVE  Remembers(v)' /\ Looked(v)'
    BY <1>10, <2>2, <2>3, OthersUndisturbed DEF Ack, waiting
  <2>6. QED
    BY <2>3, <2>4, <2>5 DEF WaitInv
<1>11. CASE UNCHANGED vars
  BY <1>11 DEF vars, WaitInv, TypeOK, Remembers, Looked, Behind
<1>12. QED
  BY <1>1, <1>2, <1>3, <1>4, <1>5, <1>6, <1>7, <1>8, <1>9, <1>10, <1>11 DEF Next, Step

\* A wait that times out has left nothing behind that was in the log when it
\* last looked at its size (Wait).
THEOREM TimeoutMeansNothing == Spec => []TimeoutMeansNothingThere
<1>1. WaitInv => TimeoutMeansNothingThere
  BY DEF WaitInv, TimeoutMeansNothingThere, Looked, HasRead
<1>2. QED
  BY <1>1, WaitInvInit, WaitInvStep, PTL DEF Spec

\* Every value the variables take is of its type: what a wait remembers and hands
\* out never goes past the log (Wait).
THEOREM WaitTypeOK == Spec => []TypeOK
<1>1. WaitInv => TypeOK
  BY DEF WaitInv
<1>2. QED
  BY <1>1, WaitInvInit, WaitInvStep, PTL DEF Spec

-----------------------------------------------------------------------------
(***************************************************************************)
(* A wait whose deadline has passed runs out of steps: what keeps a wait   *)
(* going is only the turn from the deadline to the sleep.                  *)
(***************************************************************************)

\* The most steps a wait whose deadline has passed can still take.
StepsLeft(w) ==
  CASE pc[w] = "select" -> 5
    [] pc[w] = "stat" -> 4
    [] pc[w] = "read" -> 3
    [] pc[w] = "deadline" -> 2
    [] pc[w] \in {"found", "timed out", "aborted", "failed"} -> 1
    [] OTHER -> 0

StepsAtPlace(w) ==
  /\ pc[w] = "select" => StepsLeft(w) = 5
  /\ pc[w] = "stat" => StepsLeft(w) = 4
  /\ pc[w] = "read" => StepsLeft(w) = 3
  /\ pc[w] = "deadline" => StepsLeft(w) = 2
  /\ pc[w] \in {"found", "timed out", "aborted", "failed"} => StepsLeft(w) = 1
  /\ pc[w] = "idle" => StepsLeft(w) = 0

StepsByPlace == \A w \in Waiters : StepsAtPlace(w)

\* The steps left at each place.
LEMMA StepsTable == StepsByPlace
<1> SUFFICES ASSUME NEW w \in Waiters PROVE StepsAtPlace(w)
  BY Zenon DEF StepsByPlace
<1> QED
  BY DEF StepsAtPlace, StepsLeft

\* Where a step takes a wait whose deadline has passed.
Onward(w) ==
  \/ pc[w] = "select" /\ pc'[w] \in {"stat", "aborted"}
  \/ pc[w] = "stat" /\ pc'[w] \in {"read", "deadline"}
  \/ pc[w] = "read" /\ pc'[w] \in {"deadline", "found", "failed"}
  \/ pc[w] = "deadline" /\ pc'[w] = "timed out"
  \/ pc[w] \in {"found", "timed out", "aborted", "failed"} /\ pc'[w] = "idle"

LEMMA ExpiredGoesOn ==
  ASSUME WaitInv, NEW w \in Waiters, expired[w], Step(w) \/ Aborted(w)
  PROVE  Onward(w) /\ (pc'[w] = "idle" \/ expired'[w])
<1> USE DEF WaitInv, TypeOK, Goto, Onward
<1>1. CASE Stat(w)
  BY <1>1 DEF Stat
<1>2. CASE ReadFetch(w) \/ ReadReplay(w)
  BY <1>2 DEF ReadFetch, ReadReplay, Found
<1>3. CASE ReadFails(w)
  BY <1>3 DEF ReadFails
<1>4. CASE Deadline(w)
  BY <1>4 DEF Deadline
<1>5. CASE Wake(w) \/ Aborted(w)
  BY <1>5 DEF Wake, Aborted
<1>6. CASE Return(w)
  BY <1>6 DEF Return
<1>7. QED
  BY <1>1, <1>2, <1>3, <1>4, <1>5, <1>6 DEF Step

\* Nobody else moves a wait that is under way, and none takes its deadline back.
LEMMA OthersLeaveWait ==
  ASSUME WaitInv, [Next]_vars, NEW w \in Waiters, pc[w] # "idle", ~(Step(w) \/ Aborted(w))
  PROVE  pc'[w] = pc[w] /\ (expired[w] => expired'[w])
<1> USE DEF WaitInv, TypeOK, Goto, call
<1>1. CASE Call(w) \/ Abort(w) \/ Expire(w)
  BY <1>1 DEF Call, Abort, Expire
<1>2. ASSUME NEW v \in Waiters, v # w, Call(v) \/ Step(v) \/ Aborted(v) \/ Abort(v) \/ Expire(v)
      PROVE  pc'[w] = pc[w] /\ expired'[w] = expired[w]
  <2>1. CASE Call(v) \/ Abort(v) \/ Expire(v) \/ Aborted(v) \/ Wake(v) \/ Return(v)
    BY <1>2, <2>1 DEF Call, Abort, Expire, Aborted, Wake, Return
  <2>2. CASE Stat(v) \/ ReadFetch(v) \/ ReadReplay(v) \/ ReadFails(v) \/ Deadline(v)
    BY <1>2, <2>2 DEF Stat, ReadFetch, ReadReplay, Found, ReadFails, Deadline
  <2>3. QED
    BY <1>2, <2>1, <2>2 DEF Step
<1>3. CASE WriteSome \/ WriteRest \/ WriteCutOff \/ Ack
  BY <1>3 DEF WriteSome, WriteRest, WriteCutOff, Ack, waiting
<1>4. CASE UNCHANGED vars
  BY <1>4 DEF vars
<1>5. QED
  BY <1>1, <1>2, <1>3, <1>4 DEF Next

\* Once its deadline has passed, each step of a wait is one less of five to go, until
\* it has returned; nothing anybody else does, a sender or another reader least of
\* all, gives it one more, or the time it does not have.
ExpiredRunsOut ==
  [][\A w \in Waiters :
       pc[w] # "idle" /\ expired[w] =>
         /\ StepsLeft(w) \in 1..5
         /\ Step(w) \/ Aborted(w) => StepsLeft(w)' < StepsLeft(w)
         /\ ~(Step(w) \/ Aborted(w)) => StepsLeft(w)' = StepsLeft(w)
         /\ pc'[w] = "idle" \/ expired'[w]]_vars

\* "the timeout passes" (Wait): a wait whose deadline has passed is over after five
\* steps of its own at most.
THEOREM WaitExpiredRunsOut == Spec => ExpiredRunsOut
<1>1. ASSUME WaitInv, [Next]_vars, NEW w \in Waiters, pc[w] # "idle", expired[w]
      PROVE  /\ StepsLeft(w) \in 1..5
             /\ Step(w) \/ Aborted(w) => StepsLeft(w)' < StepsLeft(w)
             /\ ~(Step(w) \/ Aborted(w)) => StepsLeft(w)' = StepsLeft(w)
             /\ pc'[w] = "idle" \/ expired'[w]
  <2>0. StepsAtPlace(w) /\ StepsAtPlace(w)'
    <3>1. StepsByPlace'
      BY StepsTable, PTL
    <3>2. QED
      BY <3>1, StepsTable, Zenon DEF StepsByPlace
  <2>1. StepsLeft(w) \in 1..5
    <3>1. pc[w] \in PCs
      BY <1>1 DEF WaitInv, TypeOK
    <3>2. StepsLeft(w) \in {1, 2, 3, 4, 5}
      BY <1>1, <2>0, <3>1, Zenon DEF PCs, StepsAtPlace
    <3>3. QED
      BY <3>2
  <2>2. CASE Step(w) \/ Aborted(w)
    <3>1. Onward(w) /\ (pc'[w] = "idle" \/ expired'[w])
      BY <1>1, <2>2, ExpiredGoesOn
    <3>2. StepsLeft(w)' < StepsLeft(w)
      <4>1. \/ StepsLeft(w) = 5 /\ StepsLeft(w)' \in {4, 1}
            \/ StepsLeft(w) = 4 /\ StepsLeft(w)' \in {3, 2}
            \/ StepsLeft(w) = 3 /\ StepsLeft(w)' \in {2, 1}
            \/ StepsLeft(w) = 2 /\ StepsLeft(w)' = 1
            \/ StepsLeft(w) = 1 /\ StepsLeft(w)' = 0
        BY <2>0, <3>1, Zenon DEF Onward, StepsAtPlace
      <4>2. QED
        BY <4>1
    <3>3. QED
      BY <2>1, <2>2, <3>1, <3>2
  <2>3. CASE ~(Step(w) \/ Aborted(w))
    <3>1. pc'[w] = pc[w] /\ (expired[w] => expired'[w])
      BY <1>1, <2>3, OthersLeaveWait
    <3>2. StepsLeft(w)' = StepsLeft(w)
      BY <3>1 DEF StepsLeft
    <3>3. QED
      BY <1>1, <2>1, <2>3, <3>1, <3>2
  <2>4. QED
    BY <2>2, <2>3
<1>2. WaitInv /\ [Next]_vars =>
        [\A w \in Waiters :
           pc[w] # "idle" /\ expired[w] =>
             /\ StepsLeft(w) \in 1..5
             /\ Step(w) \/ Aborted(w) => StepsLeft(w)' < StepsLeft(w)
             /\ ~(Step(w) \/ Aborted(w)) => StepsLeft(w)' = StepsLeft(w)
             /\ pc'[w] = "idle" \/ expired'[w]]_vars
  BY <1>1
<1>3. QED
  BY <1>2, WaitInvInit, WaitInvStep, PTL DEF Spec, ExpiredRunsOut
=============================================================================
