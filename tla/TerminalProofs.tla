--------------------------- MODULE TerminalProofs ---------------------------
(***************************************************************************)
(* Proofs about what is done to a session through its terminal: about Wake,*)
(* for any calls, deadlines and numbers of events; and about Permission,   *)
(* for any set of modes, any carousel and any limits.                      *)
(***************************************************************************)
EXTENDS Wake, TLAPS

\* A key that is about to be sent is one of those that are left.
KeysLeft == \A c \in Callers : pc[c] \in {"enter", "up", "down"} => left[c] > 0

Types == TypeOK /\ KeysLeft

LEMMA TypesInit == Init => Types
  BY WakeBounds DEF Init, Types, TypeOK, KeysLeft, Choices, PCs, Waits, Ended

\* What each kind of variable is assigned.
SessionTypes ==
  /\ hasState \in BOOLEAN
  /\ worker \in {"none", "resuming", "usable", "crashed"}
  /\ by \in Callers \cup {Nobody}

TerminalTypes ==
  /\ screen \in {"busy", "prompt"} \cup Dialogs
  /\ highlight \in 1..3
  /\ shown \in BOOLEAN
  /\ answer \in {"none", "keep", "compact", "never"}

CallTypes ==
  /\ choice \in [Callers -> Choices]
  /\ pc \in [Callers -> PCs]
  /\ attempt \in [Callers -> 0..2]
  /\ left \in [Callers -> 0..MaxPolls \cup 0..MaxKeys]

PollingTypes ==
  /\ seen \in [Callers -> BOOLEAN]
  /\ last \in [Callers -> BOOLEAN]
  /\ booted \in [Callers -> BOOLEAN]

GhostTypes ==
  /\ stirred \in [Callers -> BOOLEAN]
  /\ swapped \in [Callers -> BOOLEAN]

EventTypes == events \in 0..MaxEvents

LEMMA TypesAre ==
  TypeOK <=> /\ SessionTypes /\ TerminalTypes /\ CallTypes
             /\ PollingTypes /\ GhostTypes /\ EventTypes
  BY DEF TypeOK, SessionTypes, TerminalTypes, CallTypes, PollingTypes, GhostTypes, EventTypes

LEMMA SessionTypesStep == Types /\ [Next]_vars => SessionTypes'
  <1> SUFFICES ASSUME Types, [Next]_vars PROVE SessionTypes'
    OBVIOUS
  <1>1. SessionTypes
    BY TypesAre DEF Types
  <1>2. CASE UNCHANGED session
    BY <1>1, <1>2 DEF session, SessionTypes
  <1>3. ASSUME NEW c \in Callers, AsIs(c) \/ Wake(c) \/ Step(c)
        PROVE  SessionTypes' \/ UNCHANGED session
    BY <1>1, <1>3
    DEF AsIs, Wake, Step, CannotStart, Refused, Dispatch, DispatchLost, PollFailed, Settled, Poll,
        Deadline, GiveUp, StopFails, Arrives, NoDialog, Blocked, Recognise, ReadDialog,
        CannotAnswer, Arrow, Enter, Cleared, Prompt, Wait, Finish, Spawn, session, SessionTypes
  <1>4. CASE Boot \/ Draw \/ Crash \/ OtherDialog \/ Person
    BY <1>1, <1>4 DEF Boot, Draw, Crash, OtherDialog, Person, session, SessionTypes
  <1>5. CASE UNCHANGED vars
    BY <1>2, <1>5 DEF vars
  <1> QED
    BY <1>2, <1>3, <1>4, <1>5 DEF Next

LEMMA TerminalTypesStep == Types /\ [Next]_vars => TerminalTypes'
  <1> SUFFICES ASSUME Types, [Next]_vars PROVE TerminalTypes'
    OBVIOUS
  <1>1. TerminalTypes
    BY TypesAre DEF Types
  <1>2. CASE UNCHANGED terminal
    BY <1>1, <1>2 DEF terminal, TerminalTypes
  <1>3. Blank => (screen \in {"busy", "prompt"} \cup Dialogs)' /\ (highlight \in 1..3)' /\ shown' \in BOOLEAN
    BY DEF Blank
  <1>4. Confirms => TerminalTypes'
    BY <1>1, <1>3 DEF Confirms, Answers, TerminalTypes
  <1>5. ASSUME NEW c \in Callers, AsIs(c) \/ Wake(c) \/ Step(c)
        PROVE  TerminalTypes' \/ UNCHANGED terminal
    <2>1. CASE Arrow(c)
      <3>1. CASE UNCHANGED terminal
        BY <3>1
      <3>2. CASE UNCHANGED <<screen, answer>> /\ shown' = TRUE /\ (highlight \in 1..3)'
        BY <1>1, <3>2 DEF TerminalTypes
      <3>3. /\ (IF highlight > 1 THEN highlight - 1 ELSE 1) \in 1..3
            /\ (IF highlight < 3 THEN highlight + 1 ELSE 3) \in 1..3
        BY <1>1 DEF TerminalTypes
      <3> QED
        BY <2>1, <3>1, <3>2, <3>3, Zenon DEF Arrow
    <2>2. CASE Dispatch(c) \/ DispatchLost(c) \/ GiveUp(c) \/ Enter(c)
      <3>1. ASSUME NEW starter, Spawn(starter)
            PROVE  TerminalTypes'
        BY <1>1, <1>3, <3>1 DEF Spawn, TerminalTypes
      <3>2. Blank /\ UNCHANGED answer => TerminalTypes'
        BY <1>1, <1>3 DEF TerminalTypes
      <3> QED
        BY <1>4, <2>2, <3>1, <3>2 DEF Dispatch, DispatchLost, GiveUp, Enter, terminal
    <2> QED
      BY <1>5, <2>1, <2>2
      DEF AsIs, Wake, Step, CannotStart, Refused, PollFailed, Settled, Poll,
          Deadline, StopFails, Arrives, NoDialog, Blocked, Recognise, ReadDialog,
          CannotAnswer, Cleared, Prompt, Wait, Finish, terminal
  <1>6. CASE Boot \/ Draw \/ Crash \/ OtherDialog \/ Person
    <2>1. CASE Boot
      BY <1>2, <2>1 DEF Boot
    <2>2. CASE Draw
      BY <1>1, <2>2 DEF Draw, Dialogs, TerminalTypes
    <2>3. CASE Crash
      BY <1>1, <1>3, <2>3 DEF Crash, TerminalTypes
    <2>4. CASE OtherDialog
      BY <1>1, <2>4 DEF OtherDialog, Dialogs, TerminalTypes
    <2>5. CASE Person
      BY <1>1, <1>4, <2>5 DEF Person, TerminalTypes
    <2> QED
      BY <1>6, <2>1, <2>2, <2>3, <2>4, <2>5
  <1>7. CASE UNCHANGED vars
    BY <1>2, <1>7 DEF vars
  <1> QED
    BY <1>2, <1>5, <1>6, <1>7 DEF Next

\* How a call moves on.
LEMMA Moves ==
  ASSUME Types, NEW c \in Callers, NEW l \in PCs
  PROVE  /\ Goto(c, l) => pc' \in [Callers -> PCs]
         /\ Start(c, l) => /\ pc' \in [Callers -> PCs]
                           /\ left' \in [Callers -> 0..MaxPolls \cup 0..MaxKeys]
                           /\ l \notin {"enter", "up", "down"} => KeysLeft'
         /\ Leave(c, l) => /\ pc' \in [Callers -> PCs]
                           /\ left' \in [Callers -> 0..MaxPolls \cup 0..MaxKeys]
                           /\ l \notin {"enter", "up", "down"} => KeysLeft'
         /\ UNCHANGED left /\ Goto(c, l) /\ l \notin {"enter", "up", "down"} => KeysLeft'
         /\ End(c, l) /\ l \notin {"enter", "up", "down"} => CallTypes' /\ KeysLeft'
  BY WakeBounds DEF Types, TypeOK, Goto, Start, Leave, End, KeysLeft, CallTypes, Choices

LEMMA CallTypesStep == Types /\ [Next]_vars => CallTypes' /\ KeysLeft'
  <1> SUFFICES ASSUME Types, [Next]_vars PROVE CallTypes' /\ KeysLeft'
    OBVIOUS
  <1>1. CallTypes /\ KeysLeft
    BY TypesAre DEF Types
  <1>2. CASE UNCHANGED call
    BY <1>1, <1>2 DEF call, CallTypes, KeysLeft
  <1> USE <1>1 DEF PCs, Waits, Ended
  <1>3. ASSUME NEW c \in Callers, AsIs(c) \/ Wake(c) \/ Step(c)
        PROVE  CallTypes' /\ KeysLeft'
    <2>1. Retry(c) => CallTypes' /\ KeysLeft'
      BY Moves DEF Retry, CallTypes
    <2>2. CASE AsIs(c) \/ CannotStart(c) \/ Blocked(c) \/ CannotAnswer(c) \/ Finish(c)
      BY Moves, <2>2 DEF AsIs, CannotStart, Blocked, CannotAnswer, Finish
    <2>3. CASE Wake(c) \/ NoDialog(c)
      BY Moves, <2>3 DEF Wake, NoDialog, CallTypes
    <2>4. CASE Refused(c) \/ DispatchLost(c) \/ GiveUp(c) \/ StopFails(c)
      BY <2>1, <2>4 DEF Refused, DispatchLost, GiveUp, StopFails
    <2>5. CASE Dispatch(c) \/ PollFailed(c) \/ Settled(c) \/ Deadline(c) \/ Arrives(c) \/ Enter(c)
               \/ Cleared(c) \/ Prompt(c)
      BY Moves, <2>5
      DEF Dispatch, PollFailed, Settled, Deadline, Arrives, Enter, Cleared, Prompt, CallTypes
    <2>6. CASE Poll(c)
      BY <2>6, WakeBounds DEF Poll, CallTypes, KeysLeft
    <2>7. CASE Recognise(c)
      BY Moves, <2>7 DEF Recognise, CallTypes
    <2>8. CASE ReadDialog(c)
      BY <2>8, WakeBounds DEF ReadDialog, NextKey, Goto, CallTypes, KeysLeft
    <2>9. CASE Arrow(c)
      BY <2>9, WakeBounds DEF Arrow, AfterArrow, Goto, CallTypes, KeysLeft
    <2>10. CASE Wait(c)
      <3>1. CASE End(c, "unsettled")
        BY Moves, <3>1
      <3>2. CASE left[c] > 0 /\ left' = [left EXCEPT ![c] = @ - 1] /\ UNCHANGED <<pc, choice, attempt>>
        BY <2>10, <3>2, WakeBounds DEF Wait, CallTypes, KeysLeft
      <3> QED
        BY <2>10, <3>1, <3>2 DEF Wait
    <2> QED
      BY <1>3, <2>2, <2>3, <2>4, <2>5, <2>6, <2>7, <2>8, <2>9, <2>10 DEF Step
  <1>4. CASE Boot \/ Draw \/ Crash \/ OtherDialog \/ Person
    BY <1>2, <1>4 DEF Boot, Draw, Crash, OtherDialog, Person, call
  <1>5. CASE UNCHANGED vars
    BY <1>2, <1>5 DEF vars
  <1> QED
    BY <1>3, <1>4, <1>5 DEF Next

LEMMA PollingTypesStep == Types /\ [Next]_vars => PollingTypes'
  <1> SUFFICES ASSUME Types, [Next]_vars PROVE PollingTypes'
    OBVIOUS
  <1>1. PollingTypes
    BY TypesAre DEF Types
  <1>2. CASE UNCHANGED polling
    BY <1>1, <1>2 DEF polling, PollingTypes
  <1>3. ASSUME NEW c \in Callers, Forget(c) \/ Remember(c)
        PROVE  PollingTypes'
    BY <1>1, <1>3 DEF Forget, Remember, PollingTypes
  <1>4. ASSUME NEW c \in Callers, AsIs(c) \/ Wake(c) \/ Step(c)
        PROVE  UNCHANGED polling \/ Forget(c) \/ Remember(c)
    BY <1>4
    DEF AsIs, Wake, Step, CannotStart, Refused, Dispatch, DispatchLost, PollFailed, Settled, Poll,
        Deadline, GiveUp, StopFails, Arrives, NoDialog, Blocked, Recognise, ReadDialog,
        CannotAnswer, Arrow, Enter, Cleared, Prompt, Wait, Finish
  <1>5. CASE Boot \/ Draw \/ Crash \/ OtherDialog \/ Person
    BY <1>2, <1>5 DEF Boot, Draw, Crash, OtherDialog, Person
  <1>6. CASE UNCHANGED vars
    BY <1>2, <1>6 DEF vars
  <1> QED
    BY <1>2, <1>3, <1>4, <1>5, <1>6 DEF Next

LEMMA GhostTypesStep == Types /\ [Next]_vars => GhostTypes' /\ EventTypes'
  <1> SUFFICES ASSUME Types, [Next]_vars PROVE GhostTypes' /\ EventTypes'
    OBVIOUS
  <1>1. GhostTypes /\ EventTypes
    BY TypesAre DEF Types
  <1>2. Event => EventTypes'
    BY <1>1, WakeBounds DEF Event, EventTypes
  <1>3. UNCHANGED events => EventTypes'
    BY <1>1 DEF EventTypes
  <1>4. UNCHANGED ghosts => GhostTypes'
    BY <1>1 DEF ghosts, GhostTypes
  <1>5. ASSUME NEW d
        PROVE  /\ Stir(d) => (stirred \in [Callers -> BOOLEAN])'
               /\ Swap(d) => (swapped \in [Callers -> BOOLEAN])'
    BY <1>1 DEF Stir, Swap, Answering, GhostTypes
  <1>6. ASSUME NEW c \in Callers, AsIs(c) \/ Wake(c) \/ Step(c)
        PROVE  GhostTypes' /\ UNCHANGED events
    <2>1. CASE Dispatch(c) \/ DispatchLost(c) \/ GiveUp(c)
      BY <1>1, <1>4, <1>5, <2>1 DEF Dispatch, DispatchLost, GiveUp, Spawn, ghosts, GhostTypes
    <2>2. CASE ReadDialog(c)
      BY <1>1, <2>2 DEF ReadDialog, GhostTypes
    <2>3. CASE Arrow(c)
      BY <1>1, <1>5, <2>3 DEF Arrow, GhostTypes
    <2>4. CASE Enter(c) \/ CannotAnswer(c)
      BY <1>1, <2>4 DEF Enter, CannotAnswer, Unheed, Answering, GhostTypes
    <2> QED
      BY <1>4, <1>6, <2>1, <2>2, <2>3, <2>4
      DEF AsIs, Wake, Step, CannotStart, Refused, PollFailed, Settled, Poll, Deadline, StopFails,
          Arrives, NoDialog, Blocked, Recognise, Cleared, Prompt, Wait, Finish
  <1>7. CASE Boot \/ Draw \/ Crash \/ OtherDialog \/ Person
    BY <1>1, <1>2, <1>3, <1>4, <1>5, <1>7 DEF Boot, Draw, Crash, OtherDialog, Person, GhostTypes
  <1>8. CASE UNCHANGED vars
    BY <1>3, <1>4, <1>8 DEF vars
  <1> QED
    BY <1>3, <1>6, <1>7, <1>8 DEF Next

LEMMA TypesStep == Types /\ [Next]_vars => Types'
  <1> SUFFICES ASSUME Types, [Next]_vars PROVE Types'
    OBVIOUS
  <1>1. /\ SessionTypes' /\ TerminalTypes' /\ CallTypes' /\ KeysLeft'
        /\ PollingTypes' /\ GhostTypes' /\ EventTypes'
    BY SessionTypesStep, TerminalTypesStep, CallTypesStep, PollingTypesStep, GhostTypesStep
  <1>2. TypeOK'
    BY <1>1 DEF TypeOK, SessionTypes, TerminalTypes, CallTypes, PollingTypes, GhostTypes, EventTypes
  <1> QED
    BY <1>1, <1>2 DEF Types

\* Every value the variables take is of its type: no wait goes on after its last
\* poll, no key is sent after the last, and there is no third attempt
\* (ResumeInPlace, awaitResumed, answerDialog).
THEOREM WakeTypeOK == Spec => []TypeOK
  BY TypesInit, TypesStep, PTL DEF Spec, Types

-----------------------------------------------------------------------------
(* The worker of a call that failed.                                        *)

\* Where a call has no worker of its own.
Without == {"idle", "dispatch", "refused", "failed"}

\* Only a worker has somebody who started it; a call has none yet, or any more,
\* before a dispatch, after it gave up, and when it has failed.
Owned ==
  /\ worker = "none" => by = Nobody
  /\ \A c \in Callers : pc[c] \in Without => by # c

LEMMA OwnedInit == Init => Owned
  BY CallersAssumption DEF Init, Owned

LEMMA OwnedStep == Types /\ Owned /\ [Next]_vars => Owned'
  <1> SUFFICES ASSUME Types, Owned, [Next]_vars PROVE Owned'
    OBVIOUS
  <1> USE CallersAssumption
  <1>1. pc \in [Callers -> PCs]
    BY DEF Types, TypeOK
  <1>2. ASSUME NEW c \in Callers, NEW l, Goto(c, l), by # c \/ l \notin Without,
               UNCHANGED <<worker, by>>
        PROVE  Owned'
    BY <1>1, <1>2 DEF Goto, Owned
  <1>3. ASSUME NEW c \in Callers, Retry(c), by' # c,
               worker' = "none" => by' = Nobody, by' \in {by, Nobody}
        PROVE  Owned'
    BY <1>1, <1>3 DEF Retry, Goto, End, Leave, Owned
  <1>4. ASSUME NEW c \in Callers, AsIs(c) \/ Wake(c) \/ Step(c)
        PROVE  Owned'
    <2>1. CASE AsIs(c)
      BY <1>2, <2>1 DEF AsIs, End, Leave, session, Without
    <2>2. CASE Wake(c)
      BY <1>2, <2>2 DEF Wake, session, Owned, Without
    <2>3. CASE CannotStart(c)
      BY <1>2, <2>3 DEF CannotStart, End, Leave, session, Owned, Without
    <2>4. CASE Refused(c)
      BY <1>3, <2>4 DEF Refused, session, Owned, Without
    <2>5. CASE Dispatch(c)
      BY <1>1, <2>5 DEF Dispatch, Spawn, Start, Goto, session, Owned, Without
    <2>6. CASE DispatchLost(c)
      BY <1>3, <2>6 DEF DispatchLost, Spawn, Owned, Without
    <2>7. CASE GiveUp(c)
      BY <1>3, <2>7 DEF GiveUp, Stops, Found, Owned
    <2>8. CASE StopFails(c)
      BY <1>3, <2>8 DEF StopFails, Owned
    <2>9. CASE Blocked(c) \/ CannotAnswer(c) \/ Finish(c)
      BY <1>2, <2>9 DEF Blocked, CannotAnswer, Finish, End, Leave, session, Without
    <2>10. CASE Wait(c)
      BY <1>2, <2>10 DEF Wait, End, Leave, session, Owned, Without
    <2>11. CASE PollFailed(c) \/ Settled(c) \/ Deadline(c) \/ Arrives(c) \/ NoDialog(c)
                \/ Recognise(c) \/ Enter(c) \/ Cleared(c) \/ Prompt(c)
      BY <1>2, <2>11
      DEF PollFailed, Settled, Deadline, Arrives, NoDialog, Recognise, Enter, Cleared, Prompt,
          Start, Leave, session, Without
    <2>12. CASE Poll(c)
      BY <2>12 DEF Poll, session, Owned
    <2>13. CASE ReadDialog(c)
      BY <1>2, <2>13 DEF ReadDialog, NextKey, session, Without
    <2>14. CASE Arrow(c)
      BY <1>2, <2>14 DEF Arrow, AfterArrow, session, Without
    <2> QED
      BY <1>4, <2>1, <2>2, <2>3, <2>4, <2>5, <2>6, <2>7, <2>8, <2>9, <2>10, <2>11, <2>12, <2>13,
         <2>14 DEF Step
  <1>5. CASE Boot \/ Draw \/ Crash \/ OtherDialog \/ Person
    BY <1>5 DEF Boot, Draw, Crash, OtherDialog, Person, session, call, Owned
  <1>6. CASE UNCHANGED vars
    BY <1>6 DEF vars, session, call, Owned
  <1> QED
    BY <1>4, <1>5, <1>6 DEF Next

\* A call that gave up on the resume leaves no worker it started behind, however
\* its steps, the crashes and the other calls fall (ResumeInPlace, ResumeByCLI).
THEOREM WakeNoOrphan == Spec => []NoOrphan
  <1>1. Owned => NoOrphan
    BY DEF Owned, NoOrphan, Without
  <1> QED
    BY <1>1, TypesInit, TypesStep, OwnedInit, OwnedStep, PTL DEF Spec

-----------------------------------------------------------------------------
(* What a call knows of the dialog it answers.                              *)

Heeds(c) ==
  /\ Answering(c) => choice[c] \in {"keep", "compact"}
  /\ Answering(c) /\ ~swapped[c] => screen = "resume"
  /\ pc[c] = "enter" /\ ~stirred[c] /\ screen \in Dialogs => highlight = Target(c)

\* A call answers with what it was asked for, the dialog is the one it recognised
\* unless somebody replaced it, and the highlight it presses Enter on is the one it
\* read unless somebody got at the screen.
Heeding == \A c \in Callers : Heeds(c)

LEMMA HeedingInit == Init => Heeding
  BY DEF Init, Heeding, Heeds, Answering

\* The option that is looked for has the effect that was asked for.
LEMMA TargetAnswers ==
  ASSUME NEW c \in Callers, choice[c] \in {"keep", "compact"}
  PROVE  Answers[Target(c)] = choice[c]
  <1>1. \E n \in 1..3 : Answers[n] = choice[c]
    <2>1. Answers[1] = "compact" /\ Answers[2] = "keep"
      BY DEF Answers
    <2> QED
      BY <2>1
  <1> QED
    BY <1>1 DEF Target

\* A call that is not about to send a key knows of no dialog.
LEMMA HeedsElsewhere ==
  ASSUME NEW c \in Callers, ~Answering(c)
  PROVE  Heeds(c)
  BY DEF Heeds, Answering

\* What other steps do not touch, a call still knows.
LEMMA HeedsKept ==
  ASSUME NEW c \in Callers, Heeds(c), UNCHANGED <<pc[c], choice[c], swapped[c], stirred[c], screen, highlight>>
  PROVE  Heeds(c)'
  BY DEF Heeds, Answering, Target

\* Whoever replaces the dialog, or moves its highlight, is noticed.
LEMMA HeedsSwapped ==
  ASSUME Types, NEW c \in Callers, NEW d, c # d, Heeds(c), UNCHANGED <<pc[c], choice[c]>>,
         Stir(d), Swap(d)
  PROVE  Heeds(c)'
  BY DEF Heeds, Answering, Stir, Swap, Types, TypeOK

LEMMA HeedsStirred ==
  ASSUME Types, NEW c \in Callers, NEW d, c # d, Heeds(c), UNCHANGED <<pc[c], choice[c], swapped[c]>>,
         Stir(d), screen = "resume" => screen' = "resume"
  PROVE  Heeds(c)'
  BY DEF Heeds, Answering, Stir, Types, TypeOK

LEMMA HeedingStep == Types /\ Heeding /\ [Next]_vars => Heeding'
  <1> SUFFICES ASSUME Types, Heeding, [Next]_vars, NEW c \in Callers PROVE Heeds(c)'
    BY DEF Heeding
  <1>1. /\ pc \in [Callers -> PCs] /\ choice \in [Callers -> Choices]
        /\ stirred \in [Callers -> BOOLEAN] /\ swapped \in [Callers -> BOOLEAN]
        /\ highlight \in 1..3
    BY DEF Types, TypeOK
  <1>2. Heeds(c)
    BY DEF Heeding
  <1>3. ASSUME NEW d \in Callers, d # c, AsIs(d) \/ Wake(d) \/ Step(d)
        PROVE  Heeds(c)'
    <2>1. UNCHANGED <<pc[c], choice[c]>>
      BY <1>1, <1>3
      DEF AsIs, Wake, Step, CannotStart, Refused, Dispatch, DispatchLost, PollFailed, Settled, Poll,
          Deadline, GiveUp, StopFails, Arrives, NoDialog, Blocked, Recognise, ReadDialog,
          CannotAnswer, Arrow, Enter, Cleared, Prompt, Wait, Finish, Retry, Goto, Start, Leave, End
    <2>2. CASE UNCHANGED <<screen, highlight, swapped[c], stirred[c]>>
      BY <1>2, <2>1, <2>2, HeedsKept
    <2>3. CASE Stir(Nobody) /\ Swap(Nobody)
      BY <1>2, <2>1, <2>3, HeedsSwapped, CallersAssumption
    <2>4. CASE Dispatch(d) \/ DispatchLost(d) \/ GiveUp(d)
      BY <2>2, <2>3, <2>4 DEF Dispatch, DispatchLost, GiveUp, Spawn, terminal, ghosts
    <2>5. CASE ReadDialog(d)
      BY <1>1, <1>3, <2>2, <2>5 DEF ReadDialog, terminal
    <2>6. CASE Arrow(d)
      <3>1. CASE UNCHANGED <<terminal, stirred>>
        BY <2>2, <2>6, <3>1 DEF Arrow, terminal
      <3>2. CASE Stir(d) /\ UNCHANGED screen
        BY <1>2, <1>3, <2>1, <2>6, <3>2, HeedsStirred DEF Arrow
      <3> QED
        BY <2>6, <3>1, <3>2 DEF Arrow
    <2>7. CASE Enter(d)
      <3>1. CASE UNCHANGED terminal /\ Unheed(d)
        BY <1>1, <1>3, <2>2, <3>1 DEF Unheed, terminal
      <3>2. CASE /\ stirred' = [e \in Callers |-> e # d /\ Answering(e)]
                 /\ swapped' = [e \in Callers |-> e # d /\ Answering(e)]
        BY <1>3, <1>2, <2>1, <3>2 DEF Heeds, Answering
      <3> QED
        BY <2>7, <3>1, <3>2 DEF Enter
    <2>8. CASE CannotAnswer(d)
      BY <1>1, <1>3, <2>2, <2>8 DEF CannotAnswer, Unheed, terminal
    <2> QED
      BY <1>3, <2>2, <2>4, <2>5, <2>6, <2>7, <2>8
      DEF AsIs, Wake, Step, CannotStart, Refused, PollFailed, Settled, Poll, Deadline, StopFails,
          Arrives, NoDialog, Blocked, Recognise, Cleared, Prompt, Wait, Finish, terminal, ghosts
  <1>4. ASSUME AsIs(c) \/ Wake(c) \/ Step(c)
        PROVE  Heeds(c)'
    <2>1. CASE Recognise(c)
      BY <1>1, <2>1 DEF Recognise, Start, Goto, Heeds, Answering, Answerable, Choices, terminal, ghosts
    <2>2. CASE ReadDialog(c)
      BY <1>1, <1>2, <2>2
      DEF ReadDialog, NextKey, Goto, Heeds, Answering, Target, terminal
    <2>3. CASE Arrow(c)
      <3>1. pc'[c] = "answer"
        BY <1>1, <2>3 DEF Arrow, AfterArrow, Goto
      <3> QED
        BY <1>1, <1>2, <2>3, <3>1 DEF Arrow, Heeds, Answering, terminal
    <2>4. CASE Poll(c)
      BY <1>2, <2>4, HeedsKept DEF Poll, terminal, ghosts
    <2>5. CASE ~Recognise(c) /\ ~ReadDialog(c) /\ ~Arrow(c) /\ ~Poll(c)
      <3>1. ~Answering(c)'
        BY <1>1, <1>4, <2>5
        DEF AsIs, Wake, Step, CannotStart, Refused, Dispatch, DispatchLost, PollFailed, Settled,
            Deadline, GiveUp, StopFails, Arrives, NoDialog, Blocked, CannotAnswer, Enter, Cleared,
            Prompt, Wait, Finish, Retry, Goto, Start, Leave, End, Answering, Waits
      <3> QED
        BY <3>1 DEF Heeds, Answering
    <2> QED
      BY <2>1, <2>2, <2>3, <2>4, <2>5
  <1>5. CASE Boot \/ Draw \/ Crash \/ OtherDialog \/ Person
    <2>1. UNCHANGED <<pc[c], choice[c]>>
      BY <1>5 DEF Boot, Draw, Crash, OtherDialog, Person, call
    <2>2. CASE Boot
      BY <1>2, <2>1, <2>2, HeedsKept DEF Boot, terminal, ghosts
    <2>3. CASE Draw
      <3>1. screen # "resume" /\ Stir(Nobody) /\ swapped' = swapped
        BY <2>3 DEF Draw
      <3> QED
        BY <1>2, <2>1, <3>1, HeedsStirred, CallersAssumption
    <2>4. CASE Crash \/ OtherDialog
      BY <1>2, <2>1, <2>4, HeedsSwapped, CallersAssumption DEF Crash, OtherDialog
    <2>5. CASE Person
      <3>1. CASE Swap(Nobody)
        BY <1>2, <2>1, <2>5, <3>1, HeedsSwapped, CallersAssumption DEF Person
      <3>2. CASE UNCHANGED <<screen, swapped>>
        BY <1>2, <2>1, <2>5, <3>2, HeedsStirred, CallersAssumption DEF Person
      <3> QED
        BY <2>5, <3>1, <3>2 DEF Person
    <2> QED
      BY <1>5, <2>2, <2>3, <2>4, <2>5
  <1>6. CASE UNCHANGED vars
    BY <1>2, <1>6, HeedsKept DEF vars, terminal, ghosts, call
  <1> QED
    BY <1>3, <1>4, <1>5, <1>6 DEF Next

\* The Enter of a call gives the resume dialog the answer that was asked for, unless
\* somebody else got at the screen since the call read it (answerDialog).
THEOREM WakeAnsweredAsAsked == Spec => AnsweredAsAsked
  <1>1. ASSUME Heeding, NEW c \in Callers, Enter(c), screen = "resume", screen' # screen, ~stirred[c]
        PROVE  answer' = choice[c]
    <2>1. answer' = Answers[highlight]
      BY <1>1 DEF Enter, Confirms, terminal
    <2>2. highlight = Target(c) /\ choice[c] \in {"keep", "compact"}
      BY <1>1 DEF Heeding, Heeds, Enter, Answering, Dialogs
    <2> QED
      BY <2>1, <2>2, TargetAnswers
  <1>2. Heeding => (\A c \in Callers : Enter(c) /\ screen = "resume" /\ screen' # screen /\ ~stirred[c]
                      => answer' = choice[c])
    BY <1>1
  <1> QED
    BY <1>2, TypesInit, TypesStep, HeedingInit, HeedingStep, PTL DEF Spec, AnsweredAsAsked

\* The Enter of a call confirms no dialog that was not recognised, unless that one
\* came up in the place of one that was (SettleResumeDialog, answerDialog).
THEOREM WakeUnknownIsLeftAlone == Spec => UnknownIsLeftAlone
  <1>1. Heeding => (\A c \in Callers : Enter(c) /\ screen = "other" /\ screen' # screen => swapped[c])
    BY DEF Heeding, Heeds, Enter, Answering
  <1> QED
    BY <1>1, TypesInit, TypesStep, HeedingInit, HeedingStep, PTL DEF Spec, UnknownIsLeftAlone

-----------------------------------------------------------------------------
(* A call of EnsureLive runs out of steps. *)

Resuming == {"dispatch", "await", "stop"}

\* What is left is what the place allows, and a resume is at its first or second attempt.
Allowed(c) ==
  /\ left[c] \in Nat
  /\ pc[c] \in Waits => left[c] <= MaxPolls
  /\ Answering(c) => left[c] <= MaxKeys
  /\ pc[c] \in Resuming => attempt[c] \in {1, 2}

AllAllowed == \A c \in Callers : Allowed(c)

\* What the second attempt of a resume takes, as long as it may come.
SecondAttempt(c) == IF attempt[c] = 1 THEN MaxPolls + 3 ELSE 0

\* The steps after Enter, of an answer to the dialog, and of all that follows a resume.
ClearSteps == 2 * MaxPolls + 4
AnswerSteps == ClearSteps + 2 * MaxKeys + 2
UpSteps == AnswerSteps + MaxPolls + 2

\* The most steps a call can still take.
StepsLeft(c) ==
  CASE pc[c] = "dispatch"       -> UpSteps + SecondAttempt(c) + MaxPolls + 2
    [] pc[c] = "await"          -> UpSteps + SecondAttempt(c) + left[c] + 1
    [] pc[c] = "stop"           -> UpSteps + SecondAttempt(c)
    [] pc[c] = "interactive"    -> AnswerSteps + left[c] + 1
    [] pc[c] = "settle"         -> AnswerSteps
    [] pc[c] = "answer"         -> ClearSteps + 2 * left[c] + 1
    [] pc[c] \in {"up", "down"} -> ClearSteps + 2 * left[c]
    [] pc[c] = "enter"          -> ClearSteps
    [] pc[c] = "clear"          -> MaxPolls + 3 + left[c]
    [] pc[c] = "ready"          -> left[c] + 2
    [] pc[c] = "final"          -> 1
    [] OTHER                    -> 0

\* The same, place by place.
StepsAtPlace(c) ==
  /\ pc[c] = "dispatch" => StepsLeft(c) = UpSteps + SecondAttempt(c) + MaxPolls + 2
  /\ pc[c] = "await" => StepsLeft(c) = UpSteps + SecondAttempt(c) + left[c] + 1
  /\ pc[c] = "stop" => StepsLeft(c) = UpSteps + SecondAttempt(c)
  /\ pc[c] = "interactive" => StepsLeft(c) = AnswerSteps + left[c] + 1
  /\ pc[c] = "settle" => StepsLeft(c) = AnswerSteps
  /\ pc[c] = "answer" => StepsLeft(c) = ClearSteps + 2 * left[c] + 1
  /\ pc[c] \in {"up", "down"} => StepsLeft(c) = ClearSteps + 2 * left[c]
  /\ pc[c] = "enter" => StepsLeft(c) = ClearSteps
  /\ pc[c] = "clear" => StepsLeft(c) = MaxPolls + 3 + left[c]
  /\ pc[c] = "ready" => StepsLeft(c) = left[c] + 2
  /\ pc[c] = "final" => StepsLeft(c) = 1
  /\ pc[c] \in {"idle"} \cup Ended => StepsLeft(c) = 0

StepsByPlace == \A c \in Callers : StepsAtPlace(c)

LEMMA StepsOfPlaces == StepsByPlace
  <1> SUFFICES ASSUME NEW c \in Callers PROVE StepsAtPlace(c)
    BY Zenon DEF StepsByPlace
  <1> QED
    BY DEF StepsAtPlace, StepsLeft, Ended

\* What a step of a call does to where the call is.
Onward(c) ==
  \/ pc[c] \in Resuming /\ pc'[c] \in Ended
  \/ /\ pc[c] \in {"dispatch", "stop"} /\ pc'[c] = "dispatch"
     /\ attempt[c] = 1 /\ attempt'[c] = 2 /\ left'[c] = left[c]
  \/ pc[c] = "dispatch" /\ pc'[c] = "await" /\ left'[c] = MaxPolls /\ attempt'[c] = attempt[c]
  \/ pc[c] = "await" /\ pc'[c] = "stop" /\ left'[c] = 0 /\ attempt'[c] = attempt[c]
  \/ pc[c] = "await" /\ pc'[c] = "interactive" /\ left'[c] = MaxPolls
  \/ /\ pc[c] \in Waits /\ pc'[c] = pc[c] /\ left[c] > 0 /\ left'[c] = left[c] - 1
     /\ attempt'[c] = attempt[c]
  \/ pc[c] = "interactive" /\ pc'[c] = "settle" /\ left'[c] = 0
  \/ pc[c] = "settle" /\ pc'[c] = "answer" /\ left'[c] = MaxKeys
  \/ pc[c] = "answer" /\ pc'[c] \in {"up", "down", "enter"} /\ left[c] > 0 /\ left'[c] = left[c]
  \/ pc[c] \in {"up", "down"} /\ pc'[c] = "answer" /\ left'[c] = left[c] - 1
  \/ pc[c] = "enter" /\ pc'[c] = "clear" /\ left'[c] = MaxPolls
  \/ pc[c] = "clear" /\ pc'[c] = "ready" /\ left'[c] = MaxPolls
  \/ pc[c] \in {"settle", "ready"} /\ pc'[c] = "final" /\ left'[c] \in {0, left[c]}
  \/ (pc[c] \in {"settle", "final"} \cup Waits \/ Answering(c)) /\ pc'[c] \in Ended

LEMMA StepsGoOnward ==
  ASSUME Types, AllAllowed, NEW c \in Callers, Step(c)
  PROVE  Onward(c)
  <1> USE DEF Types, TypeOK, Onward, Goto, Start, Leave, End, Waits, Ended, Resuming, Answering
  <1>1. Retry(c) /\ pc[c] \in {"dispatch", "stop"} => Onward(c)
    BY DEF Retry, AllAllowed, Allowed
  <1>2. CASE CannotStart(c) \/ Refused(c) \/ DispatchLost(c) \/ GiveUp(c) \/ StopFails(c)
    BY <1>1, <1>2 DEF CannotStart, Refused, DispatchLost, GiveUp, StopFails
  <1>3. CASE Dispatch(c) \/ PollFailed(c) \/ Settled(c) \/ Deadline(c)
    BY <1>3 DEF Dispatch, PollFailed, Settled, Deadline
  <1>4. CASE Poll(c)
    BY <1>4 DEF Poll
  <1>5. CASE Arrives(c) \/ NoDialog(c) \/ Blocked(c) \/ Recognise(c)
    BY <1>5 DEF Arrives, NoDialog, Blocked, Recognise
  <1>6. CASE ReadDialog(c)
    BY <1>6 DEF ReadDialog, NextKey
  <1>7. CASE CannotAnswer(c) \/ Enter(c)
    BY <1>7 DEF CannotAnswer, Enter
  <1>8. CASE Arrow(c)
    BY <1>8 DEF Arrow, AfterArrow
  <1>9. CASE Cleared(c) \/ Prompt(c) \/ Finish(c)
    BY <1>9 DEF Cleared, Prompt, Finish
  <1>10. CASE Wait(c)
    BY <1>10 DEF Wait
  <1> QED
    BY <1>2, <1>3, <1>4, <1>5, <1>6, <1>7, <1>8, <1>9, <1>10 DEF Step

\* Everybody else leaves a call where it is.
LEMMA OthersStayAway ==
  ASSUME Types, [Next]_vars, NEW c \in Callers, ~(AsIs(c) \/ Wake(c) \/ Step(c))
  PROVE  pc'[c] = pc[c] /\ left'[c] = left[c] /\ attempt'[c] = attempt[c]
  <1> USE DEF Types, TypeOK, Goto, Start, Leave, End
  <1>1. ASSUME NEW d \in Callers, d # c, AsIs(d) \/ Wake(d) \/ Step(d)
        PROVE  pc'[c] = pc[c] /\ left'[c] = left[c] /\ attempt'[c] = attempt[c]
    <2>1. Retry(d) => pc'[c] = pc[c] /\ left'[c] = left[c] /\ attempt'[c] = attempt[c]
      BY <1>1 DEF Retry
    <2>2. CASE AsIs(d) \/ Wake(d) \/ CannotStart(d) \/ Refused(d) \/ DispatchLost(d) \/ GiveUp(d)
               \/ StopFails(d)
      BY <1>1, <2>1, <2>2 DEF AsIs, Wake, CannotStart, Refused, DispatchLost, GiveUp, StopFails
    <2>3. CASE Dispatch(d) \/ PollFailed(d) \/ Settled(d) \/ Poll(d) \/ Deadline(d)
      BY <1>1, <2>3 DEF Dispatch, PollFailed, Settled, Poll, Deadline
    <2>4. CASE Arrives(d) \/ NoDialog(d) \/ Blocked(d) \/ Recognise(d) \/ ReadDialog(d)
      BY <1>1, <2>4 DEF Arrives, NoDialog, Blocked, Recognise, ReadDialog
    <2>5. CASE CannotAnswer(d) \/ Enter(d) \/ Arrow(d)
      BY <1>1, <2>5 DEF CannotAnswer, Enter, Arrow
    <2>6. CASE Cleared(d) \/ Prompt(d) \/ Wait(d) \/ Finish(d)
      BY <1>1, <2>6 DEF Cleared, Prompt, Wait, Finish
    <2> QED
      BY <1>1, <2>2, <2>3, <2>4, <2>5, <2>6 DEF Step
  <1>2. CASE Boot \/ Draw \/ Crash \/ OtherDialog \/ Person
    BY <1>2 DEF Boot, Draw, Crash, OtherDialog, Person, call
  <1>3. CASE UNCHANGED vars
    BY <1>3 DEF vars, call
  <1> QED
    BY <1>1, <1>2, <1>3 DEF Next

LEMMA AllowedStep == Types /\ AllAllowed /\ [Next]_vars => AllAllowed'
  <1> SUFFICES ASSUME Types, AllAllowed, [Next]_vars PROVE AllAllowed'
    OBVIOUS
  <1>1. ASSUME NEW c \in Callers
        PROVE  Allowed(c)'
    <2>1. Allowed(c) /\ pc[c] \in PCs /\ MaxPolls \in Nat /\ MaxKeys \in Nat
      BY WakeBounds DEF AllAllowed, Types, TypeOK
    <2>2. CASE AsIs(c) \/ Wake(c)
      BY <2>1, <2>2
      DEF AsIs, Wake, Goto, End, Leave, Allowed, Answering, Types, TypeOK, Waits, Ended, Resuming
    <2>3. CASE Step(c)
      <3>1. Onward(c)
        BY <2>3, StepsGoOnward
      <3> USE <2>1, <3>1 DEF Onward, Allowed, Answering, Waits, Ended, Resuming
      <3>2. left'[c] \in Nat
        BY <2>1, TypesStep DEF Types, TypeOK
      <3> QED
        BY <2>1, <3>1, <3>2 DEF Onward, Allowed, Answering, Waits, Ended, Resuming
    <2>4. CASE ~(AsIs(c) \/ Wake(c) \/ Step(c))
      BY <2>1, <2>4, OthersStayAway DEF Allowed, Answering
    <2> QED
      BY <2>2, <2>3, <2>4
  <1> QED
    BY <1>1, Zenon DEF AllAllowed

\* A call that is under way has steps to go, and no more than those of two attempts and
\* what follows a resume; a call that is over has none.
Limited(c) ==
  /\ StepsLeft(c) \in 0..(UpSteps + 2 * MaxPolls + 5)
  /\ StepsLeft(c) = 0 <=> pc[c] \in {"idle"} \cup Ended

InLimits == \A c \in Callers : Limited(c)

LEMMA StepsInLimits == Types /\ AllAllowed => InLimits
  <1> SUFFICES ASSUME Types, AllAllowed, NEW c \in Callers PROVE Limited(c)
    BY Zenon DEF InLimits
  <1>1. Allowed(c) /\ StepsAtPlace(c) /\ pc[c] \in PCs /\ MaxPolls \in Nat /\ MaxKeys \in Nat
    BY WakeBounds, StepsOfPlaces DEF AllAllowed, Types, TypeOK, StepsByPlace
  <1> USE <1>1 DEF Limited, Allowed, StepsAtPlace, SecondAttempt, ClearSteps, AnswerSteps, UpSteps
  <1>2. CASE pc[c] \in Resuming
    BY <1>2 DEF Resuming, Waits, Ended
  <1>3. CASE pc[c] \in {"interactive", "clear", "ready"}
    BY <1>3 DEF Waits, Ended
  <1>4. CASE Answering(c)
    BY <1>4 DEF Answering, Ended
  <1>5. CASE pc[c] \in {"settle", "final", "idle"} \cup Ended
    BY <1>5 DEF Ended
  <1> QED
    BY <1>2, <1>3, <1>4, <1>5 DEF PCs, Waits, Resuming, Answering

\* A step of a call is one less to go.
LEMMA StepLeavesLess ==
  ASSUME Types, AllAllowed, NEW c \in Callers, Step(c)
  PROVE  StepsLeft(c)' < StepsLeft(c)
  <1>1. /\ Allowed(c) /\ pc[c] \in PCs /\ pc'[c] = pc[c]' /\ left'[c] = left[c]' /\ attempt'[c] = attempt[c]'
        /\ MaxPolls \in Nat /\ MaxKeys \in Nat
    BY WakeBounds DEF AllAllowed, Types, TypeOK
  <1>2. StepsAtPlace(c) /\ StepsAtPlace(c)'
    <2>1. StepsByPlace /\ StepsByPlace'
      BY StepsOfPlaces, PTL
    <2> QED
      BY <2>1, Zenon DEF StepsByPlace
  <1>3. Onward(c)
    BY StepsGoOnward
  <1> QED
    BY <1>1, <1>2, <1>3
    DEF Onward, Allowed, Answering, StepsAtPlace, SecondAttempt, ClearSteps, AnswerSteps, UpSteps,
        Waits, Ended, Resuming

\* Each step of a call is one less to go, and no step of anybody else, another call, the
\* worker or a person, gives it one more.
RunsOut ==
  [][\A c \in Callers :
       /\ Step(c) => StepsLeft(c)' < StepsLeft(c)
       /\ ~Wake(c) => StepsLeft(c)' <= StepsLeft(c)]_vars

\* EnsureLive takes no more steps than two attempts, the polls of its waits and the keys of
\* an answer have, and is then over, whatever the worker, a person and other calls do
\* (awaitResumed, waitDialogCleared, dialogNavSteps).
THEOREM WakeCallsRunOut == Spec => []InLimits /\ RunsOut
  <1>1. Init => AllAllowed
    <2> SUFFICES ASSUME Init, NEW c \in Callers PROVE Allowed(c)
      BY Zenon DEF AllAllowed
    <2>1. pc[c] = "idle" /\ left[c] = 0
      BY DEF Init
    <2> QED
      BY <2>1 DEF Allowed, Waits, Answering, Resuming
  <1>2. ASSUME Types, AllAllowed, [Next]_vars, NEW c \in Callers
        PROVE  /\ Step(c) => StepsLeft(c)' < StepsLeft(c)
               /\ ~Wake(c) => StepsLeft(c)' <= StepsLeft(c)
    <2>1. Types' /\ AllAllowed' => InLimits'
      BY StepsInLimits, PTL
    <2>2. StepsLeft(c) \in Nat /\ StepsLeft(c)' \in Nat
      BY <1>2, <2>1, StepsInLimits, TypesStep, AllowedStep DEF InLimits, Limited
    <2>3. CASE AsIs(c)
      <3>1. StepsByPlace'
        BY StepsOfPlaces, PTL
      <3>2. pc[c] = "idle" /\ pc[c]' \in Ended
        BY <1>2, <2>3 DEF AsIs, End, Leave, Goto, Ended, Types, TypeOK
      <3>3. StepsAtPlace(c)'
        BY <3>1, Zenon DEF StepsByPlace
      <3>4. StepsLeft(c)' = 0
        BY <3>2, <3>3 DEF StepsAtPlace
      <3>5. ~Step(c)
        BY <1>2, <3>2, StepsGoOnward DEF Onward, Resuming, Waits, Answering
      <3> QED
        BY <2>2, <3>4, <3>5
    <2>4. CASE ~(AsIs(c) \/ Wake(c) \/ Step(c))
      <3>1. pc'[c] = pc[c] /\ left'[c] = left[c] /\ attempt'[c] = attempt[c]
        BY <1>2, <2>4, OthersStayAway
      <3>2. StepsLeft(c)' = StepsLeft(c)
        BY <3>1 DEF StepsLeft, SecondAttempt
      <3> QED
        BY <2>2, <2>4, <3>2
    <2> QED
      BY <1>2, <2>2, <2>3, <2>4, StepLeavesLess
  <1>3. Types /\ AllAllowed /\ [Next]_vars =>
          [\A c \in Callers :
             /\ Step(c) => StepsLeft(c)' < StepsLeft(c)
             /\ ~Wake(c) => StepsLeft(c)' <= StepsLeft(c)]_vars
    BY <1>2
  <1> QED
    BY <1>1, <1>3, StepsInLimits, AllowedStep, TypesInit, TypesStep, PTL DEF Spec, RunsOut

-----------------------------------------------------------------------------
(***************************************************************************)
(* Permission.  Its constants and variables go by their names, except that *)
(* at is where a call is, and request what it was called with.             *)
(***************************************************************************)
CONSTANTS Modes, Bypass, DontAsk, After, MaxSteps, MaxAttempts, SettingsBypass, Edits
VARIABLES live, mode, capable, footer, flags, leaving, at, request, start, cur, steps, copy, result,
          alone, smooth

P == INSTANCE Permission WITH pc <- at, call <- request

\* What Permission assumes of its constants.
PermissionConstants ==
  /\ P!ModesAssumption /\ P!LimitsAssumption /\ P!LapAssumption
  /\ P!SettingsAssumption /\ P!EditsAssumption

ModeTypes ==
  /\ live \in BOOLEAN /\ mode \in Modes /\ capable \in BOOLEAN /\ footer \in Modes
  /\ flags \in P!Flags
  /\ leaving \in BOOLEAN
  /\ at \in P!PCs /\ request \in P!CallArgs /\ result \in P!Results
  /\ start \in Modes /\ cur \in Modes /\ copy \in P!Flags
  /\ alone \in BOOLEAN /\ smooth \in BOOLEAN

Walking == {"press", "read", "press.back", "read.back", "save"}

\* The counter counts keys in a walk and attempts in a restart.
Counted ==
  /\ steps \in Nat
  /\ at \in Walking => steps <= MaxSteps
  /\ at = "press" \/ (at = "press.back" /\ P!Astray) => steps < MaxSteps
  /\ at \in {"launch", "await"} => steps < MaxAttempts
  /\ at \notin Walking \cup {"launch", "await"} => steps = 0

\* The flags are those the call has written.
Written == flags = P!ApplyModeToFlags(request.target, request.allow)

\* What a call that nobody interferes with knows where.
Known ==
  /\ at \in {"look", "reach", "cycle.look", "press", "read", "save"} => live /\ ~leaving
  /\ at \in {"look", "reach", "cycle.look", "press", "save"} => footer = mode
  /\ at = "press" => cur = mode /\ cur # request.target
  /\ at = "read" => footer \in {cur, mode} /\ cur # request.target
  /\ at = "save" => mode = request.target
  /\ at \in {"save.offline", "save.stopped", "resume"} => ~live
  /\ at \in {"resume", "launch", "await"} => Written
  /\ at \in {"launch", "await"} => copy = flags
  /\ at = "await" \/ result = "restarted" =>
       live /\ ~leaving /\ mode = request.target /\ (request.allow => capable)
  /\ result \in {"switched", "restarted", "written"} => flags.mode = request.target
  /\ result \in {"switched", "unsaved"} => live /\ ~leaving /\ mode = request.target
  /\ result = "written" => ~live

Answered ==
  /\ result # "none" => at = "idle"
  /\ leaving => live

\* Inductive: in a walk the footer shows where the session is or, right after a
\* key, where it was; in a restart the flags are the call's own from the time the
\* worker has gone.
PermissionInv == ModeTypes /\ Counted /\ Answered /\ (alone => Known)

-----------------------------------------------------------------------------
\* A session at rest, and no call.
LEMMA PermissionInvInit ==
  ASSUME PermissionConstants
  PROVE  P!Init => PermissionInv
  <1> SUFFICES ASSUME P!Init PROVE PermissionInv
    OBVIOUS
  <1> USE DEF P!Init, P!NoMode, P!NoFlags
  <1>1. ModeTypes
    BY DEF PermissionConstants, P!ModesAssumption, ModeTypes, P!Flags, P!PCs, P!CallArgs, P!Results
  <1>2. Counted
    BY DEF PermissionConstants, P!LimitsAssumption, Counted, Walking, P!Astray
  <1>3. Answered
    BY DEF Answered
  <1>4. Known
    BY DEF Known
  <1> QED
    BY <1>1, <1>2, <1>3, <1>4 DEF PermissionInv

\* Shift+tab leads from a mode to a mode.
LEMMA NextModeIsMode == ASSUME PermissionConstants, mode \in Modes PROVE P!NextMode \in Modes
  BY DEF PermissionConstants, P!ModesAssumption, P!NextMode, P!Follows

\* Each step keeps the types.
LEMMA ModeTypesStep ==
  ASSUME PermissionConstants
  PROVE  PermissionInv /\ [P!Next]_(P!vars) => ModeTypes'
  <1> SUFFICES ASSUME PermissionInv, [P!Next]_(P!vars) PROVE ModeTypes'
    OBVIOUS
  <1>a. ModeTypes
    BY DEF PermissionInv
  <1>b. P!NoMode \in Modes /\ P!NoFlags \in P!Flags
    BY DEF PermissionConstants, P!ModesAssumption, P!NoMode, P!NoFlags, P!Flags
  <1>c. P!ApplyModeToFlags(request.target, request.allow) \in P!Flags
    BY <1>a DEF ModeTypes, P!CallArgs, P!ApplyModeToFlags, P!Flags
  <1>d. P!NextMode \in Modes
    BY <1>a, NextModeIsMode DEF ModeTypes
  <1> USE <1>a, <1>b DEF ModeTypes, P!PCs, P!Results, P!Goto, P!Return, P!ForgetWalk, P!Unreached,
    P!worker, P!walk
  <1>1. CASE P!Begin \/ P!Look \/ P!LookFails \/ P!Reach
    BY <1>1 DEF P!Begin, P!Look, P!LookFails, P!Reach
  <1>2. CASE P!Cycle
    BY <1>2, <1>d DEF P!Cycle, P!CycleLook, P!CycleLookFails, P!MayPress, P!Pressed, P!Press,
      P!PressSwallowed, P!PressFails,
      P!Seen, P!Arrive, P!Stuck, P!LapDone, P!WalkOn, P!TurnBack, P!Back, P!BackDone
  <1>3. CASE P!Save \/ P!SaveOffline
    BY <1>3, <1>c DEF P!Save, P!SaveOffline, P!SetFlags
  <1>4. CASE P!Restart
    <2>1. CASE P!Stop \/ P!WaitNotLive \/ P!SaveStopped \/ P!ReadFlags
      BY <1>c, <2>1 DEF P!Stop, P!ToldToStop, P!WaitNotLive, P!SaveStopped, P!SetFlags, P!ReadFlags
    <2>2. CASE P!Dispatch
      BY <2>2 DEF PermissionConstants, P!SettingsAssumption, P!Dispatch, P!LaunchWith, P!NextAttempt,
        P!BypassAvailableFromFlags, P!Flags
    <2>3. CASE P!DispatchRefused
      BY <2>3 DEF P!DispatchRefused, P!NextAttempt
    <2>4. CASE P!Await
      BY <2>4 DEF P!Await, P!ToldToStop, P!NextAttempt
    <2> QED
      BY <1>4, <2>1, <2>2, <2>3, <2>4 DEF P!Restart
  <1>5. CASE P!Repaint \/ P!WorkerGone
    BY <1>5 DEF P!Repaint, P!WorkerGone
  <1>6. CASE P!Others
    <2>1. CASE P!OthersPress \/ P!OthersStop
      BY <1>d, <2>1 DEF P!OthersPress, P!OthersStop, P!ToldToStop
    <2>2. CASE P!OthersWrite
      BY <2>2 DEF PermissionConstants, P!EditsAssumption, P!OthersWrite
    <2>3. CASE P!OthersResume
      BY <2>3 DEF PermissionConstants, P!SettingsAssumption, P!OthersResume, P!LaunchWith,
        P!BypassAvailableFromFlags, P!Flags
    <2> QED
      BY <1>6, <2>1, <2>2, <2>3 DEF P!Others
  <1>7. CASE UNCHANGED P!vars
    BY <1>7 DEF P!vars
  <1> QED
    BY <1>1, <1>2, <1>3, <1>4, <1>5, <1>6, <1>7 DEF P!Next, P!Step

\* Each step keeps the counter within its limits.
LEMMA CountedStep ==
  ASSUME PermissionConstants
  PROVE  PermissionInv /\ [P!Next]_(P!vars) => Counted'
  <1> SUFFICES ASSUME PermissionInv, [P!Next]_(P!vars) PROVE Counted'
    OBVIOUS
  <1>a. at \in P!PCs /\ Counted
    BY DEF PermissionInv, ModeTypes
  <1> USE <1>a DEF PermissionConstants, P!LimitsAssumption, P!PCs, Counted, Walking, P!Astray, P!Goto,
    P!Return, P!ForgetWalk, P!Unreached, P!worker, P!walk
  <1>1. CASE P!Begin \/ P!Look \/ P!LookFails \/ P!Reach
    BY <1>1 DEF P!Begin, P!Look, P!LookFails, P!Reach
  <1>2. CASE P!Cycle
    BY <1>2 DEF P!Cycle, P!CycleLook, P!CycleLookFails, P!MayPress, P!Pressed, P!Press, P!PressSwallowed,
      P!PressFails,
      P!Seen, P!Arrive, P!Stuck, P!LapDone, P!WalkOn, P!TurnBack, P!Back, P!BackDone
  <1>3. CASE P!Save \/ P!SaveOffline
    BY <1>3 DEF P!Save, P!SaveOffline
  <1>4. CASE P!Restart
    BY <1>4 DEF P!Restart, P!Stop, P!WaitNotLive, P!SaveStopped, P!ReadFlags, P!Dispatch,
      P!DispatchRefused, P!Await,
      P!ToldToStop, P!LaunchWith, P!NextAttempt
  <1>5. CASE P!Repaint \/ P!WorkerGone
    BY <1>5 DEF P!Repaint, P!WorkerGone
  <1>6. CASE P!Others
    BY <1>6 DEF P!Others, P!OthersPress, P!OthersWrite, P!OthersResume, P!OthersStop, P!LaunchWith,
      P!ToldToStop
  <1>7. CASE UNCHANGED P!vars
    BY <1>7 DEF P!vars
  <1> QED
    BY <1>1, <1>2, <1>3, <1>4, <1>5, <1>6, <1>7 DEF P!Next, P!Step

\* A call that is under way has not returned anything; a worker that leaves is there.
LEMMA AnsweredStep ==
  ASSUME PermissionConstants
  PROVE  PermissionInv /\ [P!Next]_(P!vars) => Answered'
  <1> SUFFICES ASSUME PermissionInv, [P!Next]_(P!vars) PROVE Answered'
    OBVIOUS
  <1>a. Answered /\ live \in BOOLEAN /\ leaving \in BOOLEAN
    BY DEF PermissionInv, ModeTypes
  <1> USE <1>a DEF Answered, P!Goto, P!Return, P!ForgetWalk, P!Unreached, P!worker, P!walk
  <1>1. CASE P!Begin \/ P!Look \/ P!LookFails \/ P!Reach
    BY <1>1 DEF P!Begin, P!Look, P!LookFails, P!Reach
  <1>2. CASE P!Cycle
    BY <1>2 DEF P!Cycle, P!CycleLook, P!CycleLookFails, P!MayPress, P!Pressed, P!Press, P!PressSwallowed,
      P!PressFails,
      P!Seen, P!Arrive, P!Stuck, P!WalkOn, P!TurnBack, P!Back, P!BackDone
  <1>3. CASE P!Save \/ P!SaveOffline
    BY <1>3 DEF P!Save, P!SaveOffline
  <1>4. CASE P!Restart
    BY <1>4 DEF P!Restart, P!Stop, P!WaitNotLive, P!SaveStopped, P!ReadFlags, P!Dispatch,
      P!DispatchRefused, P!Await,
      P!ToldToStop, P!LaunchWith, P!NextAttempt
  <1>5. CASE P!Repaint \/ P!WorkerGone
    BY <1>5 DEF P!Repaint, P!WorkerGone
  <1>6. CASE P!Others
    BY <1>6 DEF P!Others, P!OthersPress, P!OthersWrite, P!OthersResume, P!OthersStop, P!LaunchWith,
      P!ToldToStop
  <1>7. CASE UNCHANGED P!vars
    BY <1>7 DEF P!vars
  <1> QED
    BY <1>1, <1>2, <1>3, <1>4, <1>5, <1>6, <1>7 DEF P!Next, P!Step

\* What a call knows stays true as long as it is alone.
LEMMA KnownStep ==
  ASSUME PermissionConstants
  PROVE  PermissionInv /\ [P!Next]_(P!vars) => (alone' => Known')
  <1> SUFFICES ASSUME PermissionInv, [P!Next]_(P!vars), alone' PROVE Known'
    OBVIOUS
  <1>a. ModeTypes /\ Answered /\ (alone => Known)
    BY DEF PermissionInv
  <1> USE <1>a DEF ModeTypes, Known, Answered, Written, P!Goto, P!Return, P!ForgetWalk, P!Unreached,
    P!worker, P!walk
  <1>1. CASE P!Begin
    BY <1>1 DEF P!Begin
  <1>2. CASE P!Look
    BY <1>2 DEF P!Look
  <1>3. CASE P!LookFails
    BY <1>3 DEF P!LookFails
  <1>4. CASE P!Reach
    BY <1>4 DEF P!Reach
  <1>5. CASE P!CycleLook
    BY <1>5 DEF P!CycleLook
  <1>6. CASE P!CycleLookFails
    BY <1>6 DEF P!CycleLookFails
  <1>7. CASE P!Press
    BY <1>7 DEF P!Press, P!MayPress, P!Pressed
  <1>8. CASE P!PressSwallowed
    BY <1>8 DEF P!PressSwallowed, P!MayPress, P!Pressed
  <1>9. CASE P!PressFails
    BY <1>9 DEF P!PressFails, P!MayPress
  <1>10. CASE P!Arrive
    BY <1>10 DEF P!Arrive, P!Seen
  <1>11. CASE P!Stuck
    BY <1>11 DEF P!Stuck
  <1>12. CASE P!WalkOn
    BY <1>12 DEF P!WalkOn, P!Seen
  <1>13. CASE P!TurnBack
    BY <1>13 DEF P!TurnBack, P!Seen
  <1>14. CASE P!Back
    BY <1>14 DEF P!Back, P!Seen
  <1>15. CASE P!BackDone
    BY <1>15 DEF P!BackDone
  <1>16. CASE P!Save
    BY <1>16 DEF P!Save, P!SetFlags, P!ApplyModeToFlags
  <1>17. CASE P!SaveOffline
    BY <1>17 DEF P!SaveOffline, P!SetFlags, P!ApplyModeToFlags
  <1>18. CASE P!Stop
    BY <1>18 DEF P!Stop, P!ToldToStop
  <1>19. CASE P!WaitNotLive
    BY <1>19 DEF P!WaitNotLive
  <1>20. CASE P!SaveStopped
    BY <1>20 DEF P!SaveStopped, P!SetFlags
  <1>21. CASE P!ReadFlags
    BY <1>21 DEF P!ReadFlags
  <1>22. CASE P!Dispatch
    BY <1>22 DEF PermissionConstants, P!SettingsAssumption, P!Dispatch, P!LaunchWith, P!NextAttempt,
      P!BypassAvailableFromFlags, P!ApplyModeToFlags, P!Flags
  <1>23. CASE P!DispatchRefused
    BY <1>23 DEF P!DispatchRefused, P!NextAttempt
  <1>24. CASE P!Await
    BY <1>24 DEF P!Await, P!ToldToStop, P!NextAttempt, P!ApplyModeToFlags
  <1>25. CASE P!Repaint
    BY <1>25 DEF P!Repaint
  <1>26. CASE P!WorkerGone
    BY <1>26 DEF P!WorkerGone
  <1>27. CASE P!OthersPress
    BY <1>27 DEF P!OthersPress
  <1>28. CASE P!OthersWrite
    BY <1>28 DEF P!OthersWrite
  <1>29. CASE P!OthersResume
    BY <1>29 DEF P!OthersResume, P!LaunchWith
  <1>30. CASE P!OthersStop
    BY <1>30 DEF P!OthersStop, P!ToldToStop
  <1>31. CASE UNCHANGED P!vars
    BY <1>31 DEF P!vars, P!worker, P!walk
  <1> QED
    BY <1>1, <1>2, <1>3, <1>4, <1>5, <1>6, <1>7, <1>8, <1>9, <1>10, <1>11, <1>12, <1>13, <1>14, <1>15, <1>16,
      <1>17, <1>18, <1>19, <1>20, <1>21, <1>22, <1>23, <1>24, <1>25, <1>26, <1>27, <1>28, <1>29, <1>30, <1>31
      DEF P!Next, P!Step, P!Cycle, P!Restart, P!Others

\* PermissionInv holds throughout.
LEMMA PermissionInvHolds ==
  ASSUME PermissionConstants
  PROVE  P!Spec => []PermissionInv
  <1>1. P!Init => PermissionInv
    BY PermissionInvInit
  <1>2. PermissionInv /\ [P!Next]_(P!vars) => PermissionInv'
    BY ModeTypesStep, CountedStep, AnsweredStep, KnownStep DEF PermissionInv
  <1> QED
    BY <1>1, <1>2, PTL DEF P!Spec

\* Every variable has its type; no walk presses more keys than a walk may, and no
\* restart makes more attempts.
THEOREM PermissionTypeOK ==
  ASSUME PermissionConstants
  PROVE  P!Spec => []P!TypeOK
  <1>1. PermissionInv => P!TypeOK
    <2> SUFFICES ASSUME PermissionInv PROVE P!TypeOK
      OBVIOUS
    <2>1. ModeTypes /\ Counted
      BY DEF PermissionInv
    <2>2. steps \in 0..(MaxSteps + MaxAttempts)
      BY <2>1 DEF PermissionConstants, P!LimitsAssumption, Counted, Walking
    <2> QED
      BY <2>1, <2>2 DEF ModeTypes, P!TypeOK
  <1> QED
    BY <1>1, PermissionInvHolds, PTL

\* Whatever keys get lost and however late the screen is, a mode a call reports is
\* the session's, and a respawn's, until somebody else touches it.
THEOREM PermissionSuccessIsTrue ==
  ASSUME PermissionConstants
  PROVE  P!Spec => []P!SuccessIsTrue
  <1>1. PermissionInv => P!SuccessIsTrue
    BY DEF PermissionInv, Known, P!SuccessIsTrue
  <1> QED
    BY <1>1, PermissionInvHolds, PTL

-----------------------------------------------------------------------------
(* A walk that leads nowhere. *)

\* A worker in bypass was launched capable of it.
Capable == live /\ mode = Bypass => capable

\* A walk in which no key is lost and no footer late has come as far as it has pressed
\* keys, on the lap from where it began, and not yet around it.
OnLap ==
  \E keys \in 1..MaxSteps : \E lap \in [0..keys -> Modes] :
    /\ P!IsLap(lap, keys, start, capable)
    /\ steps \in 0..keys /\ lap[steps] = mode
    /\ at = "press" => steps < keys

Walked ==
  /\ at \in {"press", "read"} /\ smooth /\ start # DontAsk => OnLap
  /\ at \in {"press.back", "read.back"} => live /\ ~leaving
  /\ at = "press.back" /\ smooth => cur = mode
  /\ at \in {"press.back", "read.back"} /\ smooth /\ start # DontAsk => at = "press.back" /\ cur = start

\* Inductive, with PermissionInv.
WalkInv == Capable /\ (alone => Walked)

LEMMA CapableStep ==
  ASSUME PermissionConstants
  PROVE  PermissionInv /\ Capable /\ [P!Next]_(P!vars) => Capable'
  <1> SUFFICES ASSUME PermissionInv, Capable, [P!Next]_(P!vars) PROVE Capable'
    OBVIOUS
  <1>1. mode \in Modes /\ After[mode] \in Modes /\ After[Bypass] # Bypass /\ live \in BOOLEAN
    BY DEF PermissionConstants, P!ModesAssumption, PermissionInv, ModeTypes
  <1>2. P!NextMode = Bypass => capable
    BY <1>1 DEF P!NextMode, P!Follows
  <1>3. CASE UNCHANGED P!worker
    BY <1>3 DEF Capable, P!worker
  <1>4. ASSUME NEW f, P!LaunchWith(f)
        PROVE  Capable'
    BY <1>4 DEF Capable, P!LaunchWith, P!BypassAvailableFromFlags
  <1>5. ASSUME P!ToldToStop
        PROVE  Capable'
    BY <1>5 DEF Capable, P!ToldToStop
  <1>6. CASE P!Press \/ P!OthersPress
    BY <1>2, <1>6 DEF P!Press, P!OthersPress, Capable
  <1>7. CASE P!WorkerGone \/ P!Repaint
    BY <1>7 DEF P!WorkerGone, P!Repaint, Capable
  <1>8. CASE P!Stop \/ P!Await \/ P!OthersStop
    BY <1>3, <1>5, <1>8 DEF P!Stop, P!Await, P!OthersStop
  <1>9. CASE P!Dispatch \/ P!OthersResume
    BY <1>4, <1>9 DEF P!Dispatch, P!OthersResume
  <1>10. CASE \/ P!Begin \/ P!Look \/ P!LookFails \/ P!Reach \/ P!CycleLook \/ P!CycleLookFails \/ P!PressSwallowed \/ P!PressFails
              \/ P!Arrive \/ P!Stuck \/ P!WalkOn \/ P!TurnBack \/ P!Back \/ P!BackDone \/ P!Save \/ P!SaveOffline
              \/ P!WaitNotLive \/ P!SaveStopped \/ P!ReadFlags \/ P!DispatchRefused \/ P!OthersWrite \/ UNCHANGED P!vars
    BY <1>3, <1>10
    DEF P!Begin, P!Look, P!LookFails, P!Reach, P!CycleLook, P!CycleLookFails, P!PressSwallowed,
      P!PressFails, P!Seen, P!Arrive,
      P!Stuck, P!WalkOn, P!TurnBack, P!Back, P!BackDone, P!Save, P!SaveOffline, P!WaitNotLive,
        P!SaveStopped, P!ReadFlags,
      P!DispatchRefused, P!OthersWrite, P!vars
  <1> QED
    BY <1>6, <1>7, <1>8, <1>9, <1>10 DEF P!Next, P!Step, P!Cycle, P!Restart, P!Others

LEMMA WalkedStep ==
  ASSUME PermissionConstants
  PROVE  PermissionInv /\ WalkInv /\ [P!Next]_(P!vars) => (alone' => Walked')
  <1> SUFFICES ASSUME PermissionInv, WalkInv, [P!Next]_(P!vars), alone' PROVE Walked'
    OBVIOUS
  <1> DEFINE Away == {"press", "read", "press.back", "read.back"}
  <1>1. ModeTypes /\ Counted /\ (alone => Known /\ Walked) /\ Capable
    BY DEF PermissionInv, WalkInv
  <1>2. CASE at' \notin Away
    BY <1>2 DEF Walked
  <1>3. CASE P!CycleLook /\ at' = "press"
    <2>1. live /\ footer = mode /\ capable \in BOOLEAN /\ mode \in Modes /\ alone
      BY <1>1, <1>3 DEF P!CycleLook, Known, ModeTypes
    <2>2. start' = mode /\ steps' = 0 /\ mode' = mode /\ capable' = capable
      BY <1>3, <2>1 DEF P!CycleLook, P!worker
    <2>3. mode # DontAsk =>
            \E keys \in 1..MaxSteps : \E lap \in [0..keys -> Modes] : P!IsLap(lap, keys, mode, capable)
      BY <1>1, <2>1 DEF PermissionConstants, P!LapAssumption, Capable
    <2>4. mode # DontAsk => OnLap'
      <3> SUFFICES ASSUME mode # DontAsk PROVE OnLap'
        OBVIOUS
      <3>1. PICK keys \in 1..MaxSteps : \E lap \in [0..keys -> Modes] : P!IsLap(lap, keys, mode, capable)
        BY <2>3
      <3>2. PICK lap \in [0..keys -> Modes] : P!IsLap(lap, keys, mode, capable)
        BY <3>1
      <3>3. lap[0] = mode
        BY <3>2 DEF P!IsLap
      <3>4. 0 \in 0..keys /\ 0 < keys
        BY DEF PermissionConstants, P!LimitsAssumption
      <3> QED
        BY <2>2, <3>2, <3>3, <3>4 DEF OnLap
    <2> QED
      BY <1>3, <2>2, <2>4 DEF Walked
  <1>4. CASE P!Press
    <2>1. live /\ alone /\ mode' = P!Follows(mode, capable) /\ UNCHANGED <<live, leaving, start, cur,
      smooth, capable>>
      BY <1>1, <1>4 DEF P!Press, P!NextMode
    <2>2. CASE at = "press"
      <3>1. at' = "read" /\ steps' = steps + 1
        BY <1>4, <2>2 DEF P!Press, P!Pressed, P!Goto
      <3>2. ASSUME OnLap
            PROVE  OnLap'
        <4>1. PICK keys \in 1..MaxSteps : \E lap \in [0..keys -> Modes] :
                /\ P!IsLap(lap, keys, start, capable)
                /\ steps \in 0..keys /\ lap[steps] = mode
                /\ steps < keys
          BY <2>2, <3>2 DEF OnLap
        <4>2. PICK lap \in [0..keys -> Modes] :
                /\ P!IsLap(lap, keys, start, capable)
                /\ steps \in 0..keys /\ lap[steps] = mode
                /\ steps < keys
          BY <4>1
        <4>3. keys \in Nat /\ steps + 1 \in 1..keys /\ (steps + 1) - 1 = steps
          BY <4>2 DEF PermissionConstants, P!LimitsAssumption
        <4>4. lap[steps + 1] = P!Follows(mode, capable)
          BY <4>2, <4>3 DEF P!IsLap
        <4>5. steps' \in 0..keys /\ lap[steps'] = mode'
          BY <2>1, <3>1, <4>3, <4>4
        <4> QED
          BY <2>1, <3>1, <4>2, <4>5 DEF OnLap
      <3> QED
        BY <1>1, <2>1, <2>2, <3>1, <3>2 DEF Walked
    <2>3. CASE at = "press.back" /\ P!Astray
      BY <1>1, <1>4, <2>1, <2>3 DEF Walked, P!Press, P!Pressed, P!Goto, P!Astray
    <2> QED
      BY <1>4, <2>2, <2>3 DEF P!Press, P!MayPress
  <1>5. CASE P!PressSwallowed
    BY <1>1, <1>5 DEF P!PressSwallowed, P!MayPress, P!Pressed, P!Goto, Walked, P!worker
  <1>6. CASE P!WalkOn
    <2>1. /\ at = "read" /\ at' = "press" /\ footer # start /\ smooth' = (smooth /\ footer = mode)
          /\ UNCHANGED <<mode, capable, start, steps, alone>>
      BY <1>6 DEF P!WalkOn, P!Seen, P!Goto, P!LapDone, P!worker
    <2>2. ASSUME OnLap, footer = mode
          PROVE  OnLap'
      <3>1. PICK keys \in 1..MaxSteps : \E lap \in [0..keys -> Modes] :
              P!IsLap(lap, keys, start, capable) /\ steps \in 0..keys /\ lap[steps] = mode
        BY <2>2 DEF OnLap
      <3>2. PICK lap \in [0..keys -> Modes] :
              P!IsLap(lap, keys, start, capable) /\ steps \in 0..keys /\ lap[steps] = mode
        BY <3>1
      <3>3. lap[keys] = start
        BY <3>2 DEF P!IsLap
      <3>4. steps # keys
        BY <2>1, <2>2, <3>2, <3>3
      <3>5. steps < keys
        BY <3>2, <3>4
      <3> QED
        BY <2>1, <3>2, <3>5 DEF OnLap
    <2> QED
      BY <1>1, <2>1, <2>2 DEF Walked
  <1>7. CASE P!TurnBack
    <2>1. /\ at = "read" /\ at' = "press.back" /\ (footer = start \/ steps >= MaxSteps)
          /\ cur' = footer /\ smooth' = (smooth /\ footer = mode)
          /\ UNCHANGED <<live, leaving, mode, start, alone>>
      BY <1>7 DEF P!TurnBack, P!Seen, P!Goto, P!LapDone, P!worker
    <2>2. live /\ ~leaving
      BY <1>1, <2>1 DEF Known
    <2>3. ASSUME OnLap, footer = mode, footer # start
          PROVE  FALSE
      <3>1. PICK keys \in 1..MaxSteps : \E lap \in [0..keys -> Modes] :
              P!IsLap(lap, keys, start, capable) /\ steps \in 0..keys /\ lap[steps] = mode
        BY <2>3 DEF OnLap
      <3>2. PICK lap \in [0..keys -> Modes] :
              P!IsLap(lap, keys, start, capable) /\ steps \in 0..keys /\ lap[steps] = mode
        BY <3>1
      <3>3. lap[keys] = start
        BY <3>2 DEF P!IsLap
      <3>4. steps = keys
        BY <2>1, <2>3, <3>2 DEF PermissionConstants, P!LimitsAssumption
      <3> QED
        BY <2>3, <3>2, <3>3, <3>4
    <2> QED
      BY <1>1, <2>1, <2>2, <2>3 DEF Walked
  <1>8. CASE P!Back
    BY <1>1, <1>8 DEF P!Back, P!Seen, P!Goto, Walked, P!worker
  <1>9. CASE P!Repaint
    BY <1>1, <1>9 DEF P!Repaint, Walked, OnLap, P!walk
  <1>10. CASE UNCHANGED P!vars
    BY <1>1, <1>10 DEF P!vars, Walked, OnLap, P!walk, P!worker
  <1>11. CASE P!WorkerGone
    BY <1>1, <1>11 DEF P!WorkerGone, Walked, Known
  <1>12. CASE P!Others
    BY <1>12 DEF P!Others, P!OthersPress, P!OthersWrite, P!OthersResume, P!OthersStop
  <1>13. CASE P!CycleLook /\ at' # "press"
    BY <1>2, <1>13 DEF P!CycleLook, P!Goto
  <1>14. CASE P!Begin \/ P!Look \/ P!LookFails \/ P!Reach \/ P!CycleLookFails \/ P!PressFails \/ P!Arrive \/ P!Stuck \/ P!BackDone
    BY <1>2, <1>14
    DEF P!Begin, P!Look, P!LookFails, P!Reach, P!CycleLookFails, P!PressFails, P!Arrive, P!Stuck,
      P!BackDone, P!Seen, P!Goto, P!Return, P!Unreached
  <1>15. CASE P!Save \/ P!SaveOffline \/ P!Restart
    BY <1>2, <1>15
    DEF P!Save, P!SaveOffline, P!Restart, P!Stop, P!WaitNotLive, P!SaveStopped, P!ReadFlags, P!Dispatch,
      P!DispatchRefused,
      P!Await, P!NextAttempt, P!Goto, P!Return
  <1> QED
    BY <1>3, <1>4, <1>5, <1>6, <1>7, <1>8, <1>9, <1>10, <1>11, <1>12, <1>13, <1>14, <1>15
    DEF P!Next, P!Step, P!Cycle

LEMMA WalkInvariance ==
  ASSUME PermissionConstants
  PROVE  P!Spec => [](PermissionInv /\ WalkInv)
  <1>1. P!Init => WalkInv
    BY DEF P!Init, WalkInv, Capable, Walked
  <1>2. PermissionInv /\ WalkInv /\ [P!Next]_(P!vars) => WalkInv'
    BY CapableStep, WalkedStep DEF WalkInv
  <1> QED
    BY <1>1, <1>2, PermissionInvHolds, PTL DEF P!Spec

\* A walk that does not find its mode ends in the mode it began in, as long as the keys
\* arrive, and the call knows the mode it ends in (CyclePermissionMode).
THEOREM PermissionLeftAsFound ==
  ASSUME PermissionConstants
  PROVE  P!Spec => P!LeftAsFound
  <1>1. PermissionInv /\ WalkInv =>
          (P!BackDone /\ alone /\ smooth => mode = cur /\ (start # DontAsk => mode = start))
    BY DEF WalkInv, Walked, P!BackDone
  <1> QED
    BY <1>1, WalkInvariance, PTL DEF P!Spec, P!LeftAsFound

-----------------------------------------------------------------------------
(* A change of the mode runs out of steps. *)

\* The steps of a walk, after as many keys, and of the attempts of a restart.
KeysToPress == 2 * (MaxSteps - steps)
LaunchesToTry == 2 * (MaxAttempts - steps)

\* The steps of a restart, of a walk back with it, and of a walk with both.
RestartSteps == 2 * MaxAttempts + 6
BackSteps == RestartSteps + 2 * MaxSteps + 2
WalkSteps == BackSteps + 2 * MaxSteps + 2

\* The most steps the call can still take.
ModeStepsLeft ==
  CASE at = "look"         -> WalkSteps + 2
    [] at = "reach"        -> WalkSteps + 1
    [] at = "cycle.look"   -> WalkSteps
    [] at = "read"         -> BackSteps + KeysToPress + 2
    [] at = "press"        -> BackSteps + KeysToPress + 1
    [] at = "read.back"    -> RestartSteps + KeysToPress + 2
    [] at = "press.back"   -> RestartSteps + KeysToPress + 1
    [] at = "stop"         -> 2 * MaxAttempts + 5
    [] at = "wait.gone"    -> 2 * MaxAttempts + 4
    [] at = "save.stopped" -> 2 * MaxAttempts + 3
    [] at = "save.offline" -> 2 * MaxAttempts + 3
    [] at = "resume"       -> 2 * MaxAttempts + 2
    [] at = "launch"       -> LaunchesToTry + 1
    [] at = "await"        -> LaunchesToTry
    [] at = "save"         -> 1
    [] OTHER               -> 0

\* A call that is under way has steps to go, and no more than those of a walk, a walk back
\* and a restart.
ModeLimited ==
  /\ ModeStepsLeft \in 0..(WalkSteps + 2)
  /\ ModeStepsLeft = 0 <=> at = "idle"

\* The same, place by place.
ModeStepsByPlace ==
  /\ at = "look" => ModeStepsLeft = WalkSteps + 2
  /\ at = "reach" => ModeStepsLeft = WalkSteps + 1
  /\ at = "cycle.look" => ModeStepsLeft = WalkSteps
  /\ at = "read" => ModeStepsLeft = BackSteps + KeysToPress + 2
  /\ at = "press" => ModeStepsLeft = BackSteps + KeysToPress + 1
  /\ at = "read.back" => ModeStepsLeft = RestartSteps + KeysToPress + 2
  /\ at = "press.back" => ModeStepsLeft = RestartSteps + KeysToPress + 1
  /\ at = "stop" => ModeStepsLeft = 2 * MaxAttempts + 5
  /\ at = "wait.gone" => ModeStepsLeft = 2 * MaxAttempts + 4
  /\ at \in {"save.stopped", "save.offline"} => ModeStepsLeft = 2 * MaxAttempts + 3
  /\ at = "resume" => ModeStepsLeft = 2 * MaxAttempts + 2
  /\ at = "launch" => ModeStepsLeft = LaunchesToTry + 1
  /\ at = "await" => ModeStepsLeft = LaunchesToTry
  /\ at = "save" => ModeStepsLeft = 1
  /\ at = "idle" => ModeStepsLeft = 0

LEMMA ModeStepsOfPlace == ModeStepsByPlace
  BY DEF ModeStepsByPlace, ModeStepsLeft

LEMMA ModeStepsInLimits == ASSUME PermissionConstants PROVE PermissionInv => ModeLimited
  <1> SUFFICES ASSUME PermissionInv PROVE ModeLimited
    OBVIOUS
  <1>1. /\ MaxSteps \in Nat /\ MaxAttempts \in Nat /\ steps \in Nat /\ at \in P!PCs
        /\ at \in Walking => steps <= MaxSteps
        /\ at \in {"launch", "await"} => steps < MaxAttempts
    BY DEF PermissionConstants, P!LimitsAssumption, PermissionInv, ModeTypes, Counted
  <1> USE <1>1, ModeStepsOfPlace
      DEF ModeStepsByPlace, ModeLimited, KeysToPress, LaunchesToTry, RestartSteps, BackSteps, WalkSteps
  <1>2. CASE at \in {"read", "press", "read.back", "press.back"}
    BY <1>2 DEF Walking
  <1>3. CASE at \in {"launch", "await"}
    BY <1>3
  <1>4. CASE at \in {"look", "reach", "cycle.look", "stop", "wait.gone"}
    BY <1>4
  <1>5. CASE at \in {"save.stopped", "save.offline", "resume", "save", "idle"}
    BY <1>5
  <1> QED
    BY <1>1, <1>2, <1>3, <1>4, <1>5 DEF P!PCs

\* A step of the call is one less to go.
LEMMA ModeStepLeavesLess ==
  ASSUME PermissionConstants, PermissionInv, P!Step
  PROVE  ModeStepsLeft' < ModeStepsLeft
  <1>a. ModeStepsByPlace /\ ModeStepsByPlace'
    BY ModeStepsOfPlace, PTL
  <1>b. /\ MaxSteps \in Nat /\ MaxAttempts \in Nat /\ steps \in Nat
        /\ at \in Walking => steps <= MaxSteps
        /\ at \in {"launch", "await"} => steps < MaxAttempts
        /\ at \notin Walking \cup {"launch", "await"} => steps = 0
    BY DEF PermissionConstants, P!LimitsAssumption, PermissionInv, Counted
  <1> USE <1>a, <1>b
      DEF ModeStepsByPlace, KeysToPress, LaunchesToTry, RestartSteps, BackSteps, WalkSteps, Walking,
        P!Goto, P!Return, P!ForgetWalk, P!walk
  <1>1. CASE P!Look \/ P!LookFails
    BY <1>1 DEF P!Look, P!LookFails
  <1>2. CASE P!Reach \/ P!CycleLook \/ P!CycleLookFails
    BY <1>2 DEF P!Reach, P!CycleLook, P!CycleLookFails, P!Unreached
  <1>3. CASE P!Press \/ P!PressSwallowed
    BY <1>3 DEF P!Press, P!PressSwallowed, P!MayPress, P!Astray, P!Pressed
  <1>4. CASE P!PressFails \/ P!Stuck \/ P!BackDone
    BY <1>4 DEF P!PressFails, P!Stuck, P!BackDone, P!MayPress, P!Unreached
  <1>5. CASE P!Arrive \/ P!WalkOn \/ P!TurnBack \/ P!Back
    BY <1>5 DEF P!Arrive, P!WalkOn, P!TurnBack, P!Back, P!Seen
  <1>6. CASE P!Save \/ P!SaveOffline
    BY <1>6 DEF P!Save, P!SaveOffline
  <1>7. CASE P!Stop \/ P!WaitNotLive \/ P!SaveStopped
    BY <1>7 DEF P!Stop, P!WaitNotLive, P!SaveStopped
  <1>8. CASE P!ReadFlags
    BY <1>8 DEF P!ReadFlags
  <1>9. CASE P!Dispatch \/ P!DispatchRefused
    BY <1>9 DEF P!Dispatch, P!DispatchRefused, P!NextAttempt
  <1>10. CASE P!Await
    BY <1>10 DEF P!Await, P!NextAttempt
  <1> QED
    BY <1>1, <1>2, <1>3, <1>4, <1>5, <1>6, <1>7, <1>8, <1>9, <1>10 DEF P!Step, P!Cycle, P!Restart

\* Nobody else gives the call more to do.
LEMMA OthersLeaveModeSteps ==
  ASSUME [P!Next]_(P!vars), ~P!Begin, ~P!Step
  PROVE  ModeStepsLeft' = ModeStepsLeft
  <1>1. at' = at /\ steps' = steps
    BY DEF P!Next, P!Repaint, P!WorkerGone, P!Others, P!OthersPress, P!OthersWrite, P!OthersResume,
      P!OthersStop, P!vars, P!walk
  <1> QED
    BY <1>1 DEF ModeStepsLeft, KeysToPress, LaunchesToTry

\* Each step of the call is one less to go, and nobody at the session gives it one more.
ModeRunsOut ==
  [][/\ P!Step => ModeStepsLeft' < ModeStepsLeft
     /\ ~P!Begin => ModeStepsLeft' <= ModeStepsLeft]_(P!vars)

\* SetPermissionMode takes no more steps than a walk, a walk back and a restart have, and is
\* then over, whatever the screen shows and others press (maxCycleSteps, resumeAttempts).
THEOREM PermissionCallsRunOut ==
  ASSUME PermissionConstants
  PROVE  P!Spec => []ModeLimited /\ ModeRunsOut
  <1>1. ASSUME PermissionInv, PermissionInv', [P!Next]_(P!vars)
        PROVE  /\ P!Step => ModeStepsLeft' < ModeStepsLeft
               /\ ~P!Begin => ModeStepsLeft' <= ModeStepsLeft
    <2>1. PermissionInv' => ModeLimited'
      BY ModeStepsInLimits, PTL
    <2>2. ModeStepsLeft \in Int /\ ModeStepsLeft' \in Int
      BY <1>1, <2>1, ModeStepsInLimits
      DEF ModeLimited, PermissionConstants, P!LimitsAssumption, RestartSteps, BackSteps, WalkSteps
    <2> QED
      BY <1>1, <2>2, ModeStepLeavesLess, OthersLeaveModeSteps
  <1>2. PermissionInv /\ PermissionInv' /\ [P!Next]_(P!vars) =>
          [/\ P!Step => ModeStepsLeft' < ModeStepsLeft
           /\ ~P!Begin => ModeStepsLeft' <= ModeStepsLeft]_(P!vars)
    BY <1>1
  <1> QED
    BY <1>2, ModeStepsInLimits, PermissionInvHolds, PTL DEF P!Spec, ModeRunsOut
=============================================================================
