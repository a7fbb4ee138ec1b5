-------------------------------- MODULE Wake --------------------------------
(***************************************************************************)
(* Waking a session that is not running, resume.go and dialog_answer.go.   *)
(* A call of EnsureLive asks the daemon to resume the session under its    *)
(* own short id (or, when it has no job state, the CLI to resume it under  *)
(* a fresh one), polls the roster until the worker stands, waits for its   *)
(* first screen, and answers the dialog the CLI may start with.            *)
(*                                                                         *)
(* Calls share the worker, its screen and its keyboard, with each other    *)
(* and with a person who has the session open.  A call that gives up stops *)
(* the worker it finds under the short id, whoever started that one.       *)
(*                                                                         *)
(* Strings are left out: a screen shows no prompt yet, the prompt, the     *)
(* recognised resume dialog or another dialog, and one of three options is *)
(* highlighted.  Every wait has a number of polls where the code has a     *)
(* deadline, and the settle window may be over at any poll after the first.*)
(***************************************************************************)
EXTENDS Integers

CONSTANTS
  Callers,    \* calls of EnsureLive
  Nobody,     \* not a call: nobody started a worker
  MaxPolls,   \* polls until a deadline
  MaxKeys,    \* dialogNavSteps: 12
  MaxEvents   \* bound: crashes, exits, other dialogs and keys of a person

ASSUME CallersAssumption == Nobody \notin Callers
ASSUME WakeBounds == MaxPolls \in Nat \ {0} /\ MaxKeys \in Nat \ {0} /\ MaxEvents \in Nat

VARIABLES
  hasState,   \* whether the session has job state: it can be resumed in place
  worker,     \* the session's worker in the roster
  by,         \* the call that started it and has to stop it
  screen,     \* what its terminal shows
  highlight,  \* the option of a dialog that Enter picks
  shown,      \* whether the screen shows which one that is
  answer,     \* what the resume dialog was answered with last
  choice,     \* on_resume_dialog of a call, from where it matters
  pc,         \* where a call is
  attempt,    \* the attempt ResumeInPlace is at
  left,       \* polls or keys until it gives up
  seen,       \* whether the worker was in the roster at a poll
  last,       \* whether it was usable when it was seen last
  booted,     \* whether it was usable since it last was not: bootedAt
  stirred,    \* whether anything happened to the screen since the call read it
  swapped,    \* whether the dialog the call recognised was replaced
  events      \* how many events of the bound there were

session == <<hasState, worker, by>>
terminal == <<screen, highlight, shown, answer>>
polling == <<seen, last, booted>>
ghosts == <<stirred, swapped>>
call == <<choice, pc, attempt, left>>
vars == <<session, terminal, polling, ghosts, call, events>>

Choices == {"keep", "compact", "ask"}
Answers == <<"compact", "keep", "never">>  \* resumeReturnOptions, in their order
Dialogs == {"resume", "other"}
Ended == {"asis", "live", "blocked", "refused", "failed", "unsettled"}
Waits == {"await", "interactive", "clear", "ready"}
PCs == {"idle", "dispatch", "stop", "settle", "answer", "enter", "up", "down", "final"}
         \cup Waits \cup Ended

Init ==
  /\ hasState \in BOOLEAN
  /\ worker = "none"
  /\ by = Nobody
  /\ screen = "busy"
  /\ highlight = 1
  /\ shown = TRUE
  /\ answer = "none"
  /\ choice = [c \in Callers |-> "keep"]
  /\ pc = [c \in Callers |-> "idle"]
  /\ attempt = [c \in Callers |-> 0]
  /\ left = [c \in Callers |-> 0]
  /\ seen = [c \in Callers |-> FALSE]
  /\ last = [c \in Callers |-> FALSE]
  /\ booted = [c \in Callers |-> FALSE]
  /\ stirred = [c \in Callers |-> FALSE]
  /\ swapped = [c \in Callers |-> FALSE]
  /\ events = 0

Running == worker \in {"resuming", "usable"}

Goto(c, l) == pc' = [pc EXCEPT ![c] = l]

\* A wait, or answerDialog, starts with all its polls or keys, and forgets an earlier one.
Start(c, l) ==
  /\ Goto(c, l)
  /\ left' = [left EXCEPT ![c] = IF l = "answer" THEN MaxKeys ELSE MaxPolls]

Leave(c, l) ==
  /\ Goto(c, l)
  /\ left' = [left EXCEPT ![c] = 0]

\* There is nothing to answer on the screen.
Blank == screen' = "busy" /\ highlight' = 1 /\ shown' = TRUE

\* The call is over, and what it knew no longer matters.
End(c, l) ==
  /\ Leave(c, l)
  /\ attempt' = [attempt EXCEPT ![c] = 0]
  /\ choice' = [choice EXCEPT ![c] = "keep"]

Forget(c) ==
  /\ seen' = [seen EXCEPT ![c] = FALSE]
  /\ last' = [last EXCEPT ![c] = FALSE]
  /\ booted' = [booted EXCEPT ![c] = FALSE]

\* Something happened that calls other than c have not seen, while they answer.
Answering(c) == pc[c] \in {"answer", "enter", "up", "down"}
Stir(c) == stirred' = [d \in Callers |-> (stirred[d] \/ d # c) /\ Answering(d)]
Swap(c) == swapped' = [d \in Callers |-> (swapped[d] \/ d # c) /\ Answering(d)]
Unheed(c) ==
  /\ stirred' = [stirred EXCEPT ![c] = FALSE]
  /\ swapped' = [swapped EXCEPT ![c] = FALSE]

-----------------------------------------------------------------------------
(* Getting a worker: EnsureLive, ResumeInPlace, ResumeByCLI. *)

\* The session was resolved as live and is used as it is.
AsIs(c) ==
  /\ pc[c] = "idle"
  /\ worker # "none"
  /\ End(c, "asis")
  /\ UNCHANGED <<session, terminal, polling, ghosts, events>>

Wake(c) ==
  /\ pc[c] = "idle"
  /\ worker = "none"
  /\ attempt' = [attempt EXCEPT ![c] = 1]
  /\ Goto(c, "dispatch")
  /\ UNCHANGED <<session, terminal, polling, ghosts, choice, left, events>>

\* Its directory is gone, or the CLI cannot be run.
CannotStart(c) ==
  /\ pc[c] = "dispatch"
  /\ attempt[c] = 1
  /\ End(c, "refused")
  /\ UNCHANGED <<session, terminal, polling, ghosts, events>>

\* Mutant of Retry: a third attempt.
RetryTwice(c) ==
  \/ /\ hasState /\ attempt[c] <= 2
     /\ attempt' = [attempt EXCEPT ![c] = @ + 1]
     /\ Goto(c, "dispatch")
     /\ UNCHANGED <<left, choice>>
  \/ /\ ~(hasState /\ attempt[c] <= 2)
     /\ End(c, "failed")

\* One more attempt in place; the CLI is asked once.
Retry(c) ==
  \/ /\ hasState /\ attempt[c] < 2
     /\ attempt' = [attempt EXCEPT ![c] = @ + 1]
     /\ Goto(c, "dispatch")
     /\ UNCHANGED <<left, choice>>
  \/ /\ ~(hasState /\ attempt[c] < 2)
     /\ End(c, "failed")

Refused(c) ==
  /\ pc[c] = "dispatch"
  /\ hasState
  /\ Retry(c)
  /\ UNCHANGED <<session, terminal, polling, ghosts, events>>

\* The conversation gets a worker; a dialog it was kept in comes up again.
Spawn(starter) ==
  /\ worker' = "resuming"
  /\ by' = starter
  /\ Blank
  /\ answer' = IF answer = "keep" THEN "none" ELSE answer
  /\ Stir(Nobody)
  /\ Swap(Nobody)
  /\ UNCHANGED hasState

\* The daemon keeps one worker for a session: it claims a live one for a dispatch,
\* and retires the second one of the CLI.
Dispatch(c) ==
  /\ pc[c] = "dispatch"
  /\ IF Running THEN UNCHANGED <<session, terminal, ghosts>> ELSE Spawn(c)
  /\ Start(c, "await")
  /\ UNCHANGED <<polling, choice, attempt, events>>

\* The reply is lost: to the call the daemon has refused.
DispatchLost(c) ==
  /\ pc[c] = "dispatch"
  /\ hasState /\ ~Running
  /\ Spawn(Nobody)
  /\ Retry(c)
  /\ UNCHANGED <<polling, events>>

\* The roster has the short id the call waits for: the session's or its own.
Found(c) == worker # "none" /\ (hasState \/ by = c)

\* Only the CLI's worker may crash and come back.
PollFails(c) == \/ Found(c) /\ worker = "crashed" /\ hasState
                \/ ~Found(c) /\ seen[c]

\* After a failure in place the short id is stopped; the CLI's worker is removed.
PollFailed(c) ==
  /\ pc[c] = "await"
  /\ PollFails(c)
  /\ Leave(c, "stop")
  /\ Forget(c)
  /\ UNCHANGED <<session, terminal, ghosts, choice, attempt, events>>

Settled(c) ==
  /\ pc[c] = "await"
  /\ Found(c) /\ worker = "usable" /\ booted[c]
  /\ Start(c, "interactive")
  /\ Forget(c)
  /\ UNCHANGED <<session, terminal, ghosts, choice, attempt, events>>

\* What a poll remembers.
Remember(c) ==
  /\ seen' = [seen EXCEPT ![c] = TRUE]
  /\ last' = [last EXCEPT ![c] = worker = "usable"]
  /\ booted' = [booted EXCEPT ![c] = worker = "usable"]

\* The roster may also be out of reach.
Poll(c) ==
  /\ pc[c] = "await"
  /\ left[c] > 0
  /\ left' = [left EXCEPT ![c] = @ - 1]
  /\ \/ Found(c) /\ ~PollFails(c) /\ Remember(c)
     \/ UNCHANGED polling
  /\ UNCHANGED <<session, terminal, ghosts, choice, pc, attempt, events>>

\* The deadline: usable when last seen is good enough.
Deadline(c) ==
  /\ pc[c] = "await"
  /\ left[c] = 0
  /\ IF last[c] THEN Start(c, "interactive") ELSE Leave(c, "stop")
  /\ Forget(c)
  /\ UNCHANGED <<session, terminal, ghosts, choice, attempt, events>>

\* Mutant of Stops: a worker of the first attempt is left to the second.
StopsLast(c) == attempt[c] = 2

Stops(c) == TRUE

\* Stop(rshort) or Remove(short): whatever runs under that id is gone.
GiveUp(c) ==
  /\ pc[c] = "stop"
  /\ IF Stops(c) /\ Found(c)
       THEN worker' = "none" /\ by' = Nobody /\ Blank /\ Stir(Nobody) /\ Swap(Nobody)
       ELSE UNCHANGED <<worker, by, screen, highlight, shown, ghosts>>
  /\ Retry(c)
  /\ UNCHANGED <<hasState, answer, polling, events>>

\* The error is ignored and the worker stays.
StopFails(c) ==
  /\ pc[c] = "stop"
  /\ by' = IF by = c THEN Nobody ELSE by
  /\ Retry(c)
  /\ UNCHANGED <<hasState, worker, terminal, polling, ghosts, events>>

-----------------------------------------------------------------------------
(* The first screen, and the dialog: WaitInteractive, SettleResumeDialog,  *)
(* answerDialog, waitDialogCleared, WaitReady.                             *)

Arrives(c) ==
  /\ pc[c] = "interactive"
  /\ Running /\ screen # "busy"
  /\ Leave(c, "settle")
  /\ UNCHANGED <<session, terminal, polling, ghosts, choice, attempt, events>>

\* There is no dialog, or the screen could not be read.
NoDialog(c) ==
  /\ pc[c] = "settle"
  /\ Goto(c, "final")
  /\ UNCHANGED <<session, terminal, polling, ghosts, choice, attempt, left, events>>

\* Mutant of Answerable: any dialog is answered.
AnswerableAll(what) == what # "ask"

Answerable(what) == screen = "resume" /\ what # "ask"

Blocked(c) ==
  /\ pc[c] = "settle"
  /\ Running /\ screen \in Dialogs
  /\ \E what \in Choices : ~Answerable(what)
  /\ End(c, "blocked")
  /\ UNCHANGED <<session, terminal, polling, ghosts, events>>

Recognise(c) ==
  /\ pc[c] = "settle"
  /\ Running /\ screen \in Dialogs
  /\ \E what \in Choices : Answerable(what) /\ choice' = [choice EXCEPT ![c] = what]
  /\ Start(c, "answer")
  /\ UNCHANGED <<session, terminal, polling, ghosts, attempt, events>>

\* d.option(effectCompact) and d.keepOption(): the first option with the effect.
Target(c) == CHOOSE n \in 1..3 : Answers[n] = choice[c]

\* Mutant of NextKey: a highlight that does not show is taken to be on the target.
NextKeyBlind(c) ==
  IF ~shown \/ highlight = Target(c) THEN "enter"
  ELSE IF highlight < Target(c) THEN "down" ELSE "up"

\* An arrow also makes a highlight show.
NextKey(c) ==
  IF ~shown THEN "down"
  ELSE IF highlight = Target(c) THEN "enter"
  ELSE IF highlight < Target(c) THEN "down" ELSE "up"

ReadDialog(c) ==
  /\ pc[c] = "answer"
  /\ left[c] > 0
  /\ Running /\ screen \in Dialogs
  /\ Goto(c, NextKey(c))
  /\ stirred' = [stirred EXCEPT ![c] = FALSE]
  /\ UNCHANGED <<session, terminal, polling, swapped, choice, attempt, left, events>>

\* The dialog is gone or cannot be read, a key could not be sent, or none is left.
CannotAnswer(c) ==
  /\ Answering(c)
  /\ End(c, "unsettled")
  /\ Unheed(c)
  /\ UNCHANGED <<session, terminal, polling, events>>

\* Mutant of AfterArrow: Enter follows without another look.
AfterArrowEnter(c) == "enter"

AfterArrow(c) == "answer"

\* An arrow, which may be lost; nothing is confirmed by it.
Arrow(c) ==
  /\ pc[c] \in {"up", "down"}
  /\ left' = [left EXCEPT ![c] = @ - 1]
  /\ Goto(c, AfterArrow(c))
  /\ \/ UNCHANGED <<terminal, stirred>>
     \/ /\ Running /\ screen \in Dialogs
        /\ highlight' = IF pc[c] = "up" THEN (IF highlight > 1 THEN highlight - 1 ELSE 1)
                        ELSE (IF highlight < 3 THEN highlight + 1 ELSE 3)
        /\ shown' = TRUE
        /\ Stir(c)
        /\ UNCHANGED <<screen, answer>>
  /\ UNCHANGED <<session, polling, swapped, choice, attempt, events>>

\* What Enter does to the dialog on the screen.
Confirms ==
  /\ Running /\ screen \in Dialogs
  /\ Blank
  /\ answer' = IF screen = "resume" THEN Answers[highlight] ELSE answer

Enter(c) ==
  /\ pc[c] = "enter"
  /\ \/ Confirms /\ stirred' = [d \in Callers |-> d # c /\ Answering(d)]
                 /\ swapped' = [d \in Callers |-> d # c /\ Answering(d)]
     \/ UNCHANGED terminal /\ Unheed(c)
  /\ Start(c, "clear")
  /\ UNCHANGED <<session, polling, choice, attempt, events>>

\* No dialog is seen on the screen, which may be for want of one; then the prompt is.
Cleared(c) ==
  /\ pc[c] = "clear"
  /\ Start(c, "ready")
  /\ UNCHANGED <<session, terminal, polling, ghosts, choice, attempt, events>>

Prompt(c) ==
  /\ pc[c] = "ready"
  /\ Running /\ screen = "prompt"
  /\ Leave(c, "final")
  /\ UNCHANGED <<session, terminal, polling, ghosts, choice, attempt, events>>

\* A poll that does not end the wait, and the deadline.
Wait(c) ==
  /\ pc[c] \in Waits \ {"await"}
  /\ \/ left[c] > 0 /\ left' = [left EXCEPT ![c] = @ - 1] /\ UNCHANGED <<pc, choice, attempt>>
     \/ left[c] = 0 /\ End(c, "unsettled")
  /\ UNCHANGED <<session, terminal, polling, ghosts, events>>

\* Resolve, or what the resume reported when that does not find it live.
Finish(c) ==
  /\ pc[c] = "final"
  /\ End(c, "live")
  /\ UNCHANGED <<session, terminal, polling, ghosts, events>>

-----------------------------------------------------------------------------
(* The worker, the person at its screen. *)

Boot ==
  /\ worker = "resuming"
  /\ worker' = "usable"
  /\ UNCHANGED <<hasState, by, terminal, polling, ghosts, call, events>>

\* The first screen, or the next one after an answer.
Draw ==
  /\ Running /\ screen = "busy"
  /\ \/ screen' = "prompt" /\ UNCHANGED <<highlight, shown>>
     \/ answer = "none" /\ screen' = "resume" /\ highlight' = 1 /\ shown' \in BOOLEAN
  /\ Stir(Nobody)
  /\ UNCHANGED <<session, answer, polling, swapped, call, events>>

Event ==
  /\ events < MaxEvents
  /\ events' = events + 1

Crash ==
  /\ Running
  /\ Event
  /\ worker' \in {"crashed", "none"}
  /\ by' = IF worker' = "none" THEN Nobody ELSE by
  /\ Blank /\ Stir(Nobody) /\ Swap(Nobody)
  /\ UNCHANGED <<hasState, answer, polling, call>>

OtherDialog ==
  /\ Running
  /\ Event
  /\ screen' = "other"
  /\ highlight' \in 1..3 /\ shown' \in BOOLEAN
  /\ Stir(Nobody) /\ Swap(Nobody)
  /\ UNCHANGED <<session, answer, polling, call>>

\* A person answers the dialog, or moves the highlight.
Person ==
  /\ Running /\ screen \in Dialogs
  /\ Event
  /\ \/ Confirms /\ Swap(Nobody)
     \/ /\ highlight' \in 1..3
        /\ shown' = TRUE
        /\ UNCHANGED <<screen, answer, swapped>>
  /\ Stir(Nobody)
  /\ UNCHANGED <<session, polling, call>>

Step(c) ==
  \/ CannotStart(c) \/ Refused(c) \/ Dispatch(c) \/ DispatchLost(c) \/ PollFailed(c)
  \/ Settled(c) \/ Poll(c) \/ Deadline(c) \/ GiveUp(c) \/ StopFails(c) \/ Arrives(c) \/ NoDialog(c) \/ Blocked(c)
  \/ Recognise(c) \/ ReadDialog(c) \/ CannotAnswer(c) \/ Arrow(c) \/ Enter(c)
  \/ Cleared(c) \/ Prompt(c) \/ Wait(c) \/ Finish(c)

Next ==
  \/ \E c \in Callers : AsIs(c) \/ Wake(c) \/ Step(c)
  \/ Boot \/ Draw \/ Crash \/ OtherDialog \/ Person

Spec == Init /\ [][Next]_vars

-----------------------------------------------------------------------------
TypeOK ==
  /\ hasState \in BOOLEAN
  /\ worker \in {"none", "resuming", "usable", "crashed"}
  /\ by \in Callers \cup {Nobody}
  /\ screen \in {"busy", "prompt"} \cup Dialogs
  /\ highlight \in 1..3
  /\ shown \in BOOLEAN
  /\ answer \in {"none", "keep", "compact", "never"}
  /\ choice \in [Callers -> Choices]
  /\ pc \in [Callers -> PCs]
  /\ attempt \in [Callers -> 0..2]
  /\ left \in [Callers -> 0..MaxPolls \cup 0..MaxKeys]
  /\ seen \in [Callers -> BOOLEAN]
  /\ last \in [Callers -> BOOLEAN]
  /\ booted \in [Callers -> BOOLEAN]
  /\ stirred \in [Callers -> BOOLEAN]
  /\ swapped \in [Callers -> BOOLEAN]
  /\ events \in 0..MaxEvents

\* "a caller that never heard of this parameter can never lose a conversation to
\* it" (ParseResumeDialogChoice): the Enter of a call gives the resume dialog the
\* answer that was asked for, unless somebody else got at the screen after the
\* call read it.
AnsweredAsAsked ==
  [][\A c \in Callers :
       Enter(c) /\ screen = "resume" /\ screen' # screen /\ ~stirred[c]
         => answer' = choice[c]]_vars

\* "A dialog that is not positively recognised is never answered"
\* (SettleResumeDialog), unless it came up in the place of one that was.
UnknownIsLeftAlone ==
  [][\A c \in Callers :
       Enter(c) /\ screen = "other" /\ screen' # screen => swapped[c]]_vars

\* "on failure stops the worker so no crashed/idle orphan is left behind"
\* (ResumeInPlace): a call whose resume failed leaves no worker it started, unless
\* it was not told of it or the stop failed.
NoOrphan == \A c \in Callers : pc[c] = "failed" => by # c

=============================================================================
