------------------------------- MODULE Submit -------------------------------
(***************************************************************************)
(* SubmitPrompt (submit.go, reply.go): calls that deliver a prompt each to *)
(* one live session.  A call hands its text to the daemon, or pastes it    *)
(* into the terminal when the daemon will not have it, and then looks for  *)
(* evidence that a turn began, pressing Enter up to twice where neither a  *)
(* dialog nor a running turn explains why there is none.                   *)
(*                                                                         *)
(* The session is not in this repository.  It is modelled from what the    *)
(* code and its comments expect of it: an input box that is consumed when  *)
(* the running turn ends, dialogs that own the keyboard while they are up  *)
(* and whose preselected answer discards the box, a transcript written     *)
(* some time after the fact.                                               *)
(***************************************************************************)
EXTENDS Naturals

CONSTANTS
  Calls,         \* the calls of SubmitPrompt, each with a text of its own
  MaxReplies,    \* Reply: const maxAttempts
  MaxEnters,     \* submitEnterUntilStarted: two attempts
  MaxDialogs,    \* bound: how many dialogs open
  Lookalikes,    \* by call: the calls whose prompt has its longest line in it, as a
                 \* record of the transcript spells it; as a rule only itself
  Quoted,        \* the calls whose longest line may be in a record of somebody else
  LostAcks,      \* the calls whose reply may be carried out and its answer lost
  Blind          \* the calls that may fail to read the screen

ASSUME LimitsAssumption == MaxReplies \in Nat \ {0} /\ MaxEnters \in Nat \ {0}
ASSUME BoundsAssumption == MaxDialogs \in Nat
ASSUME FaultsAssumption == LostAcks \subseteq Calls /\ Blind \subseteq Calls
ASSUME LinesAssumption == Lookalikes \in [Calls -> SUBSET Calls] /\ Quoted \subseteq Calls

VARIABLES
  box,       \* how many copies of each text the input box has
  said,      \* how many of them are in the conversation
  shown,     \* how many of those the transcript has
  quoted,    \* the calls whose longest line somebody else's user record has: a tool
             \* result, or a prompt that no call delivered
  lost,      \* the texts a dialog swallowed or discarded
  turn,      \* a turn is running
  dialog,    \* a dialog has the keyboard
  opened,    \* how many dialogs have been opened
  pc,        \* where in SubmitPrompt a call is
  tries,     \* the attempts of the loop it is in
  sighted,   \* it knows the session's id, so that its transcripts can be found
  seen,      \* a user record past its mark has its longest line
  grew,      \* its transcripts have grown since the mark
  clear,     \* history: dialogs opened when, since its last key, it saw a screen
             \* without one; MaxDialogs if it did not
  result     \* what it returns

session == <<box, said, shown, lost, turn, dialog, opened>>
evidence == <<sighted, seen, grew>>
vars == <<session, quoted, pc, tries, evidence, clear, result>>

PCs == {"idle", "reply", "wait.reply", "paste", "begin.paste", "check.dialog", "check.turn",
        "enter", "wait.enter", "done"}

Successes == {"transcript", "state", "queued"}
Results == Successes \cup {"none", "blocked", "stuck", "error"}

Zero == [c \in Calls |-> 0]
No == [c \in Calls |-> FALSE]

Init ==
  /\ box = Zero /\ said = Zero /\ shown = Zero
  /\ lost = {}
  /\ quoted \in SUBSET Quoted
  /\ turn \in BOOLEAN
  /\ dialog = FALSE
  /\ opened = 0
  /\ pc = [c \in Calls |-> "idle"]
  /\ tries = Zero
  /\ sighted = No /\ seen = No /\ grew = No
  /\ clear = [c \in Calls |-> MaxDialogs]
  /\ result = [c \in Calls |-> "none"]

Goto(c, l) == pc' = [pc EXCEPT ![c] = l]

\* The call returns; nothing of what it knew is left.
Finish(c, r) ==
  /\ Goto(c, "done")
  /\ result' = [result EXCEPT ![c] = r]
  /\ tries' = [tries EXCEPT ![c] = 0]
  /\ sighted' = [sighted EXCEPT ![c] = FALSE]
  /\ seen' = [seen EXCEPT ![c] = FALSE]
  /\ grew' = [grew EXCEPT ![c] = FALSE]
  /\ clear' = [clear EXCEPT ![c] = MaxDialogs]

-----------------------------------------------------------------------------
(* What the session does with text and keys. *)

\* A dialog does not let text through to the box.
Swallow(c) ==
  /\ dialog
  /\ lost' = lost \cup {c}
  /\ UNCHANGED <<box, said, shown, turn, dialog, opened>>

IntoBox(c) ==
  /\ ~dialog
  /\ box' = [box EXCEPT ![c] = @ + 1]
  /\ UNCHANGED <<said, shown, lost, turn, dialog, opened>>

IntoTurn(c) ==
  /\ ~dialog
  /\ ~turn
  /\ said' = [said EXCEPT ![c] = @ + 1]
  /\ turn' = TRUE
  /\ UNCHANGED <<box, shown, lost, dialog, opened>>

\* Text the daemon hands over is submitted, or stays in the box: behind a turn,
\* or as a paste that still needs its Enter.
HandOver(c) == Swallow(c) \/ IntoBox(c) \/ IntoTurn(c)

TypeIn(c) == Swallow(c) \/ IntoBox(c)

Boxed == {c \in Calls : box[c] > 0}

\* All that is in the box is submitted as one turn.
Submitted ==
  /\ said' = [c \in Calls |-> said[c] + box[c]]
  /\ box' = Zero
  /\ UNCHANGED <<shown, lost, dialog, opened>>

\* Enter answers a dialog with the option preselected, which compacts.
EnterAnswers ==
  /\ dialog
  /\ dialog' = FALSE
  /\ lost' = lost \cup Boxed
  /\ box' = Zero
  /\ turn' = TRUE
  /\ UNCHANGED <<said, shown, opened>>

EnterSubmits ==
  /\ ~dialog
  /\ ~turn
  /\ Boxed # {}
  /\ Submitted
  /\ turn' = TRUE

\* It did not take, or there was nothing to submit, or a turn is running.
EnterIdle == ~dialog /\ UNCHANGED session

-----------------------------------------------------------------------------
(* SubmitPrompt *)

\* beginDelivery.  A session that is not found, or has no id yet, leaves no
\* transcript to look at.
BeginDelivery(c, next) ==
  /\ \E located \in BOOLEAN : sighted' = [sighted EXCEPT ![c] = located]
  /\ seen' = [seen EXCEPT ![c] = FALSE]
  /\ grew' = [grew EXCEPT ![c] = FALSE]
  /\ tries' = [tries EXCEPT ![c] = 0]
  /\ Goto(c, next)
  /\ UNCHANGED <<session, clear, result>>

Begin(c) == pc[c] = "idle" /\ BeginDelivery(c, "reply")

ReplyAccepted(c) ==
  /\ pc[c] = "reply"
  /\ HandOver(c)
  /\ Goto(c, "wait.reply")
  /\ tries' = [tries EXCEPT ![c] = 0]
  /\ UNCHANGED <<evidence, clear, result>>

\* Mutant of ReplyAgain: there is no limit.
ReplyForEver(c) ==
  /\ pc[c] = "reply"
  /\ tries' = [tries EXCEPT ![c] = @ + 1]
  /\ UNCHANGED <<session, pc, evidence, clear, result>>

\* ESTARTING, ENOREPLY, or the first EAUTH.
ReplyAgain(c) ==
  /\ pc[c] = "reply"
  /\ tries' = [tries EXCEPT ![c] = @ + 1]
  /\ Goto(c, IF tries'[c] < MaxReplies THEN "reply" ELSE "paste")
  /\ UNCHANGED <<session, evidence, clear, result>>

ReplyRefused(c) ==
  /\ pc[c] = "reply"
  /\ Goto(c, "paste")
  /\ UNCHANGED <<session, tries, evidence, clear, result>>

\* The request was carried out, and its answer did not come back in time.
ReplyUnanswered(c) ==
  /\ c \in LostAcks
  /\ pc[c] = "reply"
  /\ HandOver(c)
  /\ Goto(c, "paste")
  /\ UNCHANGED <<tries, evidence, clear, result>>

\* submitViaPTY
Paste(c) ==
  /\ pc[c] = "paste"
  /\ TypeIn(c)
  /\ Goto(c, "begin.paste")
  /\ UNCHANGED <<tries, evidence, clear, result>>

\* Mutant of SendFails: the error is dropped.
SendFailsUnnoticed(c) ==
  /\ pc[c] \in {"paste", "enter"}
  /\ Goto(c, IF pc[c] = "paste" THEN "begin.paste" ELSE "wait.enter")
  /\ UNCHANGED <<session, tries, evidence, clear, result>>

SendFails(c) ==
  /\ pc[c] \in {"paste", "enter"}
  /\ Finish(c, "error")
  /\ UNCHANGED session

\* The baseline of the paste is taken when it has settled.
BeginPaste(c) == pc[c] = "begin.paste" /\ BeginDelivery(c, "check.dialog")

Waiting(c) == pc[c] \in {"wait.reply", "wait.enter"}

\* The scan knows the prompt by its longest line, in any user record past the mark.
Landed(c) == sighted[c] /\ seen[c]

ConfirmTranscript(c) ==
  /\ Waiting(c)
  /\ Landed(c)
  /\ Finish(c, "transcript")
  /\ UNCHANGED session

\* turnStarted: the roster is not what the base says.  Its detail line changes at
\* any time, and it differs from the empty base of a session that was not found.
ConfirmState(c) ==
  /\ Waiting(c)
  /\ ~Landed(c)
  /\ Finish(c, "state")
  /\ UNCHANGED session

\* Mutant of WaitTimesOut: the text is typed in again.
WaitThenPaste(c) ==
  /\ Waiting(c)
  /\ ~Landed(c)
  /\ Goto(c, "paste")
  /\ UNCHANGED <<session, tries, evidence, clear, result>>

WaitTimesOut(c) ==
  /\ Waiting(c)
  /\ ~Landed(c)
  /\ LET n == IF pc[c] = "wait.enter" THEN tries[c] + 1 ELSE tries[c]
     IN  \/ /\ n < MaxEnters
            /\ tries' = [tries EXCEPT ![c] = n]
            /\ Goto(c, "check.dialog")
            /\ UNCHANGED <<evidence, clear, result>>
         \/ n >= MaxEnters /\ Finish(c, "stuck")
  /\ UNCHANGED session

\* Mutant of ScreenClear: the screen is looked at before the first Enter only.
ScreenClearOnce(c) ==
  /\ pc[c] = "check.dialog"
  /\ ~dialog \/ tries[c] > 0
  /\ clear' = IF tries[c] > 0 THEN clear ELSE [clear EXCEPT ![c] = opened]
  /\ Goto(c, "check.turn")
  /\ UNCHANGED <<session, tries, evidence, result>>

\* dialogOnScreen
ScreenClear(c) ==
  /\ pc[c] = "check.dialog"
  /\ ~dialog
  /\ clear' = [clear EXCEPT ![c] = opened]
  /\ Goto(c, "check.turn")
  /\ UNCHANGED <<session, tries, evidence, result>>

\* A screen that cannot be read counts as one without a dialog.
ScreenUnread(c) ==
  /\ c \in Blind
  /\ pc[c] = "check.dialog"
  /\ Goto(c, "check.turn")
  /\ UNCHANGED <<session, tries, evidence, clear, result>>

Blocked(c) ==
  /\ pc[c] = "check.dialog"
  /\ dialog
  /\ Finish(c, "blocked")
  /\ UNCHANGED session

\* midTurn: the roster says the session is at work, or the transcript grew.
Queued(c) ==
  /\ pc[c] = "check.turn"
  /\ turn \/ grew[c]
  /\ Finish(c, "queued")
  /\ UNCHANGED session

\* A running turn shows in neither as long as it writes nothing.
NotMidTurn(c) ==
  /\ pc[c] = "check.turn"
  /\ ~grew[c]
  /\ Goto(c, "enter")
  /\ UNCHANGED <<session, tries, evidence, clear, result>>

Enter(c) ==
  /\ pc[c] = "enter"
  /\ EnterAnswers \/ EnterSubmits \/ EnterIdle
  /\ clear' = [clear EXCEPT ![c] = MaxDialogs]
  /\ Goto(c, "wait.enter")
  /\ UNCHANGED <<tries, evidence, result>>

-----------------------------------------------------------------------------
(* The session on its own, and whoever else uses it. *)

calls == <<pc, tries, sighted, clear, result>>

\* A user record is appended that has the longest line of the calls in C.
Recorded(C) ==
  /\ seen' = [c \in Calls |-> seen[c] \/ (sighted[c] /\ c \in C)]
  /\ grew' = sighted

TurnBegins ==
  /\ ~turn
  /\ ~dialog
  /\ turn' = TRUE
  /\ UNCHANGED <<box, said, shown, lost, dialog, opened, quoted, calls, seen, grew>>

\* The box is consumed when the turn ends.
TurnEnds ==
  /\ turn
  /\ Submitted
  /\ turn' = (Boxed # {})
  /\ UNCHANGED <<quoted, calls, seen, grew>>

\* Its prompt and its tool results are user records too.
TurnWrites ==
  /\ turn
  /\ \E Q \in SUBSET Quoted : quoted' = quoted \cup Q /\ Recorded(Q)
  /\ UNCHANGED <<session, calls>>

\* The transcript has the prompt some time after the conversation.
Show(c) ==
  /\ shown[c] < said[c]
  /\ shown' = [shown EXCEPT ![c] = @ + 1]
  /\ Recorded({d \in Calls : c \in Lookalikes[d]})
  /\ UNCHANGED <<box, said, lost, turn, dialog, opened, quoted, calls>>

\* The calls whose longest line is somewhere in the transcript.
InTranscript == quoted \cup {c \in Calls : \E d \in Lookalikes[c] : shown[d] > 0}

\* The transcript is rewritten and shorter than a mark: it is read from the start
\* until it has that length again, and what is below the mark is missed then.
Rewrite ==
  /\ seen' \in [Calls -> BOOLEAN]
  /\ \A c \in Calls : seen'[c] => sighted[c] /\ c \in InTranscript
  /\ grew' \in [Calls -> BOOLEAN]
  /\ \A c \in Calls : grew'[c] => grew[c]
  /\ UNCHANGED <<session, quoted, calls>>

DialogOpens ==
  /\ ~dialog
  /\ opened < MaxDialogs
  /\ dialog' = TRUE
  /\ opened' = opened + 1
  /\ UNCHANGED <<box, said, shown, lost, turn, quoted, calls, seen, grew>>

\* Somebody answers it: the box survives, or is discarded with it.
DialogAnswered ==
  /\ dialog
  /\ dialog' = FALSE
  /\ \/ UNCHANGED <<box, lost>>
     \/ box' = Zero /\ lost' = lost \cup Boxed
  /\ UNCHANGED <<said, shown, turn, opened, quoted, calls, seen, grew>>

Reply(c) == ReplyAccepted(c) \/ ReplyAgain(c) \/ ReplyRefused(c) \/ ReplyUnanswered(c)

WaitDelivered(c) == ConfirmTranscript(c) \/ ConfirmState(c) \/ WaitTimesOut(c)

EnterUntilStarted(c) ==
  \/ ScreenClear(c) \/ ScreenUnread(c) \/ Blocked(c) \/ Queued(c) \/ NotMidTurn(c) \/ Enter(c)

Step(c) ==
  \/ Reply(c) \/ Paste(c) \/ SendFails(c) \/ BeginPaste(c)
  \/ WaitDelivered(c) \/ EnterUntilStarted(c)

Session ==
  \/ TurnBegins \/ TurnEnds \/ TurnWrites \/ Rewrite
  \/ (\E c \in Calls : Show(c)) \/ DialogOpens \/ DialogAnswered

Next == (\E c \in Calls : (Begin(c) \/ Step(c)) /\ UNCHANGED quoted) \/ Session

Spec == Init /\ [][Next]_vars

-----------------------------------------------------------------------------
TypeOK ==
  /\ box \in [Calls -> Nat] /\ said \in [Calls -> Nat] /\ shown \in [Calls -> Nat]
  /\ lost \subseteq Calls
  /\ turn \in BOOLEAN /\ dialog \in BOOLEAN
  /\ opened \in 0..MaxDialogs
  /\ pc \in [Calls -> PCs]
  /\ tries \in [Calls -> 0..(MaxReplies + MaxEnters)]
  /\ quoted \subseteq Quoted
  /\ sighted \in [Calls -> BOOLEAN] /\ seen \in [Calls -> BOOLEAN]
  /\ grew \in [Calls -> BOOLEAN]
  /\ clear \in [Calls -> 0..MaxDialogs]
  /\ result \in [Calls -> Results]

\* "a second submit_prompt would deliver the body twice" (confirmedQueued), and so
\* would a second way: as long as answers to its replies arrive, a call gets its
\* text to the session at most once, by reply or by paste, however often it or
\* another call on the session pressed Enter.
DeliveredOnce == \A c \in Calls \ LostAcks : box[c] + said[c] <= 1

\* A text that was reported as confirmed, started or queued is in the conversation
\* or in the box, unless a dialog took it: no Enter and no error of another call
\* makes it disappear.  "The text actually reached the conversation" (Landed) is
\* known of no more than its longest line: some prompt with that line is there, or
\* somebody else's record has it.
SuccessIsReal ==
  \A c \in Calls :
    /\ result[c] \in Successes => box[c] + said[c] > 0 \/ c \in lost
    /\ result[c] = "transcript" => c \in quoted \/ \E d \in Lookalikes[c] : said[d] > 0

\* "Enter is only sent after the screen has been checked for a dialog"
\* (submitEnterUntilStarted): the Enter of a call that can read the screen answers
\* a dialog only if that was opened after the call, since its last key, saw a
\* screen without one.
Careful(c) == Enter(c) /\ dialog => opened > clear[c]

DialogsAreLeftAlone == [][\A c \in Calls \ Blind : Careful(c)]_vars

\* "A read failure is reported as no dialog: ... every one of them has a safe
\* fallback that does not press it" (dialogOnScreen): no call at all does.
NoBlindEnter == [][\A c \in Calls : Careful(c)]_vars
=============================================================================
