---------------------------- MODULE SubmitProofs ----------------------------
(***************************************************************************)
(* Proofs about Submit, for any number of calls on the session, any limits *)
(* on the attempts and any bound on dialogs.                               *)
(***************************************************************************)
EXTENDS Submit, TLAPS

Types ==
  /\ box \in [Calls -> Nat] /\ said \in [Calls -> Nat] /\ shown \in [Calls -> Nat]
  /\ lost \subseteq Calls
  /\ turn \in BOOLEAN /\ dialog \in BOOLEAN
  /\ opened \in 0..MaxDialogs
  /\ pc \in [Calls -> PCs]
  /\ sighted \in [Calls -> BOOLEAN] /\ seen \in [Calls -> BOOLEAN]
  /\ clear \in [Calls -> 0..MaxDialogs]
  /\ result \in [Calls -> Results]

\* Where a call has not handed its text to anybody.
Keeping(c) == pc[c] \in {"idle", "reply"} \/ (pc[c] = "paste" /\ c \notin LostAcks)

\* Where it has.
Handing == {"wait.reply", "begin.paste", "check.dialog", "check.turn", "enter", "wait.enter"}

Copies ==
  \A c \in Calls :
    /\ Keeping(c) => box[c] = 0 /\ said[c] = 0
    /\ c \notin LostAcks => box[c] + said[c] <= 1

Whereabouts ==
  \A c \in Calls :
    /\ shown[c] <= said[c]
    /\ pc[c] \in Handing \/ result[c] \in Successes
         => box[c] + said[c] > 0 \/ c \in lost
    /\ result[c] # "none" => pc[c] = "done"

Caution ==
  \A c \in Calls \ Blind :
    pc[c] \in {"check.turn", "enter"} =>
      clear[c] <= opened /\ (dialog => clear[c] < opened)

\* Inductive: what the calls and the session do to one text, and what a call
\* knows of dialogs between its look at the screen and its key.
SubmitInv == Types /\ Copies /\ Whereabouts /\ Caution

-----------------------------------------------------------------------------
\* A call starts with its text in its own hands.
LEMMA InitInv == Init => SubmitInv
  <1> SUFFICES ASSUME Init PROVE SubmitInv
    OBVIOUS
  <1> USE DEF Init, Zero, No
  <1>1. Types
    <2>1. /\ box \in [Calls -> Nat] /\ said \in [Calls -> Nat] /\ shown \in [Calls -> Nat]
      OBVIOUS
    <2>2. opened \in 0..MaxDialogs /\ clear \in [Calls -> 0..MaxDialogs]
      BY BoundsAssumption
    <2>3. /\ turn \in BOOLEAN /\ dialog \in BOOLEAN /\ sighted \in [Calls -> BOOLEAN]
          /\ seen \in [Calls -> BOOLEAN] /\ lost \subseteq Calls
      OBVIOUS
    <2>4. pc \in [Calls -> PCs] /\ result \in [Calls -> Results]
      BY DEF PCs, Results, Successes
    <2> QED BY <2>1, <2>2, <2>3, <2>4 DEF Types
  <1>2. Copies /\ Whereabouts /\ Caution
    BY DEF Copies, Whereabouts, Caution, Keeping, Handing, Successes
  <1> QED BY <1>1, <1>2 DEF SubmitInv

\* Steps of a call that leave the session alone.
Inner(c) ==
  \/ Begin(c) \/ ReplyAgain(c) \/ ReplyRefused(c) \/ SendFails(c) \/ BeginPaste(c)
  \/ WaitDelivered(c) \/ ScreenClear(c) \/ ScreenUnread(c) \/ Blocked(c) \/ Queued(c)
  \/ NotMidTurn(c)

LEMMA InnerTypes ==
  ASSUME SubmitInv, NEW c \in Calls, Inner(c) PROVE Types'
  <1> USE DEF SubmitInv, Types, session
  <1>1. CASE Begin(c) \/ BeginPaste(c)
    BY <1>1 DEF Begin, BeginPaste, BeginDelivery, Goto, PCs
  <1>2. CASE ReplyAgain(c) \/ ReplyRefused(c)
    BY <1>2 DEF ReplyAgain, ReplyRefused, Goto, PCs, evidence
  <1>3. ASSUME NEW r \in Results, Finish(c, r), UNCHANGED session PROVE Types'
    <2>1. pc' \in [Calls -> PCs] /\ result' \in [Calls -> Results]
      BY <1>3 DEF Finish, Goto, PCs
    <2>2. sighted' \in [Calls -> BOOLEAN] /\ seen' \in [Calls -> BOOLEAN]
      BY <1>3 DEF Finish
    <2>3. clear' \in [Calls -> 0..MaxDialogs]
      BY <1>3, BoundsAssumption DEF Finish
    <2> QED BY <1>3, <2>1, <2>2, <2>3
  <1>4. CASE SendFails(c) \/ Blocked(c) \/ Queued(c) \/ WaitDelivered(c)
    <2>1. CASE \E r \in Results : Finish(c, r) /\ UNCHANGED session
      BY <2>1, <1>3
    <2>2. CASE /\ Goto(c, "check.dialog")
               /\ UNCHANGED <<session, sighted, seen, clear, result>>
      BY <2>2 DEF Goto, PCs
    <2> QED BY <1>4, <2>1, <2>2 DEF SendFails, Blocked, Queued, WaitDelivered, ConfirmTranscript,
                ConfirmState, WaitTimesOut, Results, Successes, evidence
  <1>5. CASE ScreenClear(c) \/ ScreenUnread(c) \/ NotMidTurn(c)
    BY <1>5 DEF ScreenClear, ScreenUnread, NotMidTurn, Goto, PCs, evidence
  <1> QED BY <1>1, <1>2, <1>3, <1>4, <1>5 DEF Inner

LEMMA InnerInv ==
  ASSUME SubmitInv, NEW c \in Calls, Inner(c) PROVE SubmitInv'
  <1> USE DEF session
  <1>1. Types /\ Types'
    BY InnerTypes DEF SubmitInv
  <1>2. UNCHANGED <<box, said, shown, lost, opened, dialog>>
    BY DEF Inner, Begin, BeginPaste, BeginDelivery, ReplyAgain, ReplyRefused, SendFails, Blocked,
           Queued, WaitDelivered, ConfirmTranscript, ConfirmState, WaitTimesOut, ScreenClear,
           ScreenUnread, NotMidTurn
  \* Only the call's own place moves, and never back to where it keeps its text.
  <1>3. \A d \in Calls \ {c} :
          pc'[d] = pc[d] /\ result'[d] = result[d] /\ clear'[d] = clear[d]
    BY <1>1 DEF Types, Inner, Begin, BeginPaste, BeginDelivery, ReplyAgain, ReplyRefused, SendFails,
           Blocked, Queued, WaitDelivered, ConfirmTranscript, ConfirmState, WaitTimesOut, ScreenClear,
           ScreenUnread, NotMidTurn, Finish, Goto
  <1>4. Keeping(c)' => Keeping(c)
    BY <1>1 DEF Types, Keeping, Inner, Begin, BeginPaste, BeginDelivery, ReplyAgain, ReplyRefused,
           SendFails, Blocked, Queued, WaitDelivered, ConfirmTranscript, ConfirmState, WaitTimesOut,
           ScreenClear, ScreenUnread, NotMidTurn, Finish, Goto
  <1>5. pc'[c] \in Handing \/ result'[c] \in Successes
          => pc[c] \in Handing \/ result[c] \in Successes
    BY <1>1 DEF Types, Handing, Inner, Begin, BeginPaste, BeginDelivery, ReplyAgain, ReplyRefused,
           SendFails, Blocked, Queued, WaitDelivered, ConfirmTranscript, ConfirmState, WaitTimesOut,
           ScreenClear, ScreenUnread, NotMidTurn, Finish, Goto, Waiting, Successes
  <1>6. Copies'
    BY <1>1, <1>2, <1>3, <1>4 DEF SubmitInv, Copies, Keeping
  <1>7. result'[c] # "none" => pc'[c] = "done"
    BY <1>1 DEF SubmitInv, Types, Whereabouts, Inner, Begin, BeginPaste, BeginDelivery,
         ReplyAgain, ReplyRefused, SendFails, Blocked, Queued, WaitDelivered, ConfirmTranscript,
         ConfirmState, WaitTimesOut, ScreenClear, ScreenUnread, NotMidTurn, Finish, Goto, Waiting
  <1>8. Whereabouts'
    BY <1>1, <1>2, <1>3, <1>5, <1>7 DEF SubmitInv, Whereabouts
  <1>9. c \notin Blind /\ pc'[c] \in {"check.turn", "enter"}
          => clear'[c] <= opened /\ (dialog => clear'[c] < opened)
    <2>1. CASE ScreenClear(c)
      BY <1>1, <2>1 DEF Types, ScreenClear
    <2>2. CASE NotMidTurn(c)
      BY <1>1, <2>2 DEF SubmitInv, Types, Caution, NotMidTurn, Goto
    <2>3. CASE ~ScreenClear(c) /\ ~NotMidTurn(c)
      BY <1>1, <2>3 DEF Types, Inner, Begin, BeginPaste, BeginDelivery,
           ReplyAgain, ReplyRefused, SendFails, Blocked, Queued, WaitDelivered, ConfirmTranscript,
           ConfirmState, WaitTimesOut, ScreenUnread, Finish, Goto
    <2> QED BY <2>1, <2>2, <2>3
  <1>10. Caution'
    BY <1>2, <1>3, <1>9 DEF SubmitInv, Caution
  <1> QED BY <1>1, <1>6, <1>8, <1>10 DEF SubmitInv

-----------------------------------------------------------------------------
(* The session's side: what happens to a text in the box. *)

\* A text is handed over: it is swallowed, goes to the box, or into a turn.
LEMMA Handed ==
  ASSUME SubmitInv, NEW c \in Calls, HandOver(c)
  PROVE  /\ box' \in [Calls -> Nat] /\ said' \in [Calls -> Nat]
         /\ shown' = shown /\ dialog' = dialog /\ opened' = opened
         /\ turn' \in BOOLEAN /\ lost' \subseteq Calls /\ lost \subseteq lost'
         /\ \A d \in Calls : said'[d] >= said[d] /\ box'[d] >= box[d]
         /\ \A d \in Calls \ {c} : said'[d] = said[d] /\ box'[d] = box[d]
         /\ box'[c] + said'[c] <= box[c] + said[c] + 1
         /\ box'[c] + said'[c] > 0 \/ c \in lost'
  <1> USE DEF SubmitInv, Types
  <1>1. CASE Swallow(c)
    BY <1>1 DEF Swallow
  <1>2. CASE IntoBox(c)
    BY <1>2 DEF IntoBox
  <1>3. CASE IntoTurn(c)
    BY <1>3 DEF IntoTurn
  <1> QED BY <1>1, <1>2, <1>3 DEF HandOver

\* A call that still keeps its text, or may hand it over twice, does so.
HandsOver(c) ==
  /\ HandOver(c)
  /\ Keeping(c) \/ c \in LostAcks
  /\ \E l \in {"wait.reply", "begin.paste", "paste"} :
       Goto(c, l) /\ (l = "paste" => c \in LostAcks)
  /\ UNCHANGED <<sighted, seen, clear, result>>

LEMMA HandsOverInv ==
  ASSUME SubmitInv, NEW c \in Calls, HandsOver(c), result[c] = "none" PROVE SubmitInv'
  <1> PICK l \in {"wait.reply", "begin.paste", "paste"} :
             Goto(c, l) /\ (l = "paste" => c \in LostAcks)
    BY DEF HandsOver
  <1>1. HandOver(c) /\ UNCHANGED <<sighted, seen, clear, result>>
    BY DEF HandsOver
  <1>2. /\ pc' = [pc EXCEPT ![c] = l] /\ pc \in [Calls -> PCs] /\ l \in PCs
    BY DEF Goto, SubmitInv, Types, PCs
  <1>3. Types'
    BY <1>1, <1>2, Handed DEF SubmitInv, Types
  <1>4. ~Keeping(c)'
    BY <1>2 DEF Keeping
  <1>5. c \notin LostAcks => box[c] = 0 /\ said[c] = 0
    BY DEF HandsOver, SubmitInv, Copies
  <1>6. Copies'
    <2> SUFFICES ASSUME NEW d \in Calls
                 PROVE /\ Keeping(d)' => box'[d] = 0 /\ said'[d] = 0
                       /\ d \notin LostAcks => box'[d] + said'[d] <= 1
      BY DEF Copies
    <2>1. CASE d = c
      BY <1>1, <1>4, <1>5, <2>1, Handed DEF SubmitInv, Types
    <2>2. CASE d # c
      BY <1>1, <1>2, <2>2, Handed DEF SubmitInv, Copies, Keeping
    <2> QED BY <2>1, <2>2
  <1>7. Whereabouts'
    <2> SUFFICES ASSUME NEW d \in Calls
                 PROVE /\ shown'[d] <= said'[d]
                       /\ pc'[d] \in Handing \/ result'[d] \in Successes
                            => box'[d] + said'[d] > 0 \/ d \in lost'
                       /\ result'[d] # "none" => pc'[d] = "done"
      BY DEF Whereabouts
    <2>1. shown'[d] <= said'[d]
      BY <1>1, Handed DEF SubmitInv, Types, Whereabouts
    <2>2. CASE d = c
      BY <1>1, <2>1, <2>2, Handed
    <2>3. CASE d # c
      BY <1>1, <1>2, <2>1, <2>3, Handed DEF SubmitInv, Types, Whereabouts
    <2> QED BY <2>2, <2>3
  <1>8. Caution'
    BY <1>1, <1>2, Handed DEF SubmitInv, Caution
  <1> QED BY <1>3, <1>6, <1>7, <1>8 DEF SubmitInv

LEMMA HandingInv ==
  ASSUME SubmitInv, NEW c \in Calls, ReplyAccepted(c) \/ ReplyUnanswered(c) \/ Paste(c)
  PROVE  SubmitInv'
  <1>1. pc[c] \in {"reply", "paste"}
    BY DEF ReplyAccepted, ReplyUnanswered, Paste
  <1>2. result[c] = "none"
    BY <1>1 DEF SubmitInv, Whereabouts
  <1>3. HandsOver(c)
    <2>1. CASE ReplyAccepted(c)
      BY <2>1 DEF ReplyAccepted, HandsOver, Keeping, evidence
    <2>2. CASE ReplyUnanswered(c)
      BY <2>2 DEF ReplyUnanswered, HandsOver, Keeping, evidence
    <2>3. CASE Paste(c)
      BY <2>3 DEF Paste, TypeIn, HandOver, HandsOver, Keeping, evidence
    <2> QED BY <2>1, <2>2, <2>3
  <1> QED BY <1>2, <1>3, HandsOverInv

\* Steps that only move texts within the session, or lose them: from the box to the
\* conversation, from there to the transcript, out of the box with a dialog.
Moves ==
  /\ box' \in [Calls -> Nat] /\ said' \in [Calls -> Nat] /\ shown' \in [Calls -> Nat]
  /\ turn' \in BOOLEAN /\ lost' \subseteq Calls
  /\ \A d \in Calls :
       /\ shown'[d] <= said'[d]
       /\ said[d] <= said'[d]
       /\ box'[d] + said'[d] <= box[d] + said[d]
       /\ box[d] + said[d] > 0 \/ d \in lost => box'[d] + said'[d] > 0 \/ d \in lost'

LEMMA MovesWithinSession ==
  ASSUME SubmitInv,
         \/ EnterAnswers \/ EnterSubmits \/ EnterIdle \/ TurnBegins \/ TurnEnds \/ TurnWrites \/ Rewrite
         \/ (\E c \in Calls : Show(c)) \/ DialogOpens \/ DialogAnswered
  PROVE  Moves
  <1> USE DEF SubmitInv, Types, Whereabouts, Moves, session
  <1>1. CASE EnterAnswers
    BY <1>1 DEF EnterAnswers, Boxed, Zero
  <1>2. CASE EnterSubmits
    BY <1>2 DEF EnterSubmits, Submitted, Zero
  <1>3. CASE EnterIdle \/ TurnBegins \/ TurnWrites \/ Rewrite \/ DialogOpens
    <2>1. UNCHANGED <<box, said, shown, lost>> /\ turn' \in BOOLEAN
      <3>1. CASE EnterIdle \/ TurnWrites \/ Rewrite
        BY <3>1 DEF EnterIdle, TurnWrites, Rewrite
      <3>2. CASE TurnBegins
        BY <3>2 DEF TurnBegins
      <3>3. CASE DialogOpens
        BY <3>3 DEF DialogOpens
      <3> QED BY <1>3, <3>1, <3>2, <3>3
    <2> QED BY <2>1
  <1>4. CASE TurnEnds
    BY <1>4 DEF TurnEnds, Submitted, Zero
  <1>5. ASSUME NEW c \in Calls, Show(c) PROVE Moves
    BY <1>5 DEF Show
  <1>6. CASE DialogAnswered
    <2>1. CASE UNCHANGED <<box, lost>>
      BY <1>6, <2>1 DEF DialogAnswered
    <2>2. CASE box' = Zero /\ lost' = lost \cup Boxed
      BY <1>6, <2>2 DEF DialogAnswered, Boxed, Zero
    <2> QED BY <1>6, <2>1, <2>2 DEF DialogAnswered
  <1> QED BY <1>1, <1>2, <1>3, <1>4, <1>5, <1>6

\* A text is in one place at most, as before.
LEMMA MovedCopies ==
  ASSUME SubmitInv, Moves, NEW d \in Calls
  PROVE  /\ Keeping(d) => box'[d] = 0 /\ said'[d] = 0
         /\ d \notin LostAcks => box'[d] + said'[d] <= 1
  <1>1. box[d] \in Nat /\ said[d] \in Nat /\ box'[d] \in Nat /\ said'[d] \in Nat
    BY DEF SubmitInv, Types, Moves
  <1>2. box'[d] + said'[d] <= box[d] + said[d]
    BY DEF Moves
  <1>3. /\ Keeping(d) => box[d] = 0 /\ said[d] = 0
        /\ d \notin LostAcks => box[d] + said[d] <= 1
    BY DEF SubmitInv, Copies
  <1>4. Keeping(d) => box'[d] = 0 /\ said'[d] = 0
    BY <1>1, <1>2, <1>3
  <1>5. d \notin LostAcks => box'[d] + said'[d] <= 1
    BY <1>1, <1>2, <1>3
  <1> QED BY <1>4, <1>5

\* What a session step keeps of the calls.
LEMMA MovesInv ==
  ASSUME SubmitInv, Moves, UNCHANGED <<pc, result>>
  PROVE  Copies' /\ Whereabouts'
  <1>1. Copies'
    BY MovedCopies DEF Copies, Keeping
  <1>2. Whereabouts'
    <2> SUFFICES ASSUME NEW d \in Calls
                 PROVE /\ shown'[d] <= said'[d]
                       /\ pc'[d] \in Handing \/ result'[d] \in Successes
                            => box'[d] + said'[d] > 0 \/ d \in lost'
                       /\ result'[d] # "none" => pc'[d] = "done"
      BY DEF Whereabouts
    <2>1. shown'[d] <= said'[d]
      BY DEF SubmitInv, Types, Moves, Whereabouts
    <2>2. pc'[d] \in Handing \/ result'[d] \in Successes
            => box'[d] + said'[d] > 0 \/ d \in lost'
      BY DEF SubmitInv, Moves, Whereabouts
    <2>3. result'[d] # "none" => pc'[d] = "done"
      BY DEF SubmitInv, Whereabouts
    <2> QED BY <2>1, <2>2, <2>3
  <1> QED BY <1>1, <1>2

LEMMA SessionInv ==
  ASSUME SubmitInv, Session PROVE SubmitInv'
  <1>1. Moves
    BY MovesWithinSession DEF Session
  <1>2. /\ UNCHANGED <<pc, result, sighted, clear>> /\ seen' \in [Calls -> BOOLEAN]
        /\ (opened' = opened /\ (dialog' => dialog)) \/ DialogOpens
        /\ dialog' \in BOOLEAN
    <2> USE DEF calls, session, SubmitInv, Types
    <2>1. CASE TurnBegins \/ TurnEnds
      BY <2>1 DEF TurnBegins, TurnEnds, Submitted
    <2>2. CASE TurnWrites \/ Rewrite \/ (\E c \in Calls : Show(c))
      BY <2>2 DEF TurnWrites, Rewrite, Show, Recorded
    <2>3. CASE DialogOpens
      BY <2>3 DEF DialogOpens
    <2>4. CASE DialogAnswered
      BY <2>4 DEF DialogAnswered
    <2> QED BY <2>1, <2>2, <2>3, <2>4 DEF Session
  <1>3. opened' \in 0..MaxDialogs /\ opened' >= opened /\ (dialog' => dialog \/ opened' > opened)
    BY <1>2, BoundsAssumption DEF DialogOpens, SubmitInv, Types
  <1>4. Types'
    BY <1>1, <1>2, <1>3 DEF SubmitInv, Types, Moves
  <1>5. Copies' /\ Whereabouts'
    BY <1>1, <1>2, MovesInv
  <1>6. Caution'
    <2> SUFFICES ASSUME NEW d \in Calls \ Blind, pc[d] \in {"check.turn", "enter"}
                 PROVE clear[d] <= opened' /\ (dialog' => clear[d] < opened')
      BY <1>2 DEF Caution
    <2>1. clear[d] <= opened /\ (dialog => clear[d] < opened)
      BY DEF SubmitInv, Caution
    <2>2. clear[d] \in Nat /\ opened \in Nat /\ opened' \in Nat
      BY <1>3, BoundsAssumption DEF SubmitInv, Types
    <2> QED BY <1>3, <2>1, <2>2
  <1> QED BY <1>4, <1>5, <1>6 DEF SubmitInv

\* The Enter of a call: the session moves, and the call goes on to wait.
LEMMA EnterInv ==
  ASSUME SubmitInv, NEW c \in Calls, Enter(c) PROVE SubmitInv'
  <1>1. Moves
    BY MovesWithinSession DEF Enter
  <1>2. /\ pc[c] = "enter" /\ pc' = [pc EXCEPT ![c] = "wait.enter"]
        /\ clear' = [clear EXCEPT ![c] = MaxDialogs]
        /\ UNCHANGED <<sighted, seen, result>>
    BY DEF Enter, Goto, evidence
  <1>3. opened' = opened /\ (dialog' => dialog) /\ dialog' \in BOOLEAN
    <2> USE DEF session, SubmitInv, Types
    <2>1. CASE EnterAnswers
      BY <2>1 DEF EnterAnswers
    <2>2. CASE EnterSubmits
      BY <2>2 DEF EnterSubmits, Submitted
    <2>3. CASE EnterIdle
      BY <2>3 DEF EnterIdle
    <2> QED BY <2>1, <2>2, <2>3 DEF Enter
  <1>4. Types'
    <2>1. pc' \in [Calls -> PCs]
      BY <1>2 DEF SubmitInv, Types, PCs
    <2>2. clear' \in [Calls -> 0..MaxDialogs]
      BY <1>2, BoundsAssumption DEF SubmitInv, Types
    <2> QED BY <1>1, <1>2, <1>3, <2>1, <2>2 DEF SubmitInv, Types, Moves
  <1>5. Copies'
    <2> SUFFICES ASSUME NEW d \in Calls
                 PROVE /\ Keeping(d)' => box'[d] = 0 /\ said'[d] = 0
                       /\ d \notin LostAcks => box'[d] + said'[d] <= 1
      BY DEF Copies
    <2>1. Keeping(d)' => Keeping(d)
      BY <1>2 DEF Keeping, SubmitInv, Types
    <2> QED BY <1>1, <2>1, MovedCopies
  <1>6. Whereabouts'
    <2> SUFFICES ASSUME NEW d \in Calls
                 PROVE /\ shown'[d] <= said'[d]
                       /\ pc'[d] \in Handing \/ result'[d] \in Successes
                            => box'[d] + said'[d] > 0 \/ d \in lost'
                       /\ result'[d] # "none" => pc'[d] = "done"
      BY DEF Whereabouts
    <2>1. shown'[d] <= said'[d]
      BY <1>1, <1>2 DEF SubmitInv, Types, Moves, Whereabouts
    <2>2. pc'[d] \in Handing => pc[d] \in Handing
      BY <1>2 DEF Handing, SubmitInv, Types
    <2>3. pc'[d] \in Handing \/ result'[d] \in Successes
            => box'[d] + said'[d] > 0 \/ d \in lost'
      BY <1>1, <1>2, <2>2 DEF SubmitInv, Moves, Whereabouts
    <2>4. result'[d] # "none" => pc'[d] = "done"
      BY <1>2 DEF SubmitInv, Types, Whereabouts
    <2> QED BY <2>1, <2>3, <2>4
  <1>7. Caution'
    BY <1>2, <1>3 DEF SubmitInv, Types, Caution
  <1> QED BY <1>4, <1>5, <1>6, <1>7 DEF SubmitInv

LEMMA NextInv ==
  ASSUME SubmitInv, [Next]_vars PROVE SubmitInv'
  <1>1. ASSUME NEW c \in Calls, Begin(c) \/ Step(c) PROVE SubmitInv'
    <2>1. CASE Inner(c)
      BY <2>1, InnerInv
    <2>2. CASE ReplyAccepted(c) \/ ReplyUnanswered(c) \/ Paste(c)
      BY <2>2, HandingInv
    <2>3. CASE Enter(c)
      BY <2>3, EnterInv
    <2> QED BY <1>1, <2>1, <2>2, <2>3 DEF Step, Reply, EnterUntilStarted, Inner
  <1>2. CASE Session
    BY <1>2, SessionInv
  <1>3. CASE UNCHANGED vars
    BY <1>3 DEF vars, session, evidence, SubmitInv, Types, Copies, Whereabouts, Caution, Keeping
  <1> QED BY <1>1, <1>2, <1>3 DEF Next

LEMMA InvHolds == Spec => []SubmitInv
  BY InitInv, NextInv, PTL DEF Spec

\* Inductive with the above: what a scan has seen is in the transcript, and so is
\* what a call has been told of.
Sightings ==
  /\ quoted \subseteq Quoted
  /\ \A c \in Calls : seen[c] \/ result[c] = "transcript" => c \in InTranscript

\* What the transcript has, or had, it is not told to forget.
LEMMA TranscriptGrows ==
  ASSUME SubmitInv, [Next]_vars
  PROVE  InTranscript \subseteq InTranscript'
  <1> SUFFICES /\ quoted \subseteq quoted'
               /\ \A c \in Calls : shown[c] > 0 => shown'[c] > 0
    BY LinesAssumption DEF InTranscript
  <1>1. CASE \E c \in Calls : (Begin(c) \/ Step(c)) /\ UNCHANGED quoted
    <2> PICK c \in Calls : (Begin(c) \/ Step(c)) /\ UNCHANGED quoted
      BY <1>1
    <2>1. shown' = shown
      <3>1. CASE Inner(c)
        BY <3>1 DEF Inner, Begin, BeginPaste, BeginDelivery, ReplyAgain, ReplyRefused, SendFails, Blocked,
           Queued, WaitDelivered, ConfirmTranscript, ConfirmState, WaitTimesOut, ScreenClear,
           ScreenUnread, NotMidTurn, session
      <3>2. CASE ReplyAccepted(c) \/ ReplyUnanswered(c) \/ Paste(c)
        BY <3>2 DEF ReplyAccepted, ReplyUnanswered, Paste, TypeIn, HandOver, Swallow, IntoBox, IntoTurn
      <3>3. CASE Enter(c)
        BY <3>3 DEF Enter, EnterAnswers, EnterSubmits, EnterIdle, Submitted, session
      <3> QED BY <3>1, <3>2, <3>3 DEF Step, Reply, EnterUntilStarted, Inner
    <2> QED BY <2>1
  <1>2. CASE Session
    <2>1. ASSUME NEW c \in Calls, Show(c) PROVE \A d \in Calls : shown[d] > 0 => shown'[d] > 0
      BY <2>1 DEF Show, SubmitInv, Types
    <2> QED
      BY <1>2, <2>1 DEF Session, TurnBegins, TurnEnds, TurnWrites, Rewrite, Show, DialogOpens,
         DialogAnswered, Submitted, session
  <1>3. CASE UNCHANGED vars
    BY <1>3 DEF vars, session
  <1> QED BY <1>1, <1>2, <1>3 DEF Next

\* A call sees nothing by its own steps, and is told of the transcript only after
\* its scan saw its line there.
LEMMA CallsSightings ==
  ASSUME SubmitInv, NEW c \in Calls, Begin(c) \/ Step(c), NEW d \in Calls
  PROVE  seen'[d] \/ result'[d] = "transcript" => seen[d] \/ result[d] = "transcript"
  <1> USE DEF SubmitInv, Types, evidence
  <1>1. CASE Begin(c) \/ BeginPaste(c)
    BY <1>1 DEF Begin, BeginPaste, BeginDelivery
  <1>2. ASSUME NEW r, Finish(c, r), r # "transcript" \/ seen[c]
        PROVE  seen'[d] \/ result'[d] = "transcript" => seen[d] \/ result[d] = "transcript"
    BY <1>2 DEF Finish
  <1>3. CASE SendFails(c) \/ Blocked(c) \/ Queued(c) \/ WaitDelivered(c)
    BY <1>2, <1>3 DEF SendFails, Blocked, Queued, WaitDelivered, ConfirmTranscript, ConfirmState,
       WaitTimesOut, Landed
  <1>4. CASE Reply(c) \/ Paste(c)
    BY <1>4 DEF Reply, ReplyAccepted, ReplyAgain, ReplyRefused, ReplyUnanswered, Paste
  <1>5. CASE ScreenClear(c) \/ ScreenUnread(c) \/ NotMidTurn(c) \/ Enter(c)
    BY <1>5 DEF ScreenClear, ScreenUnread, NotMidTurn, Enter
  <1> QED BY <1>1, <1>3, <1>4, <1>5 DEF Step, EnterUntilStarted

\* The session shows a scan only what its transcript has.
LEMMA SessionSightings ==
  ASSUME SubmitInv, Sightings, Session, NEW d \in Calls, seen'[d]
  PROVE  seen[d] \/ d \in InTranscript'
  <1> USE DEF SubmitInv, Types
  <1>1. CASE TurnWrites
    BY <1>1 DEF TurnWrites, Recorded, InTranscript
  <1>2. ASSUME NEW c \in Calls, Show(c)
        PROVE  seen[d] \/ d \in InTranscript'
    <2>1. shown'[c] > 0 /\ (seen[d] \/ c \in Lookalikes[d])
      BY <1>2 DEF Show, Recorded
    <2> QED BY <2>1 DEF InTranscript
  <1>3. CASE Rewrite
    BY <1>3 DEF Rewrite, InTranscript, session
  <1>4. CASE TurnBegins \/ TurnEnds \/ DialogOpens \/ DialogAnswered
    BY <1>4 DEF TurnBegins, TurnEnds, DialogOpens, DialogAnswered
  <1> QED BY <1>1, <1>2, <1>3, <1>4 DEF Session

LEMMA SightingsInit == Init => Sightings
  BY DEF Init, No, Sightings

LEMMA SightingsStep == SubmitInv /\ Sightings /\ [Next]_vars => Sightings'
  <1> SUFFICES ASSUME SubmitInv, Sightings, [Next]_vars PROVE Sightings'
    OBVIOUS
  <1>1. InTranscript \subseteq InTranscript'
    BY TranscriptGrows
  <1>2. CASE \E c \in Calls : (Begin(c) \/ Step(c)) /\ UNCHANGED quoted
    BY <1>1, <1>2, CallsSightings DEF Sightings
  <1>3. CASE Session
    <2>1. result' = result
      BY <1>3 DEF Session, TurnBegins, TurnEnds, TurnWrites, Rewrite, Show, DialogOpens,
         DialogAnswered, calls
    <2>2. quoted' \subseteq Quoted
      BY <1>3 DEF Session, TurnBegins, TurnEnds, TurnWrites, Rewrite, Show, DialogOpens,
         DialogAnswered, Sightings
    <2> QED BY <1>1, <1>3, <2>1, <2>2, SessionSightings DEF Sightings
  <1>4. CASE UNCHANGED vars
    BY <1>1, <1>4 DEF vars, evidence, Sightings
  <1> QED BY <1>2, <1>3, <1>4 DEF Next

LEMMA SightingsHold == Spec => []Sightings
  BY SightingsInit, SightingsStep, InvHolds, PTL DEF Spec

-----------------------------------------------------------------------------
\* A call whose replies are answered gets its text to the session at most once.
THEOREM SubmitDeliveredOnce == Spec => []DeliveredOnce
  <1>1. SubmitInv => DeliveredOnce
    BY DEF SubmitInv, Copies, DeliveredOnce
  <1> QED BY <1>1, InvHolds, PTL

\* What a call reports as confirmed, started or queued is in the conversation or in
\* the box, unless a dialog took it, whatever the other calls on the session press.
\* If it reports the transcript, its longest line is in the conversation or in a
\* record of somebody else: in the conversation, and by its own text, when no other
\* record can have that line.
THEOREM SubmitSuccessIsReal ==
  Spec => /\ []SuccessIsReal
          /\ [](\A c \in Calls : result[c] = "transcript" /\ c \notin Quoted /\ Lookalikes[c] \subseteq {c}
                                   => said[c] > 0)
  <1>1. SubmitInv /\ Sightings => SuccessIsReal
    <2> SUFFICES ASSUME SubmitInv, Sightings, NEW c \in Calls
                 PROVE /\ result[c] \in Successes => box[c] + said[c] > 0 \/ c \in lost
                       /\ result[c] = "transcript" =>
                            c \in quoted \/ \E d \in Lookalikes[c] : said[d] > 0
      BY DEF SuccessIsReal
    <2>1. result[c] \in Successes => box[c] + said[c] > 0 \/ c \in lost
      BY DEF SubmitInv, Whereabouts
    <2>2. ASSUME c \in InTranscript \ quoted PROVE \E d \in Lookalikes[c] : said[d] > 0
      <3> PICK d \in Lookalikes[c] : shown[d] > 0
        BY <2>2 DEF InTranscript
      <3>1. d \in Calls
        BY LinesAssumption
      <3> QED BY <3>1 DEF SubmitInv, Types, Whereabouts
    <2> QED BY <2>1, <2>2 DEF Sightings
  <1>2. SuccessIsReal /\ Sightings =>
          \A c \in Calls : result[c] = "transcript" /\ c \notin Quoted /\ Lookalikes[c] \subseteq {c}
                             => said[c] > 0
    BY DEF SuccessIsReal, Sightings
  <1> QED BY <1>1, <1>2, InvHolds, SightingsHold, PTL

\* A call that can read its screen answers no dialog that was up when it looked.
THEOREM SubmitDialogsAreLeftAlone == Spec => DialogsAreLeftAlone
  <1>1. SubmitInv /\ [Next]_vars => [\A c \in Calls \ Blind : Careful(c)]_vars
    <2> SUFFICES ASSUME SubmitInv, NEW c \in Calls \ Blind, Enter(c), dialog
                 PROVE opened > clear[c]
      BY DEF Careful
    <2>1. clear[c] < opened
      BY DEF Enter, SubmitInv, Caution
    <2>2. clear[c] \in Nat /\ opened \in Nat
      BY BoundsAssumption DEF SubmitInv, Types
    <2> QED BY <2>1, <2>2
  <1> QED BY <1>1, InvHolds, PTL DEF Spec, DialogsAreLeftAlone

-----------------------------------------------------------------------------
(***************************************************************************)
(* The two loops of a call end: the attempts it has made are below the     *)
(* limit of the loop it is in, and it starts each loop at none.            *)
(***************************************************************************)
CountTypes ==
  /\ tries \in [Calls -> Nat]
  /\ grew \in [Calls -> BOOLEAN]

Attempts(c) ==
  /\ pc[c] = "reply" => tries[c] < MaxReplies
  /\ pc[c] \in {"paste", "begin.paste"} => tries[c] <= MaxReplies
  /\ pc[c] \in {"wait.reply", "check.dialog", "check.turn", "enter", "wait.enter"}
       => tries[c] < MaxEnters
  /\ pc[c] \in {"idle", "done"} => tries[c] = 0

LimitsInv == CountTypes /\ \A c \in Calls : Attempts(c)

LEMMA LimitsInit == Init => LimitsInv
  BY LimitsAssumption DEF Init, Zero, No, LimitsInv, CountTypes, Attempts

LEMMA LimitsOfCalls ==
  ASSUME SubmitInv, LimitsInv, NEW c \in Calls, Begin(c) \/ Step(c)
  PROVE  LimitsInv'
  <1> USE LimitsAssumption DEF SubmitInv, Types, LimitsInv, CountTypes, Attempts, session, evidence, Goto
  <1>1. ASSUME NEW r, Finish(c, r)
        PROVE  LimitsInv'
    BY <1>1 DEF Finish
  <1>2. ASSUME NEW next \in {"reply", "check.dialog"}, BeginDelivery(c, next)
        PROVE  LimitsInv'
    BY <1>2 DEF BeginDelivery
  <1>3. ASSUME Reply(c) \/ Paste(c)
        PROVE  LimitsInv'
    <2>1. UNCHANGED grew
      BY <1>3 DEF Reply, ReplyAccepted, ReplyAgain, ReplyRefused, ReplyUnanswered, Paste,
                  HandOver, TypeIn, Swallow, IntoBox, IntoTurn
    <2> QED
      BY <1>3, <2>1 DEF Reply, ReplyAccepted, ReplyAgain, ReplyRefused, ReplyUnanswered, Paste
  <1>4. ASSUME Begin(c) \/ BeginPaste(c)
        PROVE  LimitsInv'
    BY <1>2, <1>4 DEF Begin, BeginPaste
  <1>5. ASSUME SendFails(c) \/ ConfirmTranscript(c) \/ ConfirmState(c) \/ Blocked(c) \/ Queued(c)
        PROVE  LimitsInv'
    BY <1>1, <1>5 DEF SendFails, ConfirmTranscript, ConfirmState, Blocked, Queued
  <1>6. ASSUME WaitTimesOut(c)
        PROVE  LimitsInv'
    BY <1>1, <1>6 DEF WaitTimesOut, Waiting
  <1>7. ASSUME ScreenClear(c) \/ ScreenUnread(c) \/ NotMidTurn(c)
        PROVE  LimitsInv'
    BY <1>7 DEF ScreenClear, ScreenUnread, NotMidTurn
  <1>8. ASSUME Enter(c)
        PROVE  LimitsInv'
    <2>1. UNCHANGED <<grew, tries>>
      BY <1>8 DEF Enter, EnterAnswers, EnterSubmits, EnterIdle
    <2> QED
      BY <1>8, <2>1 DEF Enter
  <1> QED
    BY <1>3, <1>4, <1>5, <1>6, <1>7, <1>8 DEF Step, EnterUntilStarted, WaitDelivered

LEMMA LimitsStep == SubmitInv /\ LimitsInv /\ [Next]_vars => LimitsInv'
  <1> SUFFICES ASSUME SubmitInv, LimitsInv, [Next]_vars PROVE LimitsInv'
    OBVIOUS
  <1>1. CASE Session
    <2>1. UNCHANGED <<pc, tries>>
      BY <1>1 DEF Session, TurnBegins, TurnEnds, TurnWrites, Rewrite, Recorded, Show, DialogOpens, DialogAnswered, calls
    <2>2. grew' \in [Calls -> BOOLEAN]
      BY <1>1 DEF Session, TurnBegins, TurnEnds, TurnWrites, Rewrite, Recorded, Show, DialogOpens, DialogAnswered,
                  SubmitInv, Types, LimitsInv, CountTypes
    <2> QED BY <2>1, <2>2 DEF LimitsInv, CountTypes, Attempts
  <1>2. CASE UNCHANGED vars
    BY <1>2 DEF vars, session, evidence, LimitsInv, CountTypes, Attempts
  <1> QED BY <1>1, <1>2, LimitsOfCalls DEF Next

\* Every value the variables take is of its type; no loop of a call goes past its
\* limit, whatever the daemon answers and the session shows (Client.Reply,
\* submitEnterUntilStarted).
THEOREM SubmitTypeOK == Spec => []TypeOK
  <1>1. SubmitInv /\ Sightings /\ LimitsInv => TypeOK
    <2> SUFFICES ASSUME SubmitInv, Sightings, LimitsInv PROVE TypeOK
      OBVIOUS
    <2>1. tries \in [Calls -> 0..(MaxReplies + MaxEnters)]
      <3> SUFFICES ASSUME NEW c \in Calls PROVE tries[c] \in 0..(MaxReplies + MaxEnters)
        BY DEF LimitsInv, CountTypes
      <3>1. pc[c] \in PCs /\ tries[c] \in Nat /\ Attempts(c)
        BY DEF SubmitInv, Types, LimitsInv, CountTypes
      <3> QED BY <3>1, LimitsAssumption DEF PCs, Attempts
    <2> QED BY <2>1 DEF TypeOK, SubmitInv, Types, Sightings, LimitsInv, CountTypes
  <1> QED BY <1>1, InvHolds, SightingsHold, LimitsInit, LimitsStep, PTL DEF Spec

-----------------------------------------------------------------------------
(***************************************************************************)
(* A call runs out of steps: each look, key and wait of the two loops      *)
(* leaves less to do, and neither the session nor another call adds any.   *)
(***************************************************************************)

\* An Enter that is still to be pressed costs four steps: the two looks at the
\* session before it, the key, and the wait after it.
EntersLeft(c) == 4 * (MaxEnters - tries[c])

EnterSteps == 4 * MaxEnters

\* The most steps a call can still take.
StepsLeft(c) ==
  CASE pc[c] = "reply" -> EnterSteps + 6 + (MaxReplies - tries[c])
    [] pc[c] = "paste" -> EnterSteps + 6
    [] pc[c] \in {"begin.paste", "wait.reply"} -> EnterSteps + 5
    [] pc[c] = "check.dialog" -> EntersLeft(c) + 4
    [] pc[c] = "check.turn" -> EntersLeft(c) + 3
    [] pc[c] = "enter" -> EntersLeft(c) + 2
    [] pc[c] = "wait.enter" -> EntersLeft(c) + 1
    [] OTHER -> 0

StepsAtPlace(c) ==
  /\ pc[c] = "reply" => StepsLeft(c) = EnterSteps + 6 + (MaxReplies - tries[c])
  /\ pc[c] = "paste" => StepsLeft(c) = EnterSteps + 6
  /\ pc[c] \in {"begin.paste", "wait.reply"} => StepsLeft(c) = EnterSteps + 5
  /\ pc[c] = "check.dialog" => StepsLeft(c) = EntersLeft(c) + 4
  /\ pc[c] = "check.turn" => StepsLeft(c) = EntersLeft(c) + 3
  /\ pc[c] = "enter" => StepsLeft(c) = EntersLeft(c) + 2
  /\ pc[c] = "wait.enter" => StepsLeft(c) = EntersLeft(c) + 1
  /\ pc[c] \in {"idle", "done"} => StepsLeft(c) = 0

StepsByPlace == \A c \in Calls : StepsAtPlace(c)

\* The steps left at each place.
LEMMA StepsTable == StepsByPlace
  <1> SUFFICES ASSUME NEW c \in Calls PROVE StepsAtPlace(c)
    BY Zenon DEF StepsByPlace
  <1> QED
    BY DEF StepsAtPlace, StepsLeft

\* A call that is under way has between one and 4 * MaxEnters + MaxReplies + 6 steps
\* to go, one that is over has none.
Limited(c) ==
  /\ StepsLeft(c) \in 0..(EnterSteps + MaxReplies + 6)
  /\ StepsLeft(c) = 0 <=> pc[c] \in {"idle", "done"}

InLimits == \A c \in Calls : Limited(c)

LEMMA StepsInLimits == SubmitInv /\ LimitsInv => InLimits
  <1> SUFFICES ASSUME SubmitInv, LimitsInv, NEW c \in Calls PROVE Limited(c)
    BY Zenon DEF InLimits
  <1>1. StepsAtPlace(c)
    BY StepsTable, Zenon DEF StepsByPlace
  <1>2. /\ pc[c] \in PCs /\ tries[c] \in Nat /\ Attempts(c)
        /\ MaxEnters \in Nat \ {0} /\ MaxReplies \in Nat \ {0}
    BY LimitsAssumption DEF SubmitInv, Types, LimitsInv, CountTypes
  <1> QED
    BY <1>1, <1>2 DEF Limited, StepsAtPlace, PCs, Attempts, EntersLeft, EnterSteps

\* Where a step takes a call, and what it does to the count of its attempts.
Onward(c) ==
  \/ pc'[c] = "done"
  \/ pc[c] = "reply" /\ pc'[c] \in {"wait.reply", "paste"}
  \/ pc[c] = "reply" /\ pc'[c] = "reply" /\ tries'[c] = tries[c] + 1
  \/ pc[c] = "paste" /\ pc'[c] = "begin.paste"
  \/ pc[c] = "begin.paste" /\ pc'[c] = "check.dialog" /\ tries'[c] = 0
  \/ pc[c] = "wait.reply" /\ pc'[c] = "check.dialog" /\ tries'[c] = tries[c]
  \/ pc[c] = "wait.enter" /\ pc'[c] = "check.dialog" /\ tries'[c] = tries[c] + 1
  \/ pc[c] = "check.dialog" /\ pc'[c] = "check.turn" /\ tries'[c] = tries[c]
  \/ pc[c] = "check.turn" /\ pc'[c] = "enter" /\ tries'[c] = tries[c]
  \/ pc[c] = "enter" /\ pc'[c] = "wait.enter" /\ tries'[c] = tries[c]

LEMMA StepGoesOn ==
  ASSUME SubmitInv, LimitsInv, NEW c \in Calls, Step(c)
  PROVE  Onward(c) /\ pc[c] \notin {"idle", "done"}
  <1> USE DEF SubmitInv, Types, LimitsInv, CountTypes, evidence, Goto, Onward
  <1>1. CASE Reply(c)
    BY <1>1 DEF Reply, ReplyAccepted, ReplyAgain, ReplyRefused, ReplyUnanswered
  <1>2. CASE Paste(c)
    BY <1>2 DEF Paste
  <1>3. CASE BeginPaste(c)
    BY <1>3 DEF BeginPaste, BeginDelivery
  <1>4. CASE SendFails(c) \/ ConfirmTranscript(c) \/ ConfirmState(c) \/ Blocked(c) \/ Queued(c)
    BY <1>4 DEF SendFails, ConfirmTranscript, ConfirmState, Blocked, Queued, Finish, Waiting
  <1>5. CASE WaitTimesOut(c)
    BY <1>5 DEF WaitTimesOut, Waiting, Finish
  <1>6. CASE ScreenClear(c) \/ ScreenUnread(c) \/ NotMidTurn(c)
    BY <1>6 DEF ScreenClear, ScreenUnread, NotMidTurn
  <1>7. CASE Enter(c)
    BY <1>7 DEF Enter
  <1> QED
    BY <1>1, <1>2, <1>3, <1>4, <1>5, <1>6, <1>7 DEF Step, EnterUntilStarted, WaitDelivered

\* A step of a call is one less to go.
LEMMA StepLeavesLess ==
  ASSUME SubmitInv, LimitsInv, NEW c \in Calls, Step(c)
  PROVE  StepsLeft(c)' < StepsLeft(c)
  <1>1. StepsAtPlace(c) /\ StepsAtPlace(c)'
    <2>1. StepsByPlace'
      BY StepsTable, PTL
    <2> QED
      BY <2>1, StepsTable, Zenon DEF StepsByPlace
  <1>2. Attempts(c) /\ tries[c] \in Nat /\ pc[c] \in PCs
    BY DEF SubmitInv, Types, LimitsInv, CountTypes
  <1>3. Onward(c) /\ pc[c] \notin {"idle", "done"}
    BY StepGoesOn
  <1> QED
    BY <1>1, <1>2, <1>3, LimitsAssumption
       DEF StepsAtPlace, Attempts, Onward, EntersLeft, EnterSteps, PCs

\* Neither the session nor another call gives a call more to do.
LEMMA OthersLeaveSteps ==
  ASSUME SubmitInv, LimitsInv, [Next]_vars, NEW c \in Calls, ~(Begin(c) \/ Step(c))
  PROVE  StepsLeft(c)' = StepsLeft(c)
  <1> SUFFICES pc'[c] = pc[c] /\ tries'[c] = tries[c]
    BY DEF StepsLeft, EntersLeft, EnterSteps
  <1>1. ASSUME NEW d \in Calls, d # c, Begin(d) \/ Step(d)
        PROVE  pc'[c] = pc[c] /\ tries'[c] = tries[c]
    <2> USE <1>1 DEF SubmitInv, Types, LimitsInv, CountTypes, evidence, Goto
    <2>1. CASE Reply(d) \/ Paste(d)
      BY <2>1 DEF Reply, ReplyAccepted, ReplyAgain, ReplyRefused, ReplyUnanswered, Paste
    <2>2. CASE Begin(d) \/ BeginPaste(d)
      BY <2>2 DEF Begin, BeginPaste, BeginDelivery
    <2>3. CASE \/ SendFails(d) \/ ConfirmTranscript(d) \/ ConfirmState(d) \/ WaitTimesOut(d)
               \/ Blocked(d) \/ Queued(d)
      BY <2>3 DEF SendFails, ConfirmTranscript, ConfirmState, WaitTimesOut, Blocked, Queued, Finish
    <2>4. CASE ScreenClear(d) \/ ScreenUnread(d) \/ NotMidTurn(d) \/ Enter(d)
      BY <2>4 DEF ScreenClear, ScreenUnread, NotMidTurn, Enter
    <2> QED
      BY <1>1, <2>1, <2>2, <2>3, <2>4 DEF Step, EnterUntilStarted, WaitDelivered
  <1>2. CASE Session
    BY <1>2 DEF Session, TurnBegins, TurnEnds, TurnWrites, Rewrite, Recorded, Show, DialogOpens, DialogAnswered, calls
  <1>3. CASE UNCHANGED vars
    BY <1>3 DEF vars
  <1> QED
    BY <1>1, <1>2, <1>3 DEF Next

\* Each step of a call is one less to go, and no step of the session or of another
\* call gives it one more.
RunsOut ==
  [][\A c \in Calls :
       /\ Step(c) => StepsLeft(c)' < StepsLeft(c)
       /\ ~Begin(c) => StepsLeft(c)' <= StepsLeft(c)]_vars

\* A call of SubmitPrompt takes at most 4 * MaxEnters + MaxReplies + 6 steps and is
\* then over, whatever the daemon answers and the session shows (the loops of
\* Client.Reply and submitEnterUntilStarted).
THEOREM SubmitCallsRunOut == Spec => []InLimits /\ RunsOut
  <1>1. ASSUME SubmitInv, LimitsInv, [Next]_vars, NEW c \in Calls
        PROVE  /\ Step(c) => StepsLeft(c)' < StepsLeft(c)
               /\ ~Begin(c) => StepsLeft(c)' <= StepsLeft(c)
    <2>1. SubmitInv' /\ LimitsInv' => InLimits'
      BY StepsInLimits, PTL
    <2>2. StepsLeft(c) \in Nat /\ StepsLeft(c)' \in Nat
      BY <1>1, <2>1, StepsInLimits, NextInv, LimitsStep, LimitsAssumption
         DEF InLimits, Limited, EnterSteps
    <2> QED
      BY <1>1, <2>2, StepLeavesLess, OthersLeaveSteps
  <1>2. SubmitInv /\ LimitsInv /\ [Next]_vars =>
          [\A c \in Calls :
             /\ Step(c) => StepsLeft(c)' < StepsLeft(c)
             /\ ~Begin(c) => StepsLeft(c)' <= StepsLeft(c)]_vars
    BY <1>1
  <1> QED
    BY <1>2, InvHolds, LimitsInit, LimitsStep, StepsInLimits, PTL DEF Spec, RunsOut
=============================================================================
