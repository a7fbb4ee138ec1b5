----------------------------- MODULE Permission -----------------------------
(***************************************************************************)
(* SetPermissionMode (permission.go): calls, one after the other, that put *)
(* a session into a permission mode.  A live session is taken there by     *)
(* shift+tab, one key and one read of the footer at a time; where the      *)
(* carousel does not lead, the worker is stopped, its launch flags are     *)
(* rewritten, and it is resumed.  Other people press keys, edit the flags, *)
(* stop and resume the session in between.                                 *)
(*                                                                         *)
(* The worker and the daemon are not in this repository; the comments say  *)
(* what is modelled of them: a worker is bypass-capable from its launch or *)
(* never, its footer shows a new mode some time after the key, and the     *)
(* daemon writes a session's job state until that has left the roster.     *)
(***************************************************************************)
EXTENDS Naturals

CONSTANTS
  Modes,
  Bypass,        \* ModeBypass
  DontAsk,       \* ModeDontAsk
  After,         \* the mode shift+tab leads to, in a worker that has them all
  MaxSteps,      \* const maxCycleSteps
  MaxAttempts,   \* ResumeInPlace: const maxAttempts
  SettingsBypass,\* settings.json asks for bypass by default
  Edits          \* bound: the launch flags others write

ASSUME ModesAssumption ==
  /\ {Bypass, DontAsk} \subseteq Modes
  /\ Bypass # DontAsk
  /\ After \in [Modes -> Modes \ {DontAsk}]
  /\ After[Bypass] # Bypass
ASSUME LimitsAssumption == MaxSteps \in Nat \ {0} /\ MaxAttempts \in Nat \ {0}
ASSUME SettingsAssumption == SettingsBypass \in BOOLEAN

Flags == [mode : Modes, allow : BOOLEAN]

ASSUME EditsAssumption == Edits \subseteq Flags

VARIABLES
  live,       \* the session is on the roster
  mode,       \* the mode of its worker
  capable,    \* that was launched bypass-capable
  footer,     \* the mode on its screen
  flags,      \* respawnFlags of its state.json; no mode flag means the settings' mode
  leaving,    \* the worker has been told to stop, and has not gone yet
  pc,         \* where in SetPermissionMode the call is
  call,       \* its arguments
  start,      \* CyclePermissionMode: the first mode read,
  cur,        \* and the last one
  steps,      \* keys pressed since the walk (back) began, or attempts to resume
  copy,       \* the flags ResumeInPlace has read
  result,     \* what the call returned
  alone,      \* history: since the call began nobody else has touched the session
  smooth      \* history: every key was taken and every footer was up to date

worker == <<live, mode, capable, footer, leaving>>
walk == <<start, cur, steps, copy, smooth>>
vars == <<worker, flags, pc, call, walk, result, alone>>

CallArgs == [target : Modes, restart : BOOLEAN, allow : BOOLEAN]

PCs == {"idle", "look", "reach", "cycle.look", "press", "read", "press.back", "read.back", "save",
        "stop", "wait.gone", "save.stopped", "save.offline", "resume", "launch", "await"}

Results == {"none", "switched", "unsaved", "written", "restarted", "error"}

\* What stands for no mode and no flags where none are known.
NoMode == Bypass
NoFlags == [mode |-> Bypass, allow |-> FALSE]

Init ==
  /\ \/ live = TRUE /\ mode \in Modes /\ capable \in BOOLEAN /\ (mode = Bypass => capable)
     \/ live = FALSE /\ mode = NoMode /\ capable = FALSE
  /\ footer = mode
  /\ flags \in Flags
  /\ leaving = FALSE
  /\ pc = "idle"
  /\ call \in [target : {mode}, restart : {FALSE}, allow : {FALSE}]
  /\ start = NoMode /\ cur = NoMode /\ steps = 0 /\ copy = NoFlags
  /\ result = "none"
  /\ alone = TRUE /\ smooth = TRUE

Goto(l) == pc' = l

ForgetWalk ==
  start' = NoMode /\ cur' = NoMode /\ steps' = 0 /\ copy' = NoFlags /\ smooth' = TRUE

Return(r) ==
  /\ Goto("idle")
  /\ result' = r
  /\ ForgetWalk

\* Whatever the flags said of permissions before is dropped.
ApplyModeToFlags(m, allow) == [mode |-> m, allow |-> allow /\ m # Bypass]

BypassAvailableFromFlags(f) == f.mode = Bypass \/ f.allow

\* An unreadable job state says nothing.
BypassAvailable(readable) == (readable /\ BypassAvailableFromFlags(flags)) \/ SettingsBypass

-----------------------------------------------------------------------------
(* The worker. *)

\* The carousel skips bypass in a worker that is not capable.
Follows(m, cap) == IF After[m] = Bypass /\ ~cap THEN After[Bypass] ELSE After[m]

NextMode == Follows(mode, capable)

\* The modes of one lap, and the keys it takes: from a mode back to it.
IsLap(lap, keys, m, cap) ==
  /\ lap \in [0..keys -> Modes]
  /\ lap[0] = m /\ lap[keys] = m
  /\ \A i \in 1..keys : lap[i] = Follows(lap[i - 1], cap)

\* "The carousel is at most five modes long ... so anything beyond a full lap" (maxCycleSteps):
\* a walk is long enough for a lap from any mode that shift+tab leads to.
ASSUME LapAssumption ==
  \A cap \in BOOLEAN, m \in Modes \ {DontAsk} :
    (m = Bypass => cap) =>
      \E keys \in 1..MaxSteps : \E lap \in [0..keys -> Modes] : IsLap(lap, keys, m, cap)

\* It comes up in the mode of its flags, capable or not once and for all.
LaunchWith(f) ==
  /\ ~live
  /\ live' = TRUE
  /\ mode' = f.mode /\ footer' = f.mode
  /\ capable' = (BypassAvailableFromFlags(f) \/ SettingsBypass)
  /\ UNCHANGED leaving

ToldToStop ==
  /\ leaving' = live
  /\ UNCHANGED <<live, mode, capable, footer>>

Repaint ==
  /\ live
  /\ footer' = mode
  /\ UNCHANGED <<live, mode, capable, leaving, flags, pc, call, walk, result, alone>>

\* It leaves the roster.
WorkerGone ==
  /\ leaving
  /\ live' = FALSE /\ mode' = NoMode /\ footer' = NoMode /\ capable' = FALSE
  /\ leaving' = FALSE
  /\ UNCHANGED <<flags, pc, call, walk, result, alone>>

-----------------------------------------------------------------------------
(* SetPermissionMode *)

\* The session as Resolve finds it; a worker that still stops, or repaints, is not
\* at rest.
Begin ==
  /\ pc = "idle"
  /\ call' \in CallArgs
  /\ Goto(IF live THEN "look" ELSE "save.offline")
  /\ result' = "none"
  /\ alone' = (~leaving /\ (live => footer = mode))
  /\ UNCHANGED <<worker, flags, walk>>

\* readMode, the first of SetPermissionMode
Look ==
  /\ pc = "look"
  /\ live
  /\ Goto(IF footer = call.target THEN "save" ELSE "reach")
  /\ UNCHANGED <<worker, flags, call, walk, result, alone>>

LookFails ==
  /\ pc = "look"
  /\ Return("error")
  /\ UNCHANGED <<worker, flags, call, alone>>

Unreached ==
  \/ call.restart /\ Goto("stop") /\ ForgetWalk /\ UNCHANGED result
  \/ ~call.restart /\ Return("error")

Reach ==
  /\ pc = "reach"
  /\ \E readable \in BOOLEAN :
       LET inCarousel == call.target # DontAsk /\ (call.target = Bypass => BypassAvailable(readable))
       IN  \/ inCarousel /\ Goto("cycle.look") /\ UNCHANGED <<walk, result>>
           \/ ~inCarousel /\ Unreached
  /\ UNCHANGED <<worker, flags, call, alone>>

\* CyclePermissionMode reads the mode again.
CycleLook ==
  /\ pc = "cycle.look"
  /\ live
  /\ start' = footer /\ cur' = footer /\ steps' = 0
  /\ Goto(IF footer = call.target THEN "save" ELSE "press")
  /\ UNCHANGED <<worker, flags, call, copy, smooth, result, alone>>

CycleLookFails ==
  /\ pc = "cycle.look"
  /\ Unreached
  /\ UNCHANGED <<worker, flags, call, alone>>

\* Mutant of Astray: the walk back does not look where it is.
AstrayByCount == steps < MaxSteps

\* A walk back ends where it began, or after as many keys as a walk.
Astray == cur # start /\ steps < MaxSteps

MayPress == pc = "press" \/ (pc = "press.back" /\ Astray)

\* Mutant of Pressed: the keys are not counted.
PressedUncounted == Goto(IF pc = "press" THEN "read" ELSE "read.back") /\ UNCHANGED steps

Pressed == Goto(IF pc = "press" THEN "read" ELSE "read.back") /\ steps' = steps + 1

\* pressCycle
Press ==
  /\ MayPress
  /\ live
  /\ mode' = NextMode
  /\ Pressed
  /\ UNCHANGED <<live, capable, footer, leaving, flags, call, start, cur, copy,
                 smooth, result, alone>>

\* A dialog has the keyboard.
PressSwallowed ==
  /\ MayPress
  /\ live
  /\ Pressed
  /\ smooth' = FALSE
  /\ UNCHANGED <<worker, flags, call, start, cur, copy, result, alone>>

\* The key cannot be sent, or no footer is found after it.  A walk back ends there.
PressFails ==
  /\ MayPress \/ pc \in {"read", "read.back"}
  /\ Unreached
  /\ UNCHANGED <<worker, flags, call, alone>>

Seen(l) ==
  /\ Goto(l)
  /\ cur' = footer
  /\ smooth' = (smooth /\ footer = mode)
  /\ UNCHANGED <<worker, flags, call, start, copy, result, alone>>

\* readMode after a key: it waits for another mode than before, but not for ever.
Arrive ==
  /\ pc = "read" /\ live
  /\ footer = call.target
  /\ Seen("save")
  /\ UNCHANGED steps

Stuck ==
  /\ pc = "read" /\ live
  /\ footer # call.target /\ footer = cur
  /\ Unreached
  /\ UNCHANGED <<worker, flags, call, alone>>

\* Mutant of LapDone: the walk goes on for as long as it takes.
LapOnly == footer = start

LapDone == footer = start \/ steps >= MaxSteps

WalkOn ==
  /\ pc = "read" /\ live
  /\ footer # call.target /\ footer # cur
  /\ ~LapDone
  /\ Seen("press")
  /\ UNCHANGED steps

\* Out of reach: back to where the walk began.
TurnBack ==
  /\ pc = "read" /\ live
  /\ footer # call.target /\ footer # cur
  /\ LapDone
  /\ Seen("press.back")
  /\ steps' = 0

Back ==
  /\ pc = "read.back" /\ live
  /\ Seen("press.back")
  /\ UNCHANGED steps

BackDone ==
  /\ pc = "press.back"
  /\ ~Astray
  /\ Unreached
  /\ UNCHANGED <<worker, flags, call, alone>>

\* SetJobPermissionMode.  The daemon writes over what is written to the job state of
\* a worker that is leaving.
SetFlags ==
  flags' = IF leaving THEN flags ELSE ApplyModeToFlags(call.target, call.allow)

\* In place, SetJobPermissionMode may fail without consequence.
Save ==
  /\ pc = "save"
  /\ \/ SetFlags /\ Return("switched")
     \/ UNCHANGED flags /\ Return("unsaved")
  /\ UNCHANGED <<worker, call, alone>>

SaveOffline ==
  /\ pc = "save.offline"
  /\ \/ SetFlags /\ call.restart /\ Goto("resume") /\ UNCHANGED <<walk, result>>
     \/ SetFlags /\ ~call.restart /\ Return("written")
     \/ UNCHANGED flags /\ Return("error")
  /\ UNCHANGED <<worker, call, alone>>

Stop ==
  /\ pc = "stop"
  /\ \/ ToldToStop /\ Goto("wait.gone") /\ UNCHANGED <<walk, result>>
     \/ UNCHANGED worker /\ Return("error")
  /\ UNCHANGED <<flags, call, alone>>

\* Mutant of WaitNotLive: the stop is taken for done.
WaitForNothing ==
  /\ pc = "wait.gone"
  /\ Goto("save.stopped")
  /\ UNCHANGED <<worker, flags, call, walk, result, alone>>

WaitNotLive ==
  /\ pc = "wait.gone"
  /\ \/ ~live /\ Goto("save.stopped") /\ UNCHANGED <<walk, result>>
     \/ Return("error")
  /\ UNCHANGED <<worker, flags, call, alone>>

SaveStopped ==
  /\ pc = "save.stopped"
  /\ \/ SetFlags /\ Goto("resume") /\ UNCHANGED <<walk, result>>
     \/ UNCHANGED flags /\ Return("error")
  /\ UNCHANGED <<worker, call, alone>>

\* ResumeInPlace
ReadFlags ==
  /\ pc = "resume"
  /\ \/ copy' = flags /\ Goto("launch") /\ UNCHANGED <<start, cur, steps, smooth, result>>
     \/ Return("error")
  /\ UNCHANGED <<worker, flags, call, alone>>

NextAttempt ==
  \/ steps + 1 < MaxAttempts /\ Goto("launch") /\ steps' = steps + 1
     /\ UNCHANGED <<start, cur, copy, smooth, result>>
  \/ steps + 1 >= MaxAttempts /\ Return("error")

\* The daemon claims or spawns a worker; its answer may be lost.
Dispatch ==
  /\ pc = "launch"
  /\ LaunchWith(copy)
  /\ (Goto("await") /\ UNCHANGED <<walk, result>>) \/ NextAttempt
  /\ UNCHANGED <<flags, call, alone>>

DispatchRefused ==
  /\ pc = "launch"
  /\ NextAttempt
  /\ UNCHANGED <<worker, flags, call, alone>>

\* awaitResumed: usable, or it is stopped.
Await ==
  /\ pc = "await"
  /\ \/ live /\ Return("restarted") /\ UNCHANGED worker
     \/ ToldToStop /\ NextAttempt
  /\ UNCHANGED <<flags, call, alone>>

-----------------------------------------------------------------------------
(* Everybody else. *)

\* Keys of a person, or of another call.
OthersPress ==
  /\ live
  /\ mode' = NextMode
  /\ alone' = FALSE
  /\ UNCHANGED <<live, capable, footer, leaving, flags, pc, call, walk, result>>

\* A rename or another call writes the job state it has read before.
OthersWrite ==
  /\ flags' \in Edits
  /\ alone' = FALSE
  /\ UNCHANGED <<worker, pc, call, walk, result>>

OthersResume ==
  /\ LaunchWith(flags)
  /\ alone' = FALSE
  /\ UNCHANGED <<flags, pc, call, walk, result>>

\* It is stopped, or ends by itself.
OthersStop ==
  /\ live
  /\ ToldToStop
  /\ alone' = FALSE
  /\ UNCHANGED <<flags, pc, call, walk, result>>

Cycle ==
  \/ CycleLook \/ CycleLookFails \/ Press \/ PressSwallowed \/ PressFails
  \/ Arrive \/ Stuck \/ WalkOn \/ TurnBack \/ Back \/ BackDone

Restart == Stop \/ WaitNotLive \/ SaveStopped \/ ReadFlags \/ Dispatch \/ DispatchRefused \/ Await

Step == Look \/ LookFails \/ Reach \/ Cycle \/ Save \/ SaveOffline \/ Restart

Others == OthersPress \/ OthersWrite \/ OthersResume \/ OthersStop

Next == Begin \/ Step \/ Repaint \/ WorkerGone \/ Others

\* A call runs; nobody has to do anything else, not even to repaint the screen.
Spec == Init /\ [][Next]_vars /\ WF_vars(Step)

-----------------------------------------------------------------------------
TypeOK ==
  /\ live \in BOOLEAN /\ mode \in Modes /\ capable \in BOOLEAN /\ footer \in Modes
  /\ flags \in Flags
  /\ leaving \in BOOLEAN
  /\ pc \in PCs /\ call \in CallArgs /\ result \in Results
  /\ start \in Modes /\ cur \in Modes /\ copy \in Flags
  /\ steps \in 0..(MaxSteps + MaxAttempts)
  /\ alone \in BOOLEAN /\ smooth \in BOOLEAN

\* A mode that was reported is the mode the session is in, and the one a respawn
\* brings up ("so a daemon respawn does not silently revert the mode",
\* SetPermissionMode), unless somebody else has touched it since the call began;
\* keys that get lost and screens that are behind do not matter.
SuccessIsTrue ==
  alone =>
    /\ result \in {"switched", "restarted"} => live /\ mode = call.target /\ flags.mode = call.target
    /\ result = "unsaved" => live /\ mode = call.target
    /\ result = "written" => ~live /\ flags.mode = call.target
    /\ result = "restarted" /\ call.allow => capable

\* "If target turns out to be unreachable the session is walked back to where it
\* started before the error is returned" (CyclePermissionMode), as long as the keys
\* arrive and the mode it started in is one shift+tab leads to; and the mode the
\* error names is the one it is in.
LeftAsFound ==
  [][BackDone /\ alone /\ smooth => mode = cur /\ (start # DontAsk => mode = start)]_vars

\* A call comes to an end, whatever is pressed meanwhile.
CallsEnd == (pc # "idle") ~> (pc = "idle")
=============================================================================
