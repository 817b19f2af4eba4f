----------------------------- MODULE LaunchUx -----------------------------
(***************************************************************************)
(* The launch screen and the overlay of the shell: App of src/src/App.cpp  *)
(* and src/src/AppLaunchRecovery.cpp, over the runtime as GameSession      *)
(* promises it to the shell.                                               *)
(*                                                                         *)
(* One WM_TIMER message runs Tick: the overlay animation, Poll of the      *)
(* runtime, UpdateLaunchUx, HandleInput.  Keyboard messages come between   *)
(* ticks, and before them: Windows delivers a timer message only when no   *)
(* other waits.  READY of the game, served by the pipe thread, comes at    *)
(* any moment, and so does the end or the return of its connection.  The   *)
(* end of a session stops the pipe server on the UI thread, which may wait *)
(* there for ever (RuntimeIpcServer): the tick then does not go on.        *)
(*                                                                         *)
(* Left out: the pages under the overlay, but for the launch they offer;   *)
(* wording; which entry of the overlay menu is selected.                   *)
(***************************************************************************)
EXTENDS Naturals

CONSTANTS Packages, NoPackage, MaxSessions

Failures == {"LaunchFailure", "ReadyTimeout", "Hung", "Crash"}
Verdicts == Failures \union {"CleanExit", "UserTermination"}

VARIABLES
    phase, session, package,    \* the runtime; phase is its Outcome()
    launchUxMode,       \* the launch screen: "Hidden", "Starting", "Failed" or "Ended"
    lastRuntimeOutcome, \* the outcome the launch screen has seen
    launchPackageId,    \* the game the launch screen names
    overlay,            \* overlayVisible_ and overlayClosing_: "hidden", "visible", "closing"
    achievementsFromOverlay,
    step,               \* where Tick stands, "idle" between two ticks, "stuck" for ever in Stop
    f1,                 \* the key press not yet handled: as a message, as the state of the key
    asked,              \* history: what the player wants of the overlay by this key press
    linked,             \* the game is connected and authenticated
    told                \* what the game last heard of the overlay

runtime == <<phase, session, package>>
screen == <<launchUxMode, lastRuntimeOutcome, launchPackageId>>
overlayState == <<overlay, achievementsFromOverlay>>
keyboard == <<f1, asked>>
game == <<linked, told>>
vars == <<runtime, screen, overlayState, step, keyboard, game>>

Runtime == INSTANCE GameSession WITH history <- {}
IsActive == Runtime!Live

\* A session begins or ends with its connection; a new game has heard nothing.
Terminate ==
    IF IsActive THEN Runtime!End("UserTermination") /\ linked' = FALSE
                ELSE UNCHANGED <<runtime, linked>>

\* SendOverlayFocus reaches the game only when it is connected, and nobody repeats it.
SendOverlayFocus(visible) == told' = IF linked' THEN visible ELSE told

\* An overlay that is gone takes its achievements page along.
AchievementsAfter(next) == achievementsFromOverlay /\ next # "hidden"

\* With reduced motion the overlay is gone at once, else when its animation is over.
SetOverlayVisible(visible) ==
    \/ /\ visible /\ overlay # "visible"
       /\ overlay' = "visible"
       /\ SendOverlayFocus(TRUE)
       /\ UNCHANGED achievementsFromOverlay
    \/ /\ ~visible /\ overlay = "visible"
       /\ overlay' \in {"closing", "hidden"}
       /\ achievementsFromOverlay' = AchievementsAfter(overlay')
       /\ SendOverlayFocus(FALSE)
    \/ /\ visible <=> overlay = "visible"
       /\ UNCHANGED <<overlayState, told>>

-----------------------------------------------------------------------------
(* Tick.                                                                   *)

\* The animation of a closing overlay may be over.
Tick ==
    /\ step = "idle" /\ ~f1.message
    /\ step' = "poll"
    /\ overlay' \in IF overlay = "closing" THEN {"closing", "hidden"} ELSE {overlay}
    /\ achievementsFromOverlay' = AchievementsAfter(overlay')
    /\ asked' = IF f1.state THEN asked ELSE "nothing"
    /\ UNCHANGED <<runtime, screen, f1, game>>

\* READY is served by the pipe thread (onReady), or seen first by Poll.
BecomeReady ==
    /\ Runtime!BecomePlayable
    /\ UNCHANGED <<screen, overlayState, step, keyboard, game>>

\* Poll finds the startup deadline passed; while it writes its dump READY may come.
Overdue ==
    /\ step = "poll" /\ phase = "starting"
    /\ step' = "late"
    /\ UNCHANGED <<runtime, screen, overlayState, keyboard, game>>

PollEnd(verdict) ==
    /\ step = IF verdict = "ReadyTimeout" THEN "late" ELSE "poll"
    /\ step' = "update"
    /\ Runtime!End(verdict)
    /\ linked' = FALSE
    /\ UNCHANGED <<screen, overlayState, keyboard, told>>

\* A Poll, or an input, that ends the session never returns from RuntimeIpcServer::Stop.
StopHangs ==
    /\ step \in {"poll", "late", "input"} /\ IsActive
    /\ step' = "stuck"
    /\ UNCHANGED <<runtime, screen, overlayState, keyboard, game>>

PollNothing ==
    /\ step = "poll" /\ step' = "update"
    /\ UNCHANGED <<runtime, screen, overlayState, keyboard, game>>

\* The mutant is a switch without the case of the startup deadline.
ModeWithoutTimeout(outcome) ==
    CASE outcome \in {"none", "ReadyTimeout"} -> launchUxMode
      [] outcome = "starting" -> "Starting"
      [] outcome = "playing" -> "Hidden"
      [] outcome \in Failures \ {"ReadyTimeout"} -> "Failed"
      [] OTHER -> "Ended"
ModeFor(outcome) ==
    CASE outcome = "none" -> launchUxMode
      [] outcome = "starting" -> "Starting"
      [] outcome = "playing" -> "Hidden"
      [] outcome \in Failures -> "Failed"
      [] OTHER -> "Ended"

\* A session that is over takes its overlay along.
OverlayFollows(outcome) ==
    IF outcome \in Verdicts THEN SetOverlayVisible(FALSE) ELSE UNCHANGED <<overlayState, told>>

UpdateLaunchUx ==
    /\ step = "update" /\ step' = "input"
    /\ UNCHANGED <<runtime, f1, linked>>
    /\ IF phase = lastRuntimeOutcome
       THEN UNCHANGED <<screen, overlayState, asked, told>>
       ELSE /\ lastRuntimeOutcome' = phase
            /\ launchUxMode' = ModeFor(phase)
            /\ OverlayFollows(phase)
            /\ asked' = IF phase \in Verdicts THEN "nothing" ELSE asked
            /\ UNCHANGED launchPackageId

-----------------------------------------------------------------------------
(* HandleInput, on the buttons of one poll of the controllers and the keys. *)

\* So that the next outcome is news; a mutant keeps that of the session before.
KeepOutcome == UNCHANGED lastRuntimeOutcome
ForgetOutcome == lastRuntimeOutcome' = "none"

\* The runtime refuses a launch while a session is active; other refusals either make
\* LaunchFailure its outcome or leave the outcome alone.
LaunchSelected(p) ==
    \/ launchUxMode' = "Hidden" /\ UNCHANGED <<runtime, lastRuntimeOutcome, launchPackageId, game>>
    \/ /\ Runtime!Begin(p)
       /\ launchPackageId' = p /\ launchUxMode' = "Starting" /\ ForgetOutcome
       /\ linked' = FALSE /\ told' = FALSE
    \/ /\ Runtime!Refuse \/ UNCHANGED runtime
       /\ launchPackageId' = p /\ launchUxMode' = "Failed" /\ lastRuntimeOutcome' = phase'
       /\ UNCHANGED game

\* The game may have left the library meanwhile.
RetryLaunch ==
    \/ LaunchSelected(launchPackageId)
    \/ launchUxMode' = "Failed" /\ UNCHANGED <<runtime, lastRuntimeOutcome, launchPackageId, game>>

CancelLaunch ==
    /\ Terminate
    /\ launchUxMode' = "Ended"
    /\ UNCHANGED <<lastRuntimeOutcome, launchPackageId, told>>

ReturnFromLaunchUx ==
    /\ launchUxMode' = "Hidden"
    /\ UNCHANGED <<runtime, lastRuntimeOutcome, launchPackageId, game>>

HandleLaunchRecoveryInput(in) ==
    /\ launchUxMode # "Hidden"
    /\ IF launchUxMode = "Starting" /\ "back" \in in THEN CancelLaunch
       ELSE IF launchUxMode = "Failed" /\ "select" \in in THEN RetryLaunch
       ELSE IF launchUxMode # "Starting" /\ in \intersect {"action", "back", "select"} # {}
            THEN ReturnFromLaunchUx
       ELSE UNCHANGED <<runtime, screen, game>>
    /\ UNCHANGED overlayState

\* The entries of the overlay: back to the game, to a page, its achievements, and its end.
HandleOverlayInput(in) ==
    /\ overlay = "visible" /\ launchUxMode = "Hidden"
    /\ UNCHANGED screen
    /\ IF achievementsFromOverlay
       THEN /\ achievementsFromOverlay' = (in \intersect {"menu", "back"} = {})
            /\ UNCHANGED <<runtime, overlay, game>>
       ELSE \/ /\ in \intersect {"menu", "back", "select"} # {}
               /\ UNCHANGED <<runtime, linked>>
               /\ SetOverlayVisible(FALSE)
            \/ /\ "select" \in in /\ in \intersect {"menu", "back"} = {}
               /\ \/ Terminate /\ SetOverlayVisible(FALSE)
                  \/ achievementsFromOverlay' = TRUE /\ UNCHANGED <<runtime, overlay, game>>

\* Home and Game Detail launch the selected game, whether one is played or not.
HandlePageInput(in) ==
    /\ overlay = "hidden" /\ launchUxMode = "Hidden"
    /\ \/ /\ "menu" \in in /\ IsActive
          /\ UNCHANGED <<runtime, screen, linked>>
          /\ SetOverlayVisible(TRUE)
       \/ /\ ~("menu" \in in /\ IsActive)
          /\ "select" \in in /\ \E p \in Packages : LaunchSelected(p)
          /\ UNCHANGED overlayState

\* An open capture, a page or the overlay menu may use the input up.
HandleOtherInput ==
    /\ launchUxMode = "Hidden"
    /\ UNCHANGED <<runtime, screen, overlayState, game>>

\* While the overlay closes the input is read and dropped.
HandleInput(buttons) ==
    /\ step = "input" /\ step' = "idle"
    /\ f1' = [f1 EXCEPT !.state = FALSE]
    /\ asked' = IF buttons = {} THEN asked ELSE "nothing"
    /\ LET in == IF f1.state THEN buttons \union {"menu"} ELSE buttons
       IN  IF overlay = "closing"
           THEN UNCHANGED <<runtime, screen, overlayState, game>>
           ELSE \/ HandleLaunchRecoveryInput(in)
                \/ HandleOverlayInput(in)
                \/ HandlePageInput(in)
                \/ HandleOtherInput

-----------------------------------------------------------------------------
(* The keyboard, and the game at the other end of the pipe.                *)

\* The message goes to the window in front, the state of the key to whoever asks.
PressF1(inFront) ==
    /\ ~f1.message /\ ~f1.state
    /\ f1' = [message |-> inFront, state |-> TRUE]
    /\ asked' = IF ~IsActive \/ launchUxMode # "Hidden" \/ achievementsFromOverlay THEN "nothing"
                ELSE IF overlay = "visible" THEN "hide" ELSE "show"
    /\ UNCHANGED <<runtime, screen, overlayState, step, game>>

KeyDownF1 ==
    /\ step = "idle" /\ f1.message
    /\ f1' = [f1 EXCEPT !.message = FALSE]
    /\ UNCHANGED <<runtime, screen, step, asked, linked>>
    /\ IF IsActive THEN SetOverlayVisible(overlay # "visible") ELSE UNCHANGED <<overlayState, told>>

Hello ==
    /\ IsActive /\ ~linked
    /\ linked' = TRUE
    /\ UNCHANGED <<runtime, screen, overlayState, step, keyboard, told>>

LoseConnection ==
    /\ linked
    /\ linked' = FALSE
    /\ UNCHANGED <<runtime, screen, overlayState, step, keyboard, told>>

-----------------------------------------------------------------------------
Init ==
    /\ Runtime!Init
    /\ launchUxMode = "Hidden" /\ lastRuntimeOutcome = "none" /\ launchPackageId = NoPackage
    /\ overlay = "hidden" /\ achievementsFromOverlay = FALSE
    /\ step = "idle"
    /\ f1 = [message |-> FALSE, state |-> FALSE] /\ asked = "nothing"
    /\ linked = FALSE /\ told = FALSE

Buttons == {"select", "action", "back", "menu"}
Ticks ==
    \/ Tick \/ Overdue \/ PollNothing \/ UpdateLaunchUx
    \/ \E verdict \in Verdicts \ {"LaunchFailure", "UserTermination"} : PollEnd(verdict)
    \/ \E buttons \in SUBSET Buttons : HandleInput(buttons)
Keys == KeyDownF1 \/ \E inFront \in BOOLEAN : PressF1(inFront)

Next == Ticks \/ StopHangs \/ Keys \/ BecomeReady \/ Hello \/ LoseConnection
Spec == Init /\ [][Next]_vars

\* The timer goes on unless the UI thread is stuck, waiting messages are handled, and the
\* startup deadline comes.
LiveSpec == Spec /\ WF_vars(Ticks) /\ WF_vars(KeyDownF1) /\ SF_vars(Overdue)

-----------------------------------------------------------------------------
(* Properties.                                                             *)

\* Every variable stays in its range, and the achievements page of the overlay is open
\* only with it.
TypeOK ==
    /\ phase \in {"none", "starting", "playing"} \union Verdicts
    /\ session \in 0 .. MaxSessions
    /\ {package, launchPackageId} \subseteq Packages \union {NoPackage}
    /\ launchUxMode \in {"Hidden", "Starting", "Failed", "Ended"}
    /\ lastRuntimeOutcome \in {"none", "starting", "playing"} \union Verdicts
    /\ overlay \in {"hidden", "visible", "closing"}
    /\ {achievementsFromOverlay, linked, told} \subseteq BOOLEAN
    /\ overlay = "hidden" => ~achievementsFromOverlay
    /\ step \in {"idle", "poll", "late", "update", "input", "stuck"}
    /\ f1 \in [message : BOOLEAN, state : BOOLEAN]
    /\ asked \in {"nothing", "show", "hide"}

\* When the player can act a game that starts has the starting screen, so that every launch
\* can be cancelled.  That screen names the game there is, which was starting when this tick
\* looked: it may have become playable since, it has not ended.
StartingIsStarting ==
    step = "input" =>
        /\ phase = "starting" => launchUxMode = "Starting"
        /\ launchUxMode = "Starting" =>
              /\ lastRuntimeOutcome = "starting" /\ phase \in {"starting", "playing"}
              /\ launchPackageId = package

\* When the player can act the overlay is open over an active game only.
OverlayNeedsGame == step = "input" /\ overlay = "visible" => IsActive

\* What the player sees is of the session there is, though the screen follows only changes
\* of the outcome (UpdateLaunchUx) and the animation goes on without the game.
ScreensFollowSession == StartingIsStarting /\ OverlayNeedsGame

\* A starting screen gives way to the game or to a message, whatever the game does, for as
\* long as the UI thread is not stuck in Stop.
LaunchResolves == launchUxMode = "Starting" ~> launchUxMode # "Starting" \/ step = "stuck"

\* The screen at the end of a session, which tells of it under the title of the last launch,
\* names the game that was played (AppLaunchRecovery.cpp:114).
EndNamesTheGame == step = "input" /\ launchUxMode = "Ended" => launchPackageId = package

\* A screen that offers to try a launch again does not say that the game exited normally
\* (AppLaunchRecovery.cpp:28).
FailureIsNamed == step = "input" /\ launchUxMode = "Failed" => phase # "CleanExit"

\* A key press that opens or closes the overlay has that effect once it is handled
\* (docs/RUNTIME_V4_1_RC_GATE.md:41).
KeyIsHandledOnce ==
    step = "idle" /\ ~f1.message /\ ~f1.state =>
        /\ asked = "show" => overlay = "visible"
        /\ asked = "hide" => overlay # "visible"

\* A connected game does not go on waiting for an overlay that is gone
\* (docs/RUNTIME_V3.md:90).
GameKnowsOverlay == linked /\ told => overlay # "hidden"
=============================================================================
