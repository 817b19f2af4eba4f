-------------------------- MODULE LaunchUxProofs --------------------------
(***************************************************************************)
(* Proofs about LaunchUx, for any set of packages and any number of        *)
(* sessions: the launch screen and the overlay are those of the session    *)
(* there is.  The screen learns of a change of the outcome only by         *)
(* comparing it with the last one it has seen, so the invariant says, for  *)
(* each place in the tick, what that last one may be.                      *)
(***************************************************************************)
EXTENDS LaunchUx, TLAPS

\* A game that starts has the starting screen, which names it.
StartingIsShown == phase = "starting" => launchUxMode = "Starting" /\ launchPackageId = package
\* The starting screen is of the last launch, and has seen no more of it than its start.
StartingIsOfLaunch ==
    launchUxMode = "Starting" =>
        /\ launchPackageId = package
        /\ lastRuntimeOutcome \in {"none", "starting"} /\ phase # "none"
\* Only between the Poll and the update of the screen may the game have ended; after the
\* update the screen has seen it start.
StartingIsCurrent ==
    launchUxMode = "Starting" =>
        /\ step \in {"idle", "late", "input"} => phase \in {"starting", "playing"}
        /\ step = "input" => lastRuntimeOutcome = "starting"
\* The overlay is over an active game, or the end of the game is news to the screen, which
\* then takes the overlay away before anybody can act.
OverlayIsOfGame ==
    overlay = "visible" =>
        IsActive \/ (step # "input" /\ phase \in Verdicts /\ phase # lastRuntimeOutcome)
\* No end of an earlier session is taken for that of an active one.
EndIsNews == IsActive => lastRuntimeOutcome \notin Verdicts

ScreenInv == StartingIsShown /\ StartingIsOfLaunch /\ StartingIsCurrent
OverlayInv == OverlayIsOfGame /\ EndIsNews
IInv == TypeOK /\ ScreenInv /\ OverlayInv

-----------------------------------------------------------------------------
\* The overlay that is wanted visible is, and no other; what is gone takes its page along.
LEMMA OverlayBecomes ==
    ASSUME NEW visible \in BOOLEAN, SetOverlayVisible(visible), TypeOK, linked' \in BOOLEAN
    PROVE  /\ overlay' \in {"hidden", "visible", "closing"} /\ (overlay' = "visible" <=> visible)
           /\ achievementsFromOverlay' \in BOOLEAN /\ told' \in BOOLEAN
           /\ overlay' = "hidden" => ~achievementsFromOverlay'
<1>1. CASE visible /\ overlay # "visible"
  BY <1>1 DEF SetOverlayVisible, SendOverlayFocus, TypeOK
<1>2. CASE ~visible /\ overlay = "visible"
  BY <1>2 DEF SetOverlayVisible, SendOverlayFocus, AchievementsAfter, TypeOK
<1>3. CASE visible <=> overlay = "visible"
  BY <1>3 DEF SetOverlayVisible, overlayState, TypeOK
<1> QED BY <1>1, <1>2, <1>3

\* A launch that is accepted starts a session, and every other leaves no starting screen.
LEMMA LaunchIs ==
    ASSUME IInv, NEW p, LaunchSelected(p)
    PROVE  \/ /\ ~IsActive /\ session < MaxSessions
              /\ phase' = "starting" /\ session' = session + 1 /\ package' = p
              /\ launchPackageId' = p /\ launchUxMode' = "Starting"
              /\ lastRuntimeOutcome' = "none" /\ linked' = FALSE /\ told' = FALSE
           \/ /\ launchUxMode' \in {"Hidden", "Failed"}
              /\ launchPackageId' \in {p, launchPackageId}
              /\ UNCHANGED <<session, package, linked, told>>
              /\ phase' = phase \/ (~IsActive /\ phase' = "LaunchFailure")
              /\ lastRuntimeOutcome' \in {lastRuntimeOutcome, phase'}
              /\ phase' # phase => lastRuntimeOutcome' = phase'
BY DEF LaunchSelected, Runtime!Begin, Runtime!Refuse, Runtime!Live, IsActive, ForgetOutcome, runtime, game


\* Every step of the tick, of the keyboard and of the game keeps the invariant.
LEMMA NextKeepsInv == ASSUME MaxSessions \in Nat, IInv, [Next]_vars PROVE IInv'
<1> USE DEF IInv
<1>1. CASE Tick
  <2>1. TypeOK'
    BY <1>1 DEF Tick, AchievementsAfter, TypeOK, Verdicts, Failures, runtime, screen,
       overlayState, keyboard, game
  <2>2. ScreenInv'
    BY <1>1 DEF Tick, AchievementsAfter, ScreenInv, StartingIsShown, StartingIsOfLaunch,
       StartingIsCurrent, TypeOK, Verdicts, Failures, runtime, screen, overlayState, keyboard,
       game
  <2>3. OverlayInv'
    BY <1>1 DEF Tick, AchievementsAfter, OverlayInv, OverlayIsOfGame, EndIsNews, IsActive,
       Runtime!Live, Verdicts, Failures, TypeOK, runtime, screen, overlayState, keyboard, game
  <2> QED BY <2>1, <2>2, <2>3
<1>2. CASE BecomeReady
  <2>1. TypeOK'
    BY <1>2 DEF BecomeReady, Runtime!BecomePlayable, TypeOK, Verdicts, Failures, runtime,
       screen, overlayState, keyboard, game
  <2>2. ScreenInv'
    BY <1>2 DEF BecomeReady, Runtime!BecomePlayable, ScreenInv, StartingIsShown,
       StartingIsOfLaunch, StartingIsCurrent, TypeOK, Verdicts, Failures, runtime, screen,
       overlayState, keyboard, game
  <2>3. OverlayInv'
    BY <1>2 DEF BecomeReady, Runtime!BecomePlayable, OverlayInv, OverlayIsOfGame, EndIsNews,
       IsActive, Runtime!Live, Verdicts, Failures, TypeOK, runtime, screen, overlayState,
       keyboard, game
  <2> QED BY <2>1, <2>2, <2>3
<1>3. ASSUME NEW verdict \in Verdicts \ {"LaunchFailure", "UserTermination"}, PollEnd(verdict) PROVE IInv'
  <2>0. /\ phase' = verdict /\ step' = "update" /\ linked' = FALSE
        /\ UNCHANGED <<session, package, screen, overlayState, keyboard, told>>
    BY <1>3 DEF PollEnd, Runtime!End
  <2>1. TypeOK'
    <3>1. {achievementsFromOverlay', linked', told'} \subseteq BOOLEAN
      BY <2>0 DEF TypeOK, overlayState
    <3> QED BY <2>0, <3>1 DEF TypeOK, screen, overlayState, keyboard
  <2>2. ScreenInv'
    BY <1>3 DEF PollEnd, Runtime!End, Runtime!Live, ScreenInv, StartingIsShown,
       StartingIsOfLaunch, StartingIsCurrent, TypeOK, Verdicts, Failures, runtime, screen,
       overlayState, keyboard, game
  <2>3. OverlayInv'
    BY <1>3 DEF PollEnd, Runtime!End, Runtime!Live, OverlayInv, OverlayIsOfGame, EndIsNews,
       IsActive, Verdicts, Failures, TypeOK, runtime, screen, overlayState, keyboard, game
  <2> QED BY <2>1, <2>2, <2>3
<1>4. CASE PollNothing
  <2>1. TypeOK'
    BY <1>4 DEF PollNothing, TypeOK, Verdicts, Failures, runtime, screen, overlayState,
       keyboard, game
  <2>2. ScreenInv'
    BY <1>4 DEF PollNothing, ScreenInv, StartingIsShown, StartingIsOfLaunch,
       StartingIsCurrent, TypeOK, Verdicts, Failures, runtime, screen, overlayState, keyboard,
       game
  <2>3. OverlayInv'
    BY <1>4 DEF PollNothing, OverlayInv, OverlayIsOfGame, EndIsNews, IsActive, Runtime!Live,
       Verdicts, Failures, TypeOK, runtime, screen, overlayState, keyboard, game
  <2> QED BY <2>1, <2>2, <2>3
<1>5. CASE UpdateLaunchUx
  <2>a. CASE phase = lastRuntimeOutcome
    <3>0. /\ step' = "input" /\ UNCHANGED <<phase, session, package, f1, asked, linked, told>>
          /\ UNCHANGED <<launchUxMode, lastRuntimeOutcome, launchPackageId>>
          /\ UNCHANGED <<overlay, achievementsFromOverlay>>
      BY <1>5, <2>a DEF UpdateLaunchUx, runtime, screen, overlayState
    <3>1. TypeOK'
      BY <3>0 DEF TypeOK
    <3>2. ScreenInv'
      BY <2>a, <3>0 DEF ScreenInv, StartingIsShown, StartingIsOfLaunch, StartingIsCurrent
    <3>3. OverlayInv'
      BY <2>a, <3>0 DEF OverlayInv, OverlayIsOfGame, EndIsNews, IsActive, Runtime!Live,
         Verdicts, Failures
    <3> QED BY <3>1, <3>2, <3>3
  <2>b. CASE phase # lastRuntimeOutcome
    <3>1. /\ step' = "input" /\ lastRuntimeOutcome' = phase /\ launchUxMode' = ModeFor(phase)
          /\ UNCHANGED <<phase, session, package, launchPackageId, f1, linked>>
          /\ asked' \in {"nothing", asked} /\ OverlayFollows(phase)
      BY <1>5, <2>b DEF UpdateLaunchUx, runtime
    <3>2. /\ launchUxMode' \in {"Hidden", "Starting", "Failed", "Ended"}
          /\ launchUxMode' = "Starting" <=> phase = "starting"
      BY <3>1 DEF ModeFor, Failures, Verdicts, TypeOK, ScreenInv, StartingIsOfLaunch
    <3>3. CASE phase \in Verdicts
      <4>1. SetOverlayVisible(FALSE)
        BY <3>1, <3>3 DEF OverlayFollows
      <4>2. /\ overlay' \in {"hidden", "closing"} /\ told' \in BOOLEAN
            /\ achievementsFromOverlay' \in BOOLEAN
            /\ overlay' = "hidden" => ~achievementsFromOverlay'
        BY <3>1, <4>1, OverlayBecomes DEF TypeOK
      <4>3. TypeOK'
        BY <3>1, <3>2, <4>2 DEF TypeOK
      <4>4. ScreenInv'
        BY <3>1, <3>2, <3>3 DEF ScreenInv, StartingIsShown, StartingIsOfLaunch,
           StartingIsCurrent, Verdicts, Failures
      <4>5. OverlayInv'
        BY <3>1, <3>3, <4>2 DEF OverlayInv, OverlayIsOfGame, EndIsNews, IsActive,
           Runtime!Live, Verdicts, Failures
      <4> QED BY <4>3, <4>4, <4>5
    <3>4. CASE phase \notin Verdicts
      <4>1. UNCHANGED <<overlay, achievementsFromOverlay, told>>
        BY <3>1, <3>4 DEF OverlayFollows, overlayState
      <4>2. TypeOK'
        BY <3>1, <3>2, <4>1 DEF TypeOK
      <4>3. ScreenInv'
        BY <3>1, <3>2 DEF ScreenInv, StartingIsShown, StartingIsOfLaunch, StartingIsCurrent,
           TypeOK
      <4>4. OverlayInv'
        BY <3>1, <3>4, <4>1 DEF OverlayInv, OverlayIsOfGame, EndIsNews, IsActive,
           Runtime!Live, Verdicts, Failures
      <4> QED BY <4>2, <4>3, <4>4
    <3> QED BY <3>3, <3>4
  <2> QED BY <2>a, <2>b
<1>6. ASSUME NEW buttons \in SUBSET Buttons, HandleInput(buttons) PROVE IInv'
  <2> DEFINE in == IF f1.state THEN buttons \union {"menu"} ELSE buttons
             Rest == /\ phase' = phase /\ session' = session /\ package' = package
                     /\ UNCHANGED <<launchUxMode, lastRuntimeOutcome, launchPackageId, linked, told>>
             SameOverlay == UNCHANGED <<overlay, achievementsFromOverlay>>
  <2>a. /\ step = "input" /\ step' = "idle" /\ f1' = [f1 EXCEPT !.state = FALSE]
        /\ asked' \in {asked, "nothing"}
        /\ f1' \in [message : BOOLEAN, state : BOOLEAN]
    BY <1>6 DEF HandleInput, TypeOK
  <2>b. ASSUME Rest, SameOverlay PROVE IInv'
    BY <2>a, <2>b DEF TypeOK, ScreenInv, StartingIsShown, StartingIsOfLaunch,
       StartingIsCurrent, OverlayInv, OverlayIsOfGame, EndIsNews, IsActive, Runtime!Live,
       Verdicts, Failures
  <2>c. ASSUME NEW p \in Packages \union {NoPackage}, LaunchSelected(p), launchUxMode # "Starting",
               SameOverlay
        PROVE  IInv'
    <3>1. TypeOK'
      <4>0. p \in Packages \union {NoPackage}
        BY <2>c
      <4>1. CASE ~IsActive /\ session < MaxSessions /\ phase' = "starting"
                 /\ session' = session + 1 /\ package' = p
                 /\ launchPackageId' = p /\ launchUxMode' = "Starting"
                 /\ lastRuntimeOutcome' = "none" /\ linked' = FALSE /\ told' = FALSE
        <5>1. {achievementsFromOverlay', linked', told'} \subseteq BOOLEAN
          BY <2>c, <4>1 DEF TypeOK
        <5>2. session' \in 0 .. MaxSessions
          BY <4>1 DEF TypeOK
        <5> QED BY <2>a, <2>c, <4>0, <4>1, <5>1, <5>2 DEF TypeOK
      <4>2. CASE /\ launchUxMode' \in {"Hidden", "Failed"}
                 /\ launchPackageId' \in {p, launchPackageId}
                 /\ UNCHANGED <<session, package, linked, told>>
                 /\ phase' \in {phase, "LaunchFailure"}
                 /\ lastRuntimeOutcome' \in {lastRuntimeOutcome, phase'}
        BY <2>a, <2>c, <4>0, <4>2 DEF TypeOK, Verdicts, Failures
      <4> QED BY <2>c, <4>1, <4>2, LaunchIs
    <3>2. ScreenInv'
      BY <2>a, <2>c, LaunchIs DEF ScreenInv, StartingIsShown, StartingIsOfLaunch,
         StartingIsCurrent, TypeOK
    <3>3. OverlayInv'
      BY <2>a, <2>c, LaunchIs DEF OverlayInv, OverlayIsOfGame, EndIsNews, IsActive,
         Runtime!Live, Verdicts, Failures, TypeOK
    <3> QED BY <3>1, <3>2, <3>3
  <2>d. ASSUME Terminate
        PROVE  /\ session' = session /\ package' = package /\ linked' \in BOOLEAN
               /\ IsActive => phase' = "UserTermination"
               /\ ~IsActive => phase' = phase
    BY <2>d DEF Terminate, Runtime!End, IsActive, Runtime!Live, runtime, TypeOK
  <2>e. CASE HandleLaunchRecoveryInput(in)
    <3>1. SameOverlay /\ launchUxMode # "Hidden"
      BY <2>e DEF HandleLaunchRecoveryInput, overlayState
    <3>2. CASE launchUxMode = "Starting" /\ CancelLaunch
      <4>1. /\ phase' = "UserTermination" /\ launchUxMode' = "Ended" /\ linked' \in BOOLEAN
            /\ UNCHANGED <<session, package, lastRuntimeOutcome, launchPackageId, told>>
        <5>1. IsActive
          BY <2>a, <3>2 DEF ScreenInv, StartingIsCurrent, IsActive, Runtime!Live
        <5> QED BY <2>d, <3>2, <5>1 DEF CancelLaunch
      <4>2. TypeOK'
        BY <2>a, <3>1, <4>1 DEF TypeOK, Verdicts
      <4>3. ScreenInv'
        BY <4>1 DEF ScreenInv, StartingIsShown, StartingIsOfLaunch, StartingIsCurrent
      <4>4. OverlayInv'
        BY <2>a, <3>1, <3>2, <4>1 DEF OverlayInv, OverlayIsOfGame, EndIsNews, IsActive,
           Runtime!Live, Verdicts, Failures, ScreenInv, StartingIsOfLaunch
      <4> QED BY <4>2, <4>3, <4>4
    <3>3. CASE launchUxMode = "Failed" /\ RetryLaunch
      <4>1. CASE LaunchSelected(launchPackageId)
        BY <2>c, <3>1, <3>3, <4>1 DEF TypeOK
      <4>2. CASE /\ launchUxMode' = "Failed"
                 /\ UNCHANGED <<runtime, lastRuntimeOutcome, launchPackageId, game>>
        BY <2>b, <3>1, <3>3, <4>2 DEF runtime, game
      <4> QED BY <3>3, <4>1, <4>2 DEF RetryLaunch
    <3>4. CASE launchUxMode # "Starting" /\ ReturnFromLaunchUx
      BY <2>a, <3>1, <3>4 DEF ReturnFromLaunchUx, runtime, game, TypeOK, ScreenInv,
         StartingIsShown, StartingIsOfLaunch, StartingIsCurrent, OverlayInv, OverlayIsOfGame,
         EndIsNews, IsActive, Runtime!Live, Verdicts, Failures
    <3>5. CASE UNCHANGED <<runtime, screen, game>>
      BY <2>b, <3>1, <3>5 DEF runtime, screen, game
    <3> QED BY <2>e, <3>2, <3>3, <3>4, <3>5 DEF HandleLaunchRecoveryInput
  <2>f. CASE HandleOverlayInput(in)
    <3>1. /\ overlay = "visible" /\ launchUxMode = "Hidden"
          /\ UNCHANGED <<launchUxMode, lastRuntimeOutcome, launchPackageId>>
      BY <2>f DEF HandleOverlayInput, screen
    <3>2. CASE achievementsFromOverlay' \in BOOLEAN /\ UNCHANGED <<runtime, overlay, game>>
      BY <2>a, <3>1, <3>2 DEF runtime, game, TypeOK, ScreenInv, StartingIsShown,
         StartingIsOfLaunch, StartingIsCurrent, OverlayInv, OverlayIsOfGame, EndIsNews,
         IsActive, Runtime!Live, Verdicts, Failures
    <3>3. CASE UNCHANGED <<runtime, linked>> /\ SetOverlayVisible(FALSE)
      <4>1. linked' \in BOOLEAN
        BY <3>3 DEF TypeOK
      <4>2. /\ overlay' \in {"hidden", "closing"} /\ told' \in BOOLEAN
            /\ achievementsFromOverlay' \in BOOLEAN
            /\ overlay' = "hidden" => ~achievementsFromOverlay'
        BY <3>3, <4>1, OverlayBecomes
      <4> QED
        BY <2>a, <3>1, <3>3, <4>2 DEF runtime, TypeOK, ScreenInv, StartingIsShown,
           StartingIsOfLaunch, StartingIsCurrent, OverlayInv, OverlayIsOfGame, EndIsNews,
           IsActive, Runtime!Live, Verdicts, Failures
    <3>4. CASE Terminate /\ SetOverlayVisible(FALSE)
      <4>1. /\ session' = session /\ package' = package /\ linked' \in BOOLEAN
            /\ phase' \in {phase, "UserTermination"}
            /\ IsActive => phase' = "UserTermination"
        BY <2>d, <3>4, IsActive \/ ~IsActive
      <4>2. /\ overlay' \in {"hidden", "closing"} /\ told' \in BOOLEAN
            /\ achievementsFromOverlay' \in BOOLEAN
            /\ overlay' = "hidden" => ~achievementsFromOverlay'
        BY <3>4, <4>1, OverlayBecomes
      <4>3. TypeOK'
        BY <2>a, <3>1, <4>1, <4>2 DEF TypeOK, Verdicts
      <4>4. ScreenInv'
        BY <2>a, <3>1, <4>1 DEF ScreenInv, StartingIsShown, StartingIsOfLaunch,
           StartingIsCurrent
      <4>5. OverlayInv'
        BY <2>a, <3>1, <4>1, <4>2 DEF OverlayInv, OverlayIsOfGame, EndIsNews, IsActive,
           Runtime!Live, Verdicts, Failures
      <4> QED BY <4>3, <4>4, <4>5
    <3> QED
      <4>1. (in \intersect {"menu", "back"} = {}) \in BOOLEAN /\ TRUE \in BOOLEAN
        OBVIOUS
      <4> QED BY <2>f, <3>2, <3>3, <3>4, <4>1 DEF HandleOverlayInput
  <2>g. CASE HandlePageInput(in)
    <3>1. overlay = "hidden" /\ launchUxMode = "Hidden"
      BY <2>g DEF HandlePageInput
    <3>2. CASE IsActive /\ UNCHANGED <<runtime, screen, linked>> /\ SetOverlayVisible(TRUE)
      <4>1. linked' \in BOOLEAN
        BY <3>2 DEF TypeOK
      <4>2. /\ overlay' = "visible" /\ told' \in BOOLEAN /\ achievementsFromOverlay' \in BOOLEAN
        BY <3>2, <4>1, OverlayBecomes
      <4> QED
        BY <2>a, <3>1, <3>2, <4>2 DEF runtime, screen, TypeOK, ScreenInv, StartingIsShown,
           StartingIsOfLaunch, StartingIsCurrent, OverlayInv, OverlayIsOfGame, EndIsNews,
           IsActive, Runtime!Live, Verdicts, Failures
    <3>3. CASE (\E p \in Packages : LaunchSelected(p)) /\ UNCHANGED overlayState
      BY <2>c, <3>1, <3>3 DEF overlayState
    <3> QED BY <2>g, <3>2, <3>3 DEF HandlePageInput
  <2>h. CASE UNCHANGED <<runtime, screen, overlayState, game>>
    BY <2>b, <2>h DEF runtime, screen, overlayState, game
  <2>1. IInv'
    BY <1>6, <2>e, <2>f, <2>g, <2>h DEF HandleInput, HandleOtherInput
  <2> QED BY <2>1
<1>7. CASE KeyDownF1
  <2>a. CASE IsActive
    <3>1. /\ SetOverlayVisible(overlay # "visible") /\ f1' = [f1 EXCEPT !.message = FALSE]
          /\ UNCHANGED <<phase, session, package, launchUxMode, lastRuntimeOutcome,
                         launchPackageId, step, asked, linked>>
      BY <1>7, <2>a DEF KeyDownF1, runtime, screen
    <3>2. /\ overlay' \in {"hidden", "visible", "closing"} /\ told' \in BOOLEAN
          /\ achievementsFromOverlay' \in BOOLEAN
          /\ overlay' = "hidden" => ~achievementsFromOverlay'
      BY <3>1, OverlayBecomes DEF TypeOK
    <3>3. TypeOK'
      <4>1. f1' \in [message : BOOLEAN, state : BOOLEAN] /\ linked' \in BOOLEAN
        BY <3>1 DEF TypeOK
      <4>2. {achievementsFromOverlay', linked', told'} \subseteq BOOLEAN
        BY <3>2, <4>1
      <4> QED BY <3>1, <3>2, <4>1, <4>2 DEF TypeOK
    <3>4. ScreenInv'
      BY <3>1 DEF ScreenInv, StartingIsShown, StartingIsOfLaunch, StartingIsCurrent
    <3>5. OverlayInv'
      BY <2>a, <3>1 DEF OverlayInv, OverlayIsOfGame, EndIsNews, IsActive, Runtime!Live,
         Verdicts, Failures
    <3> QED BY <3>3, <3>4, <3>5
  <2>b. CASE ~IsActive
    <3>1. TypeOK'
      BY <1>7, <2>b DEF KeyDownF1, runtime, screen, overlayState, keyboard, game, TypeOK
    <3>2. ScreenInv'
      BY <1>7, <2>b DEF KeyDownF1, runtime, screen, overlayState, keyboard, game, ScreenInv,
         StartingIsShown, StartingIsOfLaunch, StartingIsCurrent
    <3>3. OverlayInv'
      BY <1>7, <2>b DEF KeyDownF1, runtime, screen, overlayState, keyboard, game, OverlayInv,
         OverlayIsOfGame, EndIsNews, IsActive, Runtime!Live, Verdicts, Failures
    <3> QED BY <3>1, <3>2, <3>3
  <2> QED BY <2>a, <2>b
<1>8. ASSUME NEW inFront \in BOOLEAN, PressF1(inFront) PROVE IInv'
  <2>1. TypeOK'
    BY <1>8 DEF PressF1, TypeOK, Verdicts, Failures, runtime, screen, overlayState, keyboard,
       game
  <2>2. ScreenInv'
    BY <1>8 DEF PressF1, ScreenInv, StartingIsShown, StartingIsOfLaunch, StartingIsCurrent,
       TypeOK, Verdicts, Failures, runtime, screen, overlayState, keyboard, game
  <2>3. OverlayInv'
    BY <1>8 DEF PressF1, OverlayInv, OverlayIsOfGame, EndIsNews, IsActive, Runtime!Live,
       Verdicts, Failures, TypeOK, runtime, screen, overlayState, keyboard, game
  <2> QED BY <2>1, <2>2, <2>3
<1>9. CASE Hello
  <2>1. TypeOK'
    BY <1>9 DEF Hello, TypeOK, Verdicts, Failures, runtime, screen, overlayState, keyboard,
       game
  <2>2. ScreenInv'
    BY <1>9 DEF Hello, ScreenInv, StartingIsShown, StartingIsOfLaunch, StartingIsCurrent,
       TypeOK, Verdicts, Failures, runtime, screen, overlayState, keyboard, game
  <2>3. OverlayInv'
    BY <1>9 DEF Hello, OverlayInv, OverlayIsOfGame, EndIsNews, IsActive, Runtime!Live,
       Verdicts, Failures, TypeOK, runtime, screen, overlayState, keyboard, game
  <2> QED BY <2>1, <2>2, <2>3
<1>10. CASE LoseConnection
  <2>1. TypeOK'
    <3>1. {achievementsFromOverlay', linked', told'} \subseteq BOOLEAN
      BY <1>10 DEF LoseConnection, TypeOK, overlayState
    <3> QED BY <1>10, <3>1 DEF LoseConnection, TypeOK, runtime, screen, overlayState, keyboard
  <2>2. ScreenInv'
    BY <1>10 DEF LoseConnection, ScreenInv, StartingIsShown, StartingIsOfLaunch,
       StartingIsCurrent, TypeOK, Verdicts, Failures, runtime, screen, overlayState, keyboard,
       game
  <2>3. OverlayInv'
    BY <1>10 DEF LoseConnection, OverlayInv, OverlayIsOfGame, EndIsNews, IsActive,
       Runtime!Live, Verdicts, Failures, TypeOK, runtime, screen, overlayState, keyboard, game
  <2> QED BY <2>1, <2>2, <2>3
<1>11. CASE Overdue
  <2>1. TypeOK'
    BY <1>11 DEF Overdue, TypeOK, Verdicts, Failures, runtime, screen, overlayState,
       keyboard, game
  <2>2. ScreenInv'
    BY <1>11 DEF Overdue, ScreenInv, StartingIsShown, StartingIsOfLaunch,
       StartingIsCurrent, TypeOK, Verdicts, Failures, runtime, screen, overlayState, keyboard,
       game
  <2>3. OverlayInv'
    BY <1>11 DEF Overdue, OverlayInv, OverlayIsOfGame, EndIsNews, IsActive, Runtime!Live,
       Verdicts, Failures, TypeOK, runtime, screen, overlayState, keyboard, game
  <2> QED BY <2>1, <2>2, <2>3
<1>12. CASE StopHangs
  <2>1. TypeOK'
    BY <1>12 DEF StopHangs, TypeOK, Verdicts, Failures, runtime, screen, overlayState,
       keyboard, game
  <2>2. ScreenInv'
    BY <1>12 DEF StopHangs, ScreenInv, StartingIsShown, StartingIsOfLaunch,
       StartingIsCurrent, TypeOK, Verdicts, Failures, runtime, screen, overlayState, keyboard,
       game
  <2>3. OverlayInv'
    BY <1>12 DEF StopHangs, OverlayInv, OverlayIsOfGame, EndIsNews, IsActive, Runtime!Live,
       Verdicts, Failures, TypeOK, runtime, screen, overlayState, keyboard, game
  <2> QED BY <2>1, <2>2, <2>3
<1>13. CASE UNCHANGED vars
  BY <1>13 DEF vars, runtime, screen, overlayState, keyboard, game, TypeOK, ScreenInv,
     StartingIsShown, StartingIsOfLaunch, StartingIsCurrent, OverlayInv, OverlayIsOfGame,
     EndIsNews, IsActive, Runtime!Live, Verdicts, Failures
<1> QED
  BY <1>1, <1>2, <1>3, <1>4, <1>5, <1>6, <1>7, <1>8, <1>9, <1>10, <1>11, <1>12, <1>13
  DEF Next, Ticks, Keys

LEMMA InitEstablishes == ASSUME MaxSessions \in Nat PROVE Init => IInv
<1> SUFFICES ASSUME Init PROVE IInv
  OBVIOUS
<1>1. /\ phase = "none" /\ session = 0 /\ package = NoPackage
      /\ launchUxMode = "Hidden" /\ lastRuntimeOutcome = "none" /\ launchPackageId = NoPackage
      /\ overlay = "hidden" /\ achievementsFromOverlay = FALSE /\ linked = FALSE /\ told = FALSE
      /\ step = "idle" /\ f1 = [message |-> FALSE, state |-> FALSE] /\ asked = "nothing"
  BY DEF Init, Runtime!Init
<1>2. TypeOK
  <2>1. {achievementsFromOverlay, linked, told} \subseteq BOOLEAN
    BY <1>1
  <2>2. f1 \in [message : BOOLEAN, state : BOOLEAN]
    BY <1>1
  <2> QED BY <1>1, <2>1, <2>2 DEF TypeOK
<1>3. ScreenInv
  BY <1>1 DEF ScreenInv, StartingIsShown, StartingIsOfLaunch, StartingIsCurrent
<1>4. OverlayInv
  BY <1>1 DEF OverlayInv, OverlayIsOfGame, EndIsNews, IsActive, Runtime!Live, Verdicts, Failures
<1> QED BY <1>2, <1>3, <1>4 DEF IInv

LEMMA Invariance == ASSUME MaxSessions \in Nat PROVE Spec => []IInv
BY InitEstablishes, NextKeepsInv, PTL DEF Spec

\* Every variable stays in its range, and the achievements page of the overlay is open only
\* with it.
THEOREM TypeCorrect == ASSUME MaxSessions \in Nat PROVE Spec => []TypeOK
<1>1. IInv => TypeOK
  BY DEF IInv
<1> QED BY <1>1, Invariance, PTL

\* When the player can act the screen and the overlay are those of the session there is.
THEOREM ScreensAreCurrent == ASSUME MaxSessions \in Nat PROVE Spec => []ScreensFollowSession
<1>1. IInv => ScreensFollowSession
  BY DEF IInv, ScreensFollowSession, StartingIsStarting, OverlayNeedsGame, ScreenInv,
     StartingIsShown, StartingIsOfLaunch, StartingIsCurrent, OverlayInv, OverlayIsOfGame
<1> QED BY <1>1, Invariance, PTL
=============================================================================
