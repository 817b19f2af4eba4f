---------------------------- MODULE ShellPages ----------------------------
(***************************************************************************)
(* The pages of the shell: App of src/src/App.cpp, AppAchievements.cpp and *)
(* AppLaunchRecovery.cpp, with the capture library of CaptureLibrary.cpp   *)
(* and the experience headers.                                             *)
(*                                                                         *)
(* Everything runs on the window's thread: a tick gives HandleInput the    *)
(* buttons that went down since the last one, several at once if need be,  *)
(* and keyboard messages come between ticks.  The folder picker runs a     *)
(* message loop of its own inside HandleInput, so that ticks and keys go   *)
(* on under it.  The folders of the games and of the captures change under *)
(* the shell, which keeps copies and selects in them by position.          *)
(*                                                                         *)
(* A handler is a composition of steps over one record.  Games are         *)
(* numbered in the order of their titles, captures in the order of their   *)
(* age.  Left out: wording, artwork, scrolling and the rows of the lists   *)
(* that only move (ListView), which entry of the overlay is selected, the  *)
(* choice to resume, and the animations of LaunchUx, as with its reduced   *)
(* motion.                                                                 *)
(***************************************************************************)
EXTENDS Integers, Sequences, FiniteSets, SequencesExt

CONSTANTS
    MaxGames, MaxCaptures,
    Videos,         \* the captures another program shows
    MaxPickers,     \* bound: folder pickers that are open, one under the other
    MaxButtons      \* bound: buttons that go down between two ticks

\* What is required of the constants.
PagesConstantsOK == MaxGames \in Nat /\ MaxCaptures \in Nat

Tabs == <<"Home", "Library", "Store", "Friends", "Captures", "Settings">>
TopLevel == Range(Tabs)
AppPages == TopLevel \union {"GameDetail", "Import", "Achievements"}
Tab(page) == CHOOSE i \in DOMAIN Tabs : Tabs[i] = page
Modals == {"Viewer", "DeleteConfirm"}
Active == {"starting", "playing"}

VARIABLES
    shell,      \* the members of App that the handlers share
    outcome,    \* Outcome() of the runtime
    pickers,    \* the open folder pickers: was Back down with the Select that opened it
    installed,  \* the games in the library folder
    files,      \* the capture files
    taken       \* how many captures were taken

pagesVars == <<shell, outcome, pickers, installed, files, taken>>

\* The place of an entry in a list is how many entries go before it.
ByTitle == [games \in SUBSET (1 .. MaxGames) |->
    [i \in 1 .. Cardinality(games) |->
        CHOOSE g \in games : Cardinality({h \in games : h < g}) = i - 1]]
NewestFirst == [captures \in SUBSET (1 .. MaxCaptures) |->
    [i \in 1 .. Cardinality(captures) |->
        CHOOSE c \in captures : Cardinality({d \in captures : d > c}) = i - 1]]
AtMost(i, n) == IF i <= n THEN i ELSE IF n = 0 THEN 1 ELSE n

-----------------------------------------------------------------------------
(* Selections.                                                             *)

ClampCoreShellSelection(s) == [s EXCEPT !.game = AtMost(@, Len(s.games))]

ClampCaptureExperience(s) ==
    [s EXCEPT !.item = AtMost(@, Len(s.items)),
              !.mode = IF s.items = <<>> THEN "Empty" ELSE IF @ = "Empty" THEN "Browsing" ELSE @]

CancelCaptureModal(s) == ClampCaptureExperience([s EXCEPT !.mode = "Browsing", !.chosen = 0])

\* chosen is the capture that the player asked to delete, for as long as no refresh
\* reorders the list under the question.
BeginCaptureDelete(s) == [s EXCEPT !.mode = "DeleteConfirm", !.chosen = s.items[s.item]]

\* CaptureLibrary and GameRegistry read their folders again.
CapturesRefreshed(s) == [s EXCEPT !.items = NewestFirst[files]]
GamesRefreshed(s, games) == [s EXCEPT !.games = ByTitle[games]]

\* Up goes before Down.
Moved(i, n, in) ==
    LET up == IF "up" \in in /\ i > 1 THEN i - 1 ELSE i
    IN  IF "down" \in in /\ up < n THEN up + 1 ELSE up

-----------------------------------------------------------------------------
(* Navigation.                                                             *)

\* A mutant leaves a question about a capture open.
NavigateWithModal(s, next) ==
    LET there == [s EXCEPT !.page = next]
    IN  IF next = "Captures" THEN ClampCaptureExperience(CapturesRefreshed(there))
        ELSE IF next \in {"Home", "Library", "GameDetail"} THEN ClampCoreShellSelection(there)
        ELSE there
NavigateTo(s, next) ==
    LET there == CancelCaptureModal([s EXCEPT !.page = next])
    IN  IF next = "Captures" THEN ClampCaptureExperience(CapturesRefreshed(there))
        ELSE IF next \in {"Home", "Library", "GameDetail"} THEN ClampCoreShellSelection(there)
        ELSE there

GoToTab(s, page) == NavigateTo([s EXCEPT !.tab = Tab(page)], page)

TurnTo(s, tab) == IF tab \notin DOMAIN Tabs THEN s ELSE GoToTab(s, Tabs[tab])

\* Left goes before right.
TurnPages(s, in) ==
    LET left == IF in \intersect {"left", "shoulderLeft"} # {} THEN TurnTo(s, s.tab - 1) ELSE s
    IN  IF in \intersect {"right", "shoulderRight"} # {} THEN TurnTo(left, left.tab + 1) ELSE left

GoBack(s, in) ==
    IF "back" \notin in \/ s.page = "Home" THEN s
    ELSE GoToTab(s, IF s.page \in {"GameDetail", "Import"} THEN "Library" ELSE "Home")

\* The return page is read on the page of the achievements only; what is recorded
\* elsewhere is lost before that.
OpenAchievements(s, returnPage, fromOverlay) ==
    LET opened == [s EXCEPT !.fromOverlay = fromOverlay,
                            !.returnPage = IF fromOverlay /\ s.page # "Achievements" THEN @ ELSE returnPage]
    IN  IF fromOverlay THEN opened ELSE NavigateTo(opened, "Achievements")

LeaveAchievements(s) ==
    IF s.fromOverlay THEN [s EXCEPT !.fromOverlay = FALSE] ELSE NavigateTo(s, s.returnPage)

SetOverlayVisible(s, visible) ==
    [s EXCEPT !.overlay = visible, !.fromOverlay = @ /\ visible]

-----------------------------------------------------------------------------
(* Launches, and the screen over the pages.                                *)

Terminated == IF outcome \in Active THEN "ended" ELSE outcome

\* Trust blocks the launch; it starts; or the runtime refuses it, with LaunchFailure for
\* its outcome or, as while a game is active, with the outcome it had.
LaunchResults == {"blocked", "started", "failed", "refused"}
Possible(result) == result \in {"started", "failed"} => outcome \notin Active
OutcomeAfter(result) ==
    CASE result = "started" -> "starting" [] result = "failed" -> "failed" [] OTHER -> outcome

LaunchSelected(s, result) ==
    LET clamped == ClampCoreShellSelection(s)
        known == [clamped EXCEPT !.launched = s.games[clamped.game]]
    IN  CASE result = "blocked" -> [clamped EXCEPT !.screen = "Hidden"]
          [] result = "started" -> [known EXCEPT !.screen = "Starting", !.seen = "none"]
          [] OTHER -> [known EXCEPT !.screen = "Failed", !.seen = OutcomeAfter(result)]

InLibrary(s) == s.launched \in Range(s.games)
Position(s) == CHOOSE i \in DOMAIN s.games : s.games[i] = s.launched

ReturnFromLaunchUx(s, toGameDetail) ==
    LET hidden == [s EXCEPT !.screen = "Hidden"]
    IN  IF toGameDetail /\ InLibrary(s)
        THEN NavigateTo([hidden EXCEPT !.game = Position(s), !.tab = Tab("Library")], "GameDetail")
        ELSE GoToTab(hidden, "Home")

UpdateLaunchUx(s, news) ==
    LET seen == [s EXCEPT !.seen = news]
    IN  IF news \in {s.seen, "none"} THEN seen
        ELSE CASE news = "starting" -> [seen EXCEPT !.screen = "Starting"]
               [] news = "playing" -> [seen EXCEPT !.screen = "Hidden"]
               [] news = "failed" -> SetOverlayVisible([seen EXCEPT !.screen = "Failed"], FALSE)
               [] news = "ended" -> SetOverlayVisible([seen EXCEPT !.screen = "Ended"], FALSE)

\* Every tick polls the runtime and looks at the outcome before it handles the input.
Tick ==
    /\ outcome' \in CASE outcome = "starting" -> {"starting", "playing", "failed", "ended"}
                       [] outcome = "playing" -> {"playing", "failed", "ended"}
                       [] OTHER -> {outcome}
    /\ shell' = UpdateLaunchUx(shell, outcome')
    /\ UNCHANGED <<pickers, installed, files, taken>>

-----------------------------------------------------------------------------
(* HandleInput.                                                            *)

Ready == outcome = shell.seen
OnPages == Ready /\ shell.screen = "Hidden" /\ shell.mode \notin Modals /\ ~shell.overlay
Disk == <<installed, files, taken>>

\* Back cancels a starting game.
CancelLaunch(in) ==
    /\ Ready /\ shell.screen = "Starting" /\ "back" \in in
    /\ shell' = [shell EXCEPT !.screen = "Ended"]
    /\ outcome' = Terminated
    /\ UNCHANGED <<pickers, Disk>>

RetryLaunch(in, result) ==
    /\ Ready /\ shell.screen = "Failed" /\ "select" \in in
    /\ IF InLibrary(shell)
       THEN /\ Possible(result)
            /\ shell' = LaunchSelected([shell EXCEPT !.game = Position(shell)], result)
            /\ outcome' = OutcomeAfter(result)
       ELSE UNCHANGED <<shell, outcome>>
    /\ UNCHANGED <<pickers, Disk>>

LeaveLaunchScreen(in) ==
    /\ Ready /\ shell.screen \in {"Failed", "Ended"}
    /\ ~(shell.screen = "Failed" /\ "select" \in in)
    /\ in \intersect {"action", "back", "select"} # {}
    /\ shell' = ReturnFromLaunchUx(shell, "action" \in in)
    /\ UNCHANGED <<outcome, pickers, Disk>>

\* Back closes a capture or the question about it; X asks; A, asked, deletes.  A file
\* that is gone by then is only found missing; one in use stays.
CloseModal(in) ==
    /\ Ready /\ shell.screen = "Hidden" /\ shell.mode \in Modals /\ "back" \in in
    /\ shell' = CancelCaptureModal(shell)
    /\ UNCHANGED <<outcome, pickers, Disk>>

AskToDelete(in) ==
    /\ Ready /\ shell.screen = "Hidden" /\ shell.mode = "Viewer"
    /\ "action" \in in /\ "back" \notin in
    /\ shell' = BeginCaptureDelete(shell)
    /\ UNCHANGED <<outcome, pickers, Disk>>

\* Deleting, and finding nothing to delete, read the folder again.  A mutant goes on asking.
KeepsAsking(s, left) == ClampCaptureExperience([s EXCEPT !.items = NewestFirst[left]])
AfterDelete(s, left) == CancelCaptureModal([s EXCEPT !.items = NewestFirst[left]])

DeleteCapture(in) ==
    /\ Ready /\ shell.screen = "Hidden" /\ shell.mode = "DeleteConfirm"
    /\ "select" \in in /\ "back" \notin in
    /\ \/ /\ files' = files \ {shell.items[shell.item]}
          /\ shell' = AfterDelete(shell, files')
       \/ /\ shell.items[shell.item] \in files
          /\ shell' = CancelCaptureModal(shell)
          /\ UNCHANGED files
    /\ UNCHANGED <<outcome, pickers, installed, taken>>

\* Continue; Friends and Captures, which also go there; Achievements; and the end of the game.
Overlay(in) ==
    /\ Ready /\ shell.screen = "Hidden" /\ shell.mode \notin Modals /\ shell.overlay
    /\ UNCHANGED <<pickers, Disk>>
    /\ LET closed == SetOverlayVisible(shell, FALSE)
       IN  IF shell.fromOverlay
           THEN /\ in \intersect {"menu", "back"} # {}
                /\ shell' = LeaveAchievements(shell)
                /\ UNCHANGED outcome
           ELSE IF in \intersect {"menu", "back"} # {}
           THEN shell' = closed /\ UNCHANGED outcome
           ELSE /\ "select" \in in
                /\ \/ shell' \in {closed, GoToTab(closed, "Friends"), GoToTab(closed, "Captures"),
                                  OpenAchievements(shell, shell.page, TRUE)}
                      /\ UNCHANGED outcome
                   \/ shell' = closed /\ outcome' = Terminated

OpenOverlay(in) ==
    /\ OnPages /\ "menu" \in in /\ outcome \in Active
    /\ shell' = SetOverlayVisible(shell, TRUE)
    /\ UNCHANGED <<outcome, pickers, Disk>>

ToPages(in) == OnPages /\ ~("menu" \in in /\ outcome \in Active)

Achievements(in) ==
    /\ ToPages(in) /\ shell.page = "Achievements"
    /\ in \intersect {"menu", "back"} # {}
    /\ shell' = LeaveAchievements(shell)
    /\ UNCHANGED <<outcome, pickers, Disk>>

\* The buttons that a page keeps from the navigation, which the shoulder buttons get past;
\* of the rows of Settings the volume also keeps left and right.
Uses(page) ==
    CASE page = "Captures" -> {"up", "down", "select", "action", "right"}
      [] page \in {"Friends", "Store"} -> {"up", "down", "select"}
      [] page = "Settings" -> {"up", "down", "select", "action"}
      [] OTHER -> {}
Shoulders == {"shoulderLeft", "shoulderRight"}
Kept(in) == in \intersect Shoulders = {} /\ in \intersect Uses(shell.page) # {}

\* A screenshot opens in the shell, a video elsewhere; X asks to delete either.
BrowseCaptures(in) ==
    /\ ToPages(in) /\ shell.page = "Captures" /\ Kept(in) /\ shell.items # <<>>
    /\ LET moved == [shell EXCEPT !.item = Moved(@, Len(shell.items), in)]
       IN  shell' = IF "action" \in in THEN BeginCaptureDelete(moved)
                    ELSE IF "select" \in in /\ moved.items[moved.item] \notin Videos
                    THEN [moved EXCEPT !.mode = "Viewer"]
                    ELSE moved
    /\ UNCHANGED <<outcome, pickers, Disk>>

\* Left and right turn the pages, but on Game Detail; what is down besides goes to the
\* page turned to.
Turned(in) ==
    LET clamped == ClampCoreShellSelection(shell)
    IN  IF shell.page = "GameDetail" /\ shell.games # <<>> THEN clamped ELSE TurnPages(clamped, in)
OnDetail == shell.page = "GameDetail" /\ shell.games # <<>>
ToNavigation(in) == ToPages(in) /\ shell.page # "Achievements" /\ ~Kept(in)

ShowAchievements(in) ==
    /\ ToNavigation(in) /\ OnDetail /\ "action" \in in
    /\ shell' = OpenAchievements(Turned(in), "GameDetail", FALSE)
    /\ UNCHANGED <<outcome, pickers, Disk>>

\* The Library, and pages on which Select does nothing.
BrowsePages(in) ==
    /\ ToNavigation(in) /\ ~(OnDetail /\ "action" \in in)
    /\ LET s == Turned(in)
           moved == [s EXCEPT !.game = Moved(@, Len(s.games), in)]
       IN  shell' = GoBack(IF s.page # "Library" THEN s
                           ELSE IF "action" \in in THEN NavigateTo(s, "Import")
                           ELSE IF s.games = <<>> THEN s
                           ELSE IF "select" \in in THEN NavigateTo(moved, "GameDetail") ELSE moved, in)
    /\ ~("select" \in in /\ Turned(in).page \in {"Home", "GameDetail", "Import"}
            /\ (Turned(in).page = "Import" \/ shell.games # <<>>))
    /\ UNCHANGED <<outcome, pickers, Disk>>

Play(in, result) ==
    /\ ToNavigation(in) /\ ~(OnDetail /\ "action" \in in)
    /\ "select" \in in /\ Turned(in).page \in {"Home", "GameDetail"} /\ shell.games # <<>>
    /\ Possible(result)
    /\ shell' = GoBack(LaunchSelected(Turned(in), result), in)
    /\ outcome' = OutcomeAfter(result)
    /\ UNCHANGED <<pickers, Disk>>

\* ImportGameFolder: Show returns when the player has chosen; what was down besides Select
\* waits as long.
OpenPicker(in) ==
    /\ ToNavigation(in) /\ "select" \in in /\ Turned(in).page = "Import"
    /\ Len(pickers) < MaxPickers
    /\ pickers' = Append(pickers, "back" \in in)
    /\ shell' = Turned(in)
    /\ UNCHANGED <<outcome, Disk>>

\* After an import the last game of the library is selected, whichever was imported.
Imported(s, games) ==
    LET refreshed == GamesRefreshed(s, games)
    IN  GoToTab(ClampCoreShellSelection([refreshed EXCEPT !.game = Len(refreshed.games)]), "Library")

ClosePicker ==
    /\ pickers # <<>>
    /\ pickers' = Front(pickers)
    /\ LET in == IF Last(pickers) THEN {"back"} ELSE {}
       IN  \/ shell' = GoBack(shell, in) /\ UNCHANGED installed
          \/ \E g \in 1 .. MaxGames :
                /\ installed' = installed \union {g}
                /\ shell' = GoBack(Imported(shell, installed'), in)
    /\ UNCHANGED <<outcome, files, taken>>

-----------------------------------------------------------------------------
(* The keyboard, the game, and the folders.                                *)

RefreshAll ==
    /\ shell' = [ClampCaptureExperience(CapturesRefreshed(ClampCoreShellSelection(
                    GamesRefreshed(shell, installed)))) EXCEPT !.chosen = 0]
    /\ UNCHANGED <<outcome, pickers, Disk>>

KeyImport ==
    /\ shell' = NavigateTo(shell, "Import")
    /\ UNCHANGED <<outcome, pickers, Disk>>

KeyOverlay ==
    /\ outcome \in Active
    /\ shell' = SetOverlayVisible(shell, ~shell.overlay)
    /\ UNCHANGED <<outcome, pickers, Disk>>

TakeCapture ==
    /\ taken < MaxCaptures
    /\ taken' = taken + 1
    /\ files' = files \union {taken'}
    /\ UNCHANGED <<shell, outcome, pickers, installed>>

LoseCapture ==
    /\ \E f \in files : files' = files \ {f}
    /\ UNCHANGED <<shell, outcome, pickers, installed, taken>>

ChangeLibrary ==
    /\ installed' \in SUBSET (1 .. MaxGames) \ {installed}
    /\ UNCHANGED <<shell, outcome, pickers, files, taken>>

-----------------------------------------------------------------------------
PagesInit ==
    /\ installed \in SUBSET (1 .. MaxGames)
    /\ files = {} /\ taken = 0 /\ pickers = <<>> /\ outcome = "none"
    /\ shell = [page |-> "Home", tab |-> 1, returnPage |-> "Home", overlay |-> FALSE,
                 fromOverlay |-> FALSE, games |-> ByTitle[installed], game |-> 1, items |-> <<>>,
                 item |-> 1, mode |-> "Empty", chosen |-> 0, screen |-> "Hidden", seen |-> "none",
                 launched |-> 0]

ShellButtons == {"up", "down", "left", "right", "select", "action", "back", "menu"} \union Shoulders
Inputs == {in \in SUBSET ShellButtons : Cardinality(in) \in 1 .. MaxButtons}

HandleInput ==
    \E in \in Inputs :
        \/ CancelLaunch(in) \/ LeaveLaunchScreen(in)
        \/ \E result \in LaunchResults : RetryLaunch(in, result) \/ Play(in, result)
        \/ CloseModal(in) \/ AskToDelete(in) \/ DeleteCapture(in)
        \/ Overlay(in) \/ OpenOverlay(in)
        \/ Achievements(in) \/ ShowAchievements(in)
        \/ BrowseCaptures(in) \/ BrowsePages(in) \/ OpenPicker(in)
Keys == RefreshAll \/ KeyImport \/ KeyOverlay
Outside == TakeCapture \/ LoseCapture \/ ChangeLibrary

PagesNext == Tick \/ HandleInput \/ ClosePicker \/ Keys \/ Outside
PagesSpec == PagesInit /\ [][PagesNext]_pagesVars

-----------------------------------------------------------------------------
(* Properties.                                                             *)

\* A page of the navigation is shown under its own tab, whichever handler, picker or key
\* led there (ProductionUxContract.h:104).
TabShowsPage == shell.page \in TopLevel => Tabs[shell.tab] = shell.page

\* A capture that fills the screen, or a question about one, is on the page of the captures
\* and about a capture of the list: HandleInput gives every button to it.
ModalHasItsPage ==
    shell.mode \in Modals => shell.page = "Captures" /\ shell.item \in DOMAIN shell.items

\* The shell never selects past the end of a list that another program made shorter.
SelectionInRange ==
    /\ shell.games # <<>> => shell.game \in DOMAIN shell.games
    /\ shell.items # <<>> => shell.item \in DOMAIN shell.items

PagesAgree == TabShowsPage /\ ModalHasItsPage /\ SelectionInRange

\* What A deletes is what the player asked to delete, as long as no refresh came between:
\* the list is sorted by age and the selection is a position in it (App.cpp:271).
DeletesTheChosen ==
    shell.mode = "DeleteConfirm" /\ shell.chosen # 0 => shell.items[shell.item] = shell.chosen

\* Back leads from the achievements to another page
\* (docs/RUNTIME_V4_1_RC_GATE.md:36).
BackLeavesAchievements == shell.page = "Achievements" => shell.returnPage # "Achievements"

\* A question about a capture stays about that capture (App.cpp:606).
QuestionStands ==
    shell.mode = "DeleteConfirm" => shell.chosen # 0

\* With the overlay over the shell, buttons are for the overlay (App.cpp:340, 346).
OverlayTakesInput == shell.overlay => shell.mode \notin Modals

\* A game that was imported is the one selected then (App.cpp:531).
ImportSelects ==
    [][\A g \in 1 .. MaxGames :
          g \in installed' \ installed /\ pickers' # pickers => shell'.games[shell'.game] = g]_pagesVars

\* One folder picker is open at a time (App.cpp:504).
OnePicker == Len(pickers) <= 1
=============================================================================
