----------------------------- MODULE ListView -----------------------------
(***************************************************************************)
(* A list of the shell that scrolls: the captures, the friends, the        *)
(* products of the store and the achievements keep the same three numbers, *)
(* the selected row, the first row on the screen and how many rows fit     *)
(* (CapturesExperience.h, FriendsExperience.h,                             *)
(* StoreSettingsFirstBootExperience.h, AppAchievements.cpp).  The first    *)
(* three belong to a provider, which may be disconnected, fail, or come    *)
(* back with any number of rows, and change at a refresh only.  The        *)
(* achievements are read again whenever the list is drawn, moved in or     *)
(* clamped: more may be unlocked, and a table that cannot be read gives    *)
(* way to its mirror, which may be shorter.  Rows are counted from 0.      *)
(***************************************************************************)
EXTENDS Integers

CONSTANTS VisibleRows, MaxRows

\* What is required of the constants.
ListConstantsOK == VisibleRows \in Nat \ {0} /\ MaxRows \in Nat

VARIABLES
    reread,         \* whether it is the list of achievements
    provider,       \* State() of the provider
    rows,           \* how many rows there were at the last look
    selectedIndex, scrollOffset,
    counted         \* history: how many rows the last clamp was told of

list == <<reread, provider, rows, selectedIndex, scrollOffset, counted>>

\* Friends and Store call these modes; a list without a provider is always Ready.
Mode == IF provider # "Ready" THEN provider ELSE IF rows = 0 THEN "Empty" ELSE "Browsing"

\* The first row moves just as far as brings the selected one on the screen, and not past
\* the last screenful.  A mutant leaves it where it was.
ScrollKept(index, offset, n) == offset
Scroll(index, offset, n) ==
    LET down == IF index < offset THEN index ELSE offset
        up == IF index >= down + VisibleRows THEN index - VisibleRows + 1 ELSE down
        maxStart == IF n > VisibleRows THEN n - VisibleRows ELSE 0
    IN  IF up <= maxStart THEN up ELSE maxStart

\* The clamp of a selection in n rows.
Clamp(index, n) ==
    /\ counted' = n
    /\ IF n = 0
       THEN selectedIndex' = 0 /\ scrollOffset' = 0
       ELSE /\ selectedIndex' = IF index < n THEN index ELSE n - 1
            /\ scrollOffset' = Scroll(selectedIndex', scrollOffset, n)

Listed(p, n) == IF p = "Ready" THEN n ELSE 0

\* F5, or the page is opened: the provider may have anything now.
Refresh ==
    /\ ~reread
    /\ provider' \in {"Disconnected", "Ready", "Error"}
    /\ rows' \in 0 .. MaxRows
    /\ Clamp(selectedIndex, Listed(provider', rows'))
    /\ UNCHANGED reread

\* runtime_.Achievements of the game: what a look may find, by the table or its mirror.
Lengths == 0 .. MaxRows

\* The list is drawn again, or read for an input, without a clamp.
Reread ==
    /\ reread
    /\ rows' \in Lengths
    /\ UNCHANGED <<reread, provider, selectedIndex, scrollOffset, counted>>

\* Whether to move depends on the rows of the last look, the clamp looks for itself.
MoveUp ==
    /\ Mode = "Browsing" /\ selectedIndex > 0
    /\ rows' \in IF reread THEN Lengths ELSE {rows}
    /\ Clamp(selectedIndex - 1, rows')
    /\ UNCHANGED <<reread, provider>>

MoveDown ==
    /\ Mode = "Browsing" /\ selectedIndex + 1 < rows
    /\ rows' \in IF reread THEN Lengths ELSE {rows}
    /\ Clamp(selectedIndex + 1, rows')
    /\ UNCHANGED <<reread, provider>>

\* Opening the achievements of a game starts at the top.
Open ==
    /\ reread
    /\ rows' \in Lengths
    /\ selectedIndex' = 0 /\ scrollOffset' = 0 /\ counted' = rows'
    /\ UNCHANGED <<reread, provider>>

ListInit ==
    /\ reread \in BOOLEAN /\ provider = IF reread THEN "Ready" ELSE "Disconnected"
    /\ rows = 0 /\ selectedIndex = 0 /\ scrollOffset = 0 /\ counted = 0
ListNext == Refresh \/ Reread \/ MoveUp \/ MoveDown \/ Open
ListSpec == ListInit /\ [][ListNext]_list

-----------------------------------------------------------------------------
ListTypeOK ==
    /\ reread \in BOOLEAN
    /\ provider \in {"Disconnected", "Ready", "Error"}
    /\ rows \in 0 .. MaxRows /\ counted \in 0 .. MaxRows
    /\ selectedIndex \in Nat /\ scrollOffset \in Nat

\* The selected row is on the screen, and the screen is not left half empty with rows scrolled
\* out above it.
OnScreen ==
    /\ selectedIndex < rows
    /\ scrollOffset <= selectedIndex /\ selectedIndex < scrollOffset + VisibleRows
    /\ scrollOffset + VisibleRows <= rows \/ scrollOffset = 0

\* The row that A acts on is on the screen, whatever the provider came back with.  The list of
\* achievements may lose it, but only while a look finds fewer rows than the last clamp did, and
\* then Up, which clamps, is possible.
FocusIsVisible ==
    Mode = "Browsing" => OnScreen \/ (reread /\ rows < counted /\ selectedIndex > 0)

\* No list loses the selected row from the screen.  Not so: the achievements.
FocusIsAlwaysVisible == Mode = "Browsing" => OnScreen
=============================================================================
