---------------------------- MODULE ShellProofs -----------------------------
(***************************************************************************)
(* The shell: the list under the player's finger, the page that the kernel *)
(* draws, the buttons, and the pages with what is open over them.          *)
(***************************************************************************)
EXTENDS ListView, ShellKernel, InputCore, ShellPages, FiniteSetTheorems, NaturalsInduction,
        WellFoundedInduction, TLAPS

(***************************************************************************)
(* Proofs about ListView, for every height of the screen and every number  *)
(* of rows.  The clamp is the whole argument: it brings the row of a       *)
(* selection on the screen from wherever the screen was.                   *)
(***************************************************************************)
\* The row is on the screen, and the screen is full if there are rows above it.
Visible(index, offset, n) ==
    /\ index < n
    /\ offset <= index /\ index < offset + VisibleRows
    /\ offset + VisibleRows <= n \/ offset = 0

-----------------------------------------------------------------------------
\* The scroll brings any row of the list on the screen.
LEMMA ScrollShows ==
    ASSUME ListConstantsOK, NEW index \in Nat, NEW offset \in Nat, NEW n \in Nat, index < n
    PROVE  Scroll(index, offset, n) \in Nat /\ Visible(index, Scroll(index, offset, n), n)
PROOF
  <1> DEFINE down == IF index < offset THEN index ELSE offset
             up == IF index >= down + VisibleRows THEN index - VisibleRows + 1 ELSE down
             maxStart == IF n > VisibleRows THEN n - VisibleRows ELSE 0
  <1>1. VisibleRows \in Nat /\ VisibleRows > 0
    BY DEF ListConstantsOK
  <1>2. down \in Nat /\ down <= index
    OBVIOUS
  <1>3. up \in Nat /\ up <= index /\ index < up + VisibleRows
    <2>1. CASE index >= down + VisibleRows
      BY <1>1, <1>2, <2>1
    <2>2. CASE ~(index >= down + VisibleRows)
      BY <1>1, <1>2, <2>2
    <2> QED BY <2>1, <2>2
  <1> HIDE DEF down, up
  <1>4. maxStart \in Nat /\ (maxStart + VisibleRows <= n \/ maxStart = 0)
    BY <1>1
  <1>5. up > maxStart => maxStart <= index /\ index < maxStart + VisibleRows
    BY <1>1, <1>3
  <1>6. up <= maxStart => up + VisibleRows <= n \/ up = 0
    BY <1>1, <1>3
  <1>7. Scroll(index, offset, n) = IF up <= maxStart THEN up ELSE maxStart
    BY DEF Scroll, up, down
  <1> HIDE DEF maxStart
  <1> QED BY <1>1, <1>3, <1>4, <1>5, <1>6, <1>7 DEF Visible

\* So does the clamp, whatever was selected.
Clamped(n) ==
    /\ counted' = n /\ selectedIndex' \in Nat /\ scrollOffset' \in Nat
    /\ IF n = 0 THEN selectedIndex' = 0 /\ scrollOffset' = 0
       ELSE Visible(selectedIndex', scrollOffset', n)
LEMMA ClampShows ==
    ASSUME ListConstantsOK, ListTypeOK, NEW index \in Nat, NEW n \in Nat, Clamp(index, n)
    PROVE  Clamped(n)
PROOF
  <1>1. CASE n = 0
    BY <1>1 DEF Clamp, Clamped
  <1>2. CASE n # 0
    <2>1. selectedIndex' \in Nat /\ selectedIndex' < n
      BY <1>2 DEF Clamp
    <2>2. scrollOffset' = Scroll(selectedIndex', scrollOffset, n) /\ counted' = n
      BY <1>2 DEF Clamp
    <2>3. scrollOffset \in Nat
      BY DEF ListTypeOK
    <2> QED BY <1>2, <2>1, <2>2, <2>3, ScrollShows DEF Clamped
  <1> QED BY <1>1, <1>2

-----------------------------------------------------------------------------
\* What the last clamp was told of was on the screen afterwards, and the rows of a provider
\* are those of the last clamp.
ListInv ==
    /\ ListTypeOK
    /\ reread => provider = "Ready"
    /\ ~reread /\ Mode = "Browsing" => rows = counted
    /\ IF counted = 0 THEN selectedIndex = 0 /\ scrollOffset = 0
       ELSE Visible(selectedIndex, scrollOffset, counted)

\* Every operation leaves the selected row among those its clamp was told of.
LEMMA NextKeepsListInv == ListConstantsOK /\ ListInv /\ [ListNext]_list => ListInv'
PROOF
  <1> SUFFICES ASSUME ListConstantsOK, ListInv, [ListNext]_list PROVE ListInv' OBVIOUS
  <1>0. VisibleRows \in Nat /\ VisibleRows > 0 /\ MaxRows \in Nat /\ rows \in Nat
    BY DEF ListConstantsOK, ListInv, ListTypeOK
  <1>a. Lengths \subseteq Nat /\ Lengths = 0 .. MaxRows
    BY <1>0 DEF Lengths
  <1>1. CASE Refresh
    <2>1. /\ provider' \in {"Disconnected", "Ready", "Error"} /\ rows' \in 0 .. MaxRows
          /\ ~reread /\ ~reread'
      BY <1>1 DEF Refresh
    <2>2. Clamp(selectedIndex, Listed(provider', rows'))
      BY <1>1 DEF Refresh
    <2>3. Listed(provider', rows') \in 0 .. MaxRows /\ Listed(provider', rows') \in Nat
      BY <1>0, <2>1 DEF Listed
    <2>4. Clamped(Listed(provider', rows'))
      BY <2>2, <2>3, ClampShows DEF ListInv, ListTypeOK
    <2>5. Mode' = "Browsing" => Listed(provider', rows') = rows'
      BY <2>1 DEF Mode, Listed
    <2>6. reread' \in BOOLEAN
      BY <1>1 DEF Refresh, ListInv, ListTypeOK
    <2>7. ListTypeOK'
      BY <2>1, <2>3, <2>4, <2>6 DEF ListTypeOK, Clamped
    <2>8. /\ counted' = Listed(provider', rows')
          /\ IF counted' = 0 THEN selectedIndex' = 0 /\ scrollOffset' = 0
             ELSE Visible(selectedIndex', scrollOffset', counted')
      BY <2>4 DEF Clamped
    <2> QED BY <2>1, <2>5, <2>7, <2>8 DEF ListInv, Visible
  <1>2. CASE Reread
    BY <1>0, <1>a, <1>2 DEF Reread, Mode, ListInv, ListTypeOK, Visible
  <1>3. CASE MoveUp
    <2>1. /\ selectedIndex - 1 \in Nat /\ rows' \in 0 .. MaxRows /\ rows' \in Nat
          /\ UNCHANGED <<reread, provider>>
      BY <1>0, <1>a, <1>3 DEF MoveUp, ListInv, ListTypeOK
    <2>2. Clamped(rows')
      BY <1>3, <2>1, ClampShows DEF MoveUp, ListInv
    <2> QED BY <2>1, <2>2 DEF ListInv, ListTypeOK, Clamped
  <1>4. CASE MoveDown
    <2>1. /\ selectedIndex + 1 \in Nat /\ rows' \in 0 .. MaxRows /\ rows' \in Nat
          /\ UNCHANGED <<reread, provider>>
      BY <1>0, <1>a, <1>4 DEF MoveDown, ListInv, ListTypeOK
    <2>2. Clamped(rows')
      BY <1>4, <2>1, ClampShows DEF MoveDown, ListInv
    <2> QED BY <2>1, <2>2 DEF ListInv, ListTypeOK, Clamped
  <1>5. CASE Open
    <2>1. rows' \in 0 .. MaxRows /\ rows' \in Nat
      BY <1>0, <1>a, <1>5 DEF Open
    <2>2. rows' # 0 => Visible(0, 0, rows')
      BY <1>0, <2>1 DEF Visible
    <2> QED BY <1>5, <2>1, <2>2 DEF Open, ListInv, ListTypeOK, Visible
  <1>6. CASE UNCHANGED list
    BY <1>6 DEF list, ListInv, ListTypeOK, Mode, Visible
  <1> QED BY <1>1, <1>2, <1>3, <1>4, <1>5, <1>6 DEF ListNext

\* A list starts empty.
LEMMA InitListInv == ListConstantsOK /\ ListInit => ListInv
PROOF
  BY DEF ListConstantsOK, ListInit, ListInv, ListTypeOK, Mode

\* A list that has not become shorter shows the row that the last clamp showed.
LEMMA ListInvShows == ListConstantsOK /\ ListInv => FocusIsVisible
PROOF
  <1> SUFFICES ASSUME ListConstantsOK, ListInv, Mode = "Browsing"
               PROVE  OnScreen \/ (reread /\ rows < counted /\ selectedIndex > 0)
    BY DEF FocusIsVisible
  <1>1. /\ VisibleRows \in Nat /\ VisibleRows > 0 /\ rows \in Nat /\ rows # 0 /\ counted \in Nat
        /\ selectedIndex \in Nat /\ scrollOffset \in Nat
    BY DEF ListConstantsOK, ListInv, ListTypeOK, Mode
  <1>2. CASE counted = 0
    BY <1>1, <1>2 DEF ListInv, OnScreen
  <1>3. CASE counted # 0 /\ counted <= rows
    BY <1>1, <1>3 DEF ListInv, Visible, OnScreen
  <1>4. CASE rows < counted
    <2>1. reread
      BY <1>1, <1>4 DEF ListInv
    <2> QED BY <1>1, <1>4, <2>1 DEF ListInv, Visible, OnScreen
  <1> QED BY <1>1, <1>2, <1>3, <1>4

-----------------------------------------------------------------------------
\* The row that A acts on is on the screen and the screen is full where it can be, on every
\* screen of at least one row and with every number of rows; achievements that have become fewer
\* since the last clamp wait for a move up.
THEOREM FocusStaysVisible == ASSUME ListConstantsOK PROVE ListSpec => []FocusIsVisible
PROOF
  <1>1. ListInit => ListInv
    BY InitListInv
  <1>2. ListInv /\ [ListNext]_list => ListInv'
    BY NextKeepsListInv
  <1>3. ListInv => FocusIsVisible
    BY ListInvShows
  <1> QED BY <1>1, <1>2, <1>3, PTL DEF ListSpec

\* Offset and selection stay numbers, for any screen and any list.
THEOREM ListTypes == ASSUME ListConstantsOK PROVE ListSpec => []ListTypeOK
PROOF
  <1>1. ListInv /\ [ListNext]_list => ListInv'
    BY NextKeepsListInv
  <1>2. ListInv => ListTypeOK
    BY DEF ListInv
  <1> QED BY <1>1, <1>2, InitListInv, PTL DEF ListSpec

(***************************************************************************)
(* Proofs about ShellKernel, for every list of controllers and every       *)
(* sequence of calls.  That a page without a drawing is never reached      *)
(* rests on the pages that are available being integrated ones, and on the *)
(* way back having been the active page once.                              *)
(***************************************************************************)
KernelInv == KernelTypeOK /\ NavigationIsSound

-----------------------------------------------------------------------------
\* App's pages are pages of the shell.
LEMMA IntegratedPages == Integrated \subseteq Pages /\ "Home" \in Integrated /\ NoParent \notin Pages
PROOF
  <1>1. DOMAIN ToShellPage = {"Home", "Library", "Store", "Friends", "Captures", "Settings",
                              "GameDetail", "Import", "Achievements"}
    BY DEF ToShellPage
  <1>2. "Home" \in Integrated
    <2>1. ToShellPage["Home"] = "Home" BY DEF ToShellPage
    <2> QED BY <1>1, <2>1 DEF Integrated
  <1>3. \A page \in DOMAIN ToShellPage : ToShellPage[page] \in Pages
    BY <1>1 DEF ToShellPage, Pages, TopLevelPages, Contextual
  <1> QED BY <1>2, <1>3 DEF Integrated, Pages, TopLevelPages, Contextual, NoParent

\* Navigation keeps the invariant whatever is left of the way back.
LEMMA NavigateKeepsKernelInv ==
    ASSUME KernelInv, NEW page \in Pages, NEW parent \in {contextualParent, NoParent},
           NavigateFrom(page, parent), UNCHANGED <<controllers, available>>
    PROVE  KernelInv'
PROOF
  <1>1. /\ activePage \in Pages /\ activePage \in Integrated
        /\ navigationRevision \in Nat
        /\ available \subseteq Integrated
        /\ parent # NoParent => activePage \in Contextual /\ parent # activePage /\ parent \in Integrated
        /\ parent \in Pages \cup {NoParent}
    BY DEF KernelInv, KernelTypeOK, NavigationIsSound, ParentIsElsewhere, ActiveIsDrawn
  <1>2. CASE CanShow(page)
    <2>1. /\ contextualParent' = ParentAfter(page, parent)
          /\ activePage' = page
          /\ navigationRevision' = navigationRevision + (IF activePage = page THEN 0 ELSE 1)
          /\ result' = (page \in available)
      BY <1>2 DEF NavigateFrom, Execute
    <2>2. page \in Integrated
      BY <1>1, <1>2 DEF CanShow
    <2>3. navigationRevision' \in Nat
      BY <1>1, <2>1
    <2>4. result' \in BOOLEAN
      BY <2>1
    <2>5. /\ contextualParent' \in Pages \cup {NoParent}
          /\ contextualParent' # NoParent =>
                page \in Contextual /\ contextualParent' # page /\ contextualParent' \in Integrated
      <3>1. CASE page \in TopLevelPages
        BY <2>1, <3>1 DEF ParentAfter
      <3>2. CASE page \notin TopLevelPages /\ activePage # page
        BY <1>1, <2>1, <3>2 DEF ParentAfter, Pages
      <3>3. CASE page \notin TopLevelPages /\ activePage = page
        BY <1>1, <2>1, <3>3 DEF ParentAfter, Pages
      <3> QED BY <3>1, <3>2, <3>3
    <2>6. KernelTypeOK'
      BY <1>1, <2>1, <2>3, <2>4, <2>5 DEF KernelTypeOK
    <2> QED BY <2>1, <2>2, <2>5, <2>6 DEF KernelInv, NavigationIsSound, ParentIsElsewhere, ActiveIsDrawn
  <1>3. CASE ~CanShow(page)
    <2>1. result' = FALSE /\ contextualParent' = parent /\ UNCHANGED <<activePage, navigationRevision>>
      BY <1>3 DEF NavigateFrom
    <2> QED BY <1>1, <2>1 DEF KernelInv, KernelTypeOK, NavigationIsSound, ParentIsElsewhere, ActiveIsDrawn
  <1> QED BY <1>2, <1>3

\* Back is a navigation to where the page was opened, or Home.
LEMMA BackKeepsKernelInv == ASSUME KernelInv, Back PROVE KernelInv'
PROOF
  <1>0. contextualParent # NoParent => contextualParent \in Pages
    BY DEF KernelInv, KernelTypeOK
  <1>1. CASE contextualParent # NoParent /\ NavigateFrom(contextualParent, NoParent)
    BY <1>0, <1>1, NavigateKeepsKernelInv DEF Back
  <1>2. CASE result' = TRUE /\ UNCHANGED navigation
    BY <1>2 DEF Back, navigation, KernelInv, KernelTypeOK, NavigationIsSound, ParentIsElsewhere, ActiveIsDrawn
  <1>3. CASE NavigateFrom("Home", NoParent)
    BY <1>3, IntegratedPages, NavigateKeepsKernelInv DEF Back
  <1> QED BY <1>1, <1>2, <1>3 DEF Back

\* Commands and availability leave the page where it is.
LEMMA NextKeepsKernelInv == KernelConstantsOK /\ KernelInv /\ [KernelNext]_kernel => KernelInv'
PROOF
  <1> SUFFICES ASSUME KernelConstantsOK, KernelInv, [KernelNext]_kernel PROVE KernelInv' OBVIOUS
  <1>1. ASSUME NEW page \in Pages, Navigate(page) PROVE KernelInv'
    BY <1>1, NavigateKeepsKernelInv DEF Navigate
  <1>2. ASSUME NEW page \in Pages, Dispatch(page) PROVE KernelInv'
    <2>1. UNCHANGED navigation /\ UNCHANGED available
      BY <1>2 DEF Dispatch
    <2>2. result' \in BOOLEAN
      <3>1. CASE AnyFound(page)
        BY <1>2, <3>1 DEF Dispatch, Execute
      <3>2. CASE ~AnyFound(page)
        BY <1>2, <3>2 DEF Dispatch
      <3> QED BY <3>1, <3>2
    <2> QED BY <2>1, <2>2 DEF navigation, KernelInv, KernelTypeOK, NavigationIsSound, ParentIsElsewhere, ActiveIsDrawn
  <1>3. ASSUME NEW page \in DOMAIN ToShellPage, NavigateLegacy(page) PROVE KernelInv'
    <2>1. ToShellPage[page] \in Pages
      BY IntegratedPages DEF Integrated
    <2> QED BY <1>1, <1>3, <2>1 DEF NavigateLegacy
  <1>4. ASSUME NEW page \in Changing, SetAvailable(page) PROVE KernelInv'
    BY <1>4 DEF SetAvailable, navigation, KernelConstantsOK, KernelInv, KernelTypeOK, NavigationIsSound, ParentIsElsewhere, ActiveIsDrawn
  <1>5. CASE UNCHANGED kernel
    BY <1>5 DEF kernel, KernelInv, KernelTypeOK, NavigationIsSound, ParentIsElsewhere, ActiveIsDrawn
  <1> QED BY <1>1, <1>2, <1>3, <1>4, <1>5, BackKeepsKernelInv DEF KernelNext

\* The kernel starts at Home.
LEMMA InitKernelInv == KernelInit => KernelInv
PROOF
  <1> SUFFICES ASSUME KernelInit PROVE KernelInv OBVIOUS
  <1>1. KernelTypeOK
    BY IntegratedPages DEF KernelInit, KernelTypeOK, NoParent
  <1>2. NavigationIsSound
    BY IntegratedPages DEF KernelInit, NavigationIsSound, ParentIsElsewhere, ActiveIsDrawn, NoParent
  <1> QED BY <1>1, <1>2 DEF KernelInv

-----------------------------------------------------------------------------
\* Whatever is navigated to, refused and gone back from, the kernel is on a page that App can
\* draw, and the way back of a contextual page leads to another such page.
THEOREM KernelStaysDrawn == ASSUME KernelConstantsOK PROVE KernelSpec => []NavigationIsSound
PROOF
  <1>1. KernelInv /\ [KernelNext]_kernel => KernelInv'
    BY NextKeepsKernelInv
  <1>2. KernelInv => NavigationIsSound
    BY DEF KernelInv
  <1> QED BY <1>1, <1>2, InitKernelInv, PTL DEF KernelSpec

\* Every variable of the kernel stays in its range, and no page becomes available that App
\* has not.
THEOREM KernelTypes == ASSUME KernelConstantsOK PROVE KernelSpec => []KernelTypeOK
PROOF
  <1>1. KernelInv /\ [KernelNext]_kernel => KernelInv'
    BY NextKeepsKernelInv
  <1>2. KernelInv => KernelTypeOK
    BY DEF KernelInv
  <1> QED BY <1>1, <1>2, InitKernelInv, PTL DEF KernelSpec

\* Whether a page is shown or not, the revision and the page move together, and only when
\* the answer is yes (ShellKernel.cpp:63).
LEMMA NavigationMoves ==
    ASSUME KernelInv, NEW page, NEW parent, NavigateFrom(page, parent)
    PROVE  navigationRevision' # navigationRevision <=> activePage' # activePage /\ result'
PROOF
  <1>1. navigationRevision \in Nat
    BY DEF KernelInv, KernelTypeOK
  <1>2. CASE CanShow(page)
    <2>1. /\ activePage' = page /\ result' = (page \in available)
          /\ navigationRevision' = navigationRevision + (IF activePage = page THEN 0 ELSE 1)
      BY <1>2 DEF NavigateFrom, Execute
    <2>2. page \in available
      BY <1>2 DEF CanShow
    <2>3. navigationRevision' # navigationRevision <=> activePage' # activePage
      BY <1>1, <2>1
    <2>4. result'
      BY <2>1, <2>2, Zenon
    <2> QED BY <2>3, <2>4, Zenon
  <1>3. CASE ~CanShow(page)
    BY <1>3 DEF NavigateFrom
  <1> QED BY <1>2, <1>3

\* A refused navigation leaves the page and its revision, though Navigate changes the page
\* before it asks the controller.
THEOREM RefusalsStay == ASSUME KernelConstantsOK PROVE KernelSpec => RefusalStays
PROOF
  <1>1. ASSUME KernelInv, [KernelNext]_kernel
        PROVE  [navigationRevision' # navigationRevision <=> activePage' # activePage /\ result']_kernel
    <2>1. ASSUME NEW page, Navigate(page)
          PROVE  navigationRevision' # navigationRevision <=> activePage' # activePage /\ result'
      BY <1>1, <2>1, NavigationMoves DEF Navigate
    <2>2. CASE Back
      BY <1>1, <2>2, NavigationMoves DEF Back, navigation
    <2>3. ASSUME NEW page, Dispatch(page) \/ SetAvailable(page)
          PROVE  UNCHANGED navigation
      BY <2>3 DEF Dispatch, SetAvailable
    <2> QED BY <1>1, <2>1, <2>2, <2>3 DEF KernelNext, NavigateLegacy, navigation
  <1>2. KernelInv /\ [KernelNext]_kernel => KernelInv'
    BY NextKeepsKernelInv
  <1> QED BY <1>1, <1>2, InitKernelInv, PTL DEF KernelSpec, RefusalStays

-----------------------------------------------------------------------------
(***************************************************************************)
(* Proofs about InputCore, for any controllers, samples and delays.  The   *)
(* pace of a repetition is kept twice, by the clocks of RepeatNavigation   *)
(* and by the history of the hold: the two agree for as long as nobody     *)
(* takes the direction over, and whenever the code forgets the repetition  *)
(* the owner has changed.                                                  *)
(***************************************************************************)
\* The clocks of the code are those of the hold.
ClocksAgree ==
    repeating # None /\ ~hold.shared =>
        hold.age = sinceStart /\ hold.quiet = sinceRepeat /\ hold.pulses # 0
InputInv == InputTypeOK /\ ClocksAgree /\ RepeatsArePaced

-----------------------------------------------------------------------------
\* A set of numbers that is not empty has a least one.
LEMMA LeastIsThere ==
    ASSUME NEW T, T \subseteq Nat, T # {} PROVE \E n \in T : \A k \in T : n <= k
<1> DEFINE R == OpToRel(<, Nat)
<1>1. IsWellFoundedOn(R, Nat)
  BY NatLessThanWellFounded
<1>2. \A x, y \in Nat : y < x => <<y, x>> \in R
  BY DEF OpToRel
<1> HIDE DEF R
<1>3. \E x \in T : \A y \in T : ~(<<y, x>> \in R)
  BY <1>1, WFMin
<1>4. PICK x \in T : \A y \in T : ~(y < x)
  BY <1>2, <1>3
<1>5. \A y \in T : x <= y
  BY <1>4
<1> QED BY <1>5

\* Whoever becomes the owner is plugged in, and was chosen among those in use if there are any.
LEMMA OwnerIs ==
    ASSUME InputTypeOK, NEW samples \in [Controllers -> Samples]
    PROVE  /\ Owner(samples) \in Controllers \union {NoController}
           /\ Lost(samples) \/ Yields(samples) => Owner(samples) # active
<1>1. \A S : S \subseteq Controllers /\ S # {} => LeastOf(S) \in S
  BY LeastIsThere, ControllersAssumption DEF LeastOf
<1>2. Plugged(samples) \subseteq Controllers /\ InUse(samples) \subseteq Plugged(samples)
  BY DEF Plugged, InUse
<1>3. NoController \notin Controllers
  BY ControllersAssumption DEF NoController
<1>4. CASE Yields(samples)
  BY <1>1, <1>2, <1>4 DEF Owner, Yields
<1>5. CASE ~Yields(samples) /\ active \in Plugged(samples)
  BY <1>2, <1>5 DEF Owner, Lost, Plugged
<1>6. CASE ~Yields(samples) /\ active \notin Plugged(samples)
  <2>1. Owner(samples) = Claimed(samples)
    BY <1>6 DEF Owner
  <2>2. Claimed(samples) \in Plugged(samples) \union {NoController}
    BY <1>1, <1>2 DEF Claimed
  <2> QED BY <1>2, <1>6, <2>1, <2>2 DEF Lost
<1> QED BY <1>4, <1>5, <1>6

\* The direction is one of those that are held.
LEMMA DirectionIs ==
    ASSUME NEW held \in SUBSET Directions, NEW owner, NEW samples, NEW last
    PROVE  ResolveDirection(held, owner, samples, last) \in Directions \union {None}
<1> DEFINE ds == Uncancelled(held)
           horizontal == ds \cap {"left", "right"}
           vertical == ds \cap {"up", "down"}
           Chosen(S) == CHOOSE d \in S : TRUE
<1>1. ds \subseteq Directions
  BY DEF Uncancelled
<1>2. \A S : S # {} => Chosen(S) \in S
  OBVIOUS
<1>3. ds # {} => horizontal # {} \/ vertical # {}
  BY <1>1 DEF Directions
<1> HIDE DEF Chosen
<1>4. horizontal # {} => Chosen(horizontal) \in Directions
  BY <1>2 DEF Directions
<1>5. vertical # {} => Chosen(vertical) \in Directions
  BY <1>2 DEF Directions
<1>6. ResolveDirection(held, owner, samples, last)
        \in {None, Chosen(horizontal), Chosen(vertical)} \union (IF last \in ds THEN {last} ELSE {})
  BY DEF ResolveDirection, Chosen
<1>7. ds = {} => ResolveDirection(held, owner, samples, last) = None
  BY DEF ResolveDirection
<1>8. ds # {} /\ horizontal = {} => ResolveDirection(held, owner, samples, last) = Chosen(vertical)
  BY DEF ResolveDirection, Chosen
<1>9. ds # {} /\ horizontal # {} /\ vertical = {} => ResolveDirection(held, owner, samples, last) = Chosen(horizontal)
  BY DEF ResolveDirection, Chosen
<1> HIDE DEF horizontal, vertical, ds
<1>10. CASE ds = {}
  BY <1>7, <1>10
<1>11. CASE ds # {} /\ horizontal = {}
  BY <1>3, <1>5, <1>8, <1>11
<1>12. CASE ds # {} /\ vertical = {}
  BY <1>3, <1>4, <1>9, <1>12
<1>13. CASE horizontal # {} /\ vertical # {}
  <2>1. CASE last \in ds
    BY <1>1, <1>4, <1>5, <1>6, <1>13, <2>1
  <2>2. CASE last \notin ds
    BY <1>4, <1>5, <1>6, <1>13, <2>2
  <2> QED BY <2>1, <2>2
<1> QED BY <1>10, <1>11, <1>12, <1>13

\* An age stays in its range and grows with the time.
LEMMA AgedIs == \A age \in 0 .. Delay : \A time \in Nat : Aged(age, time) \in 0 .. Delay
BY TimesAssumption DEF Aged

\* One frame keeps the invariant: a new direction starts the hold and both clocks anew, one
\* that goes on ages them alike, and one that is taken over is shared from then on.
LEMMA UpdateKeepsInv ==
    ASSUME InputInv, NEW samples \in [Controllers -> Samples], NEW keys \in KeySets,
           NEW time \in 1 .. MaxFrame, Update(samples, keys, time)
    PROVE  InputInv'
<1> DEFINE owner == Owner(samples)
           last == IF Lost(samples) \/ Yields(samples) THEN None ELSE repeating
           latches == [i \in Controllers |->
                         IF samples[i].connected THEN UpdateAnalogLatch(analog[i], samples[i]) ELSE {}]
           held == keys \union
                   (IF owner = NoController THEN {} ELSE samples[owner].dpad \union latches[owner])
           direction == ResolveDirection(held, owner, samples, last)
           start == Aged(sinceStart, time)
           repeat == Aged(sinceRepeat, time)
<1>1. /\ analog' = latches /\ active' = owner /\ previous' = samples
      /\ pressed' = IF owner = NoController THEN {} ELSE Edges(samples[owner], previous[owner])
      /\ RepeatNavigation(direction, last, time) /\ Held(direction, owner, time)
  BY DEF Update
<1>2. /\ owner \in Controllers \union {NoController}
      /\ Lost(samples) \/ Yields(samples) => owner # active
  BY OwnerIs DEF InputInv
<1>3. latches \in [Controllers -> SUBSET Directions]
  BY DEF UpdateAnalogLatch
<1>4. \A i \in Controllers : samples[i] \in Sample
  BY SamplesAssumption
<1>5. direction \in Directions \union {None}
  <2> HIDE DEF latches, owner
  <2>1. held \in SUBSET Directions
    BY <1>2, <1>3, <1>4, KeysAssumption DEF Sample
  <2> HIDE DEF held, last
  <2> QED BY <2>1, DirectionIs
<1>6. pressed' \subseteq Buttons
  <2> HIDE DEF owner
  <2>1. CASE owner = NoController
    BY <1>1, <2>1
  <2>2. CASE owner # NoController
    <3>1. samples[owner].buttons \subseteq Buttons
      BY <1>2, <1>4, <2>2 DEF Sample
    <3> QED BY <1>1, <2>2, <3>1 DEF Edges
  <2> QED BY <2>1, <2>2
<1> HIDE DEF owner, latches, held, direction
<1>7. None \notin Directions
  BY DEF None, Directions
<1>8. time \in Nat /\ Delay \in Nat /\ Cadence \in Nat
  BY TimesAssumption
<1>9. /\ start \in 0 .. Delay /\ repeat \in 0 .. Delay
      /\ hold \in [age : 0..Delay, pulses : 0..2, quiet : 0..Delay, gap : 0..Delay,
                   shared : BOOLEAN]
      /\ Aged(hold.age, time) \in 0 .. Delay /\ Aged(hold.quiet, time) \in 0 .. Delay
      /\ Aged(0, time) \in 0 .. Delay
      /\ repeating \in Directions \union {None}
      /\ sinceStart \in 0 .. Delay /\ sinceRepeat \in 0 .. Delay
  <2>1. hold.age \in 0 .. Delay /\ hold.quiet \in 0 .. Delay /\ 0 \in 0 .. Delay
    BY <1>8 DEF InputInv, InputTypeOK
  <2> QED BY <1>8, <2>1, AgedIs DEF InputInv, InputTypeOK
<1>10. last \in {None, repeating} /\ (owner = active => last = repeating)
  BY <1>2
<1> HIDE DEF last
<1> DEFINE first == direction # None /\ direction # last
           again == direction # None /\ direction = last /\ Due(start, repeat)
<1>11. /\ repeating' = direction
       /\ nav' = IF first \/ again THEN direction ELSE None
       /\ sinceStart' = IF first THEN 0 ELSE start
       /\ sinceRepeat' = IF first \/ again THEN 0 ELSE repeat
  BY <1>1 DEF RepeatNavigation, Fired
<1> DEFINE NewHold(h) == h \in [age : 0..Delay, pulses : 0..2, quiet : 0..Delay, gap : 0..Delay,
                                shared : BOOLEAN]
<1>12. NewHold(hold') /\ ClocksAgree' /\ RepeatsArePaced'
  <2>1. CASE direction = None
    <3>1. hold' = NoHold /\ nav' = None /\ repeating' = None
      BY <1>1, <1>11, <2>1 DEF Held
    <3> QED BY <1>8, <3>1 DEF NoHold, ClocksAgree, RepeatsArePaced
  <2>2. CASE direction # None /\ direction # repeating
    <3>1. first /\ nav' = direction /\ nav' # None /\ sinceStart' = 0 /\ sinceRepeat' = 0
      BY <1>10, <1>11, <2>2
    <3>2. hold' = [age |-> 0, pulses |-> 1, quiet |-> 0, gap |-> Aged(0, time), shared |-> FALSE]
      <4>1. hold' = [age |-> 0,
                     pulses |-> IF NoHold.pulses < 2 THEN NoHold.pulses + 1 ELSE NoHold.pulses,
                     quiet |-> 0, gap |-> Aged(NoHold.quiet, time), shared |-> FALSE]
        BY <2>2, <3>1, <1>1 DEF Held
      <4>2. NoHold.pulses = 0 /\ NoHold.quiet = 0
        BY DEF NoHold
      <4> QED BY <4>1, <4>2
    <3> QED BY <1>8, <1>9, <3>1, <3>2 DEF ClocksAgree, RepeatsArePaced
  <2>3. CASE direction # None /\ direction = repeating
    <3> DEFINE pulse == nav' # None
               quiet == Aged(hold.quiet, time)
    <3>1. hold' = [age |-> Aged(hold.age, time),
                   pulses |-> IF pulse /\ hold.pulses < 2 THEN hold.pulses + 1 ELSE hold.pulses,
                   quiet |-> IF pulse THEN 0 ELSE quiet,
                   gap |-> IF pulse THEN quiet ELSE hold.gap,
                   shared |-> hold.shared \/ owner # active]
      BY <2>3, <1>1 DEF Held
    <3>2. NewHold(hold')
      BY <1>8, <1>9, <3>1
    <3>3. CASE hold.shared \/ owner # active
      <4>1. hold'.shared
        BY <3>1, <3>3
      <4> QED BY <3>2, <4>1 DEF ClocksAgree, RepeatsArePaced
    <3>4. CASE ~hold.shared /\ owner = active
      <4>1. last = repeating /\ ~first
        BY <1>10, <2>3, <3>4
      <4>2. hold.age = sinceStart /\ hold.quiet = sinceRepeat /\ hold.pulses # 0
        BY <2>3, <3>4 DEF InputInv, ClocksAgree
      <4>3. /\ sinceStart' = start /\ sinceRepeat' = IF pulse THEN 0 ELSE repeat
            /\ pulse <=> Due(start, repeat)
        BY <1>11, <2>3, <4>1
      <4>4. hold'.age = start /\ hold'.quiet = (IF pulse THEN 0 ELSE repeat) /\ hold'.pulses # 0
        BY <1>9, <3>1, <4>2
      <4>5. ClocksAgree'
        BY <4>3, <4>4 DEF ClocksAgree
      <4>6. RepeatsArePaced'
        <5> SUFFICES ASSUME pulse PROVE hold'.age >= Delay /\ hold'.gap >= Cadence
          BY DEF RepeatsArePaced, Paced
        <5>1. start >= Delay /\ repeat >= Cadence
          BY <4>3 DEF Due
        <5>2. hold'.gap = repeat
          BY <3>1, <4>2
        <5> QED BY <4>4, <5>1, <5>2
      <4> QED BY <3>2, <4>5, <4>6
    <3> QED BY <3>3, <3>4, <1>9
  <2> QED BY <2>1, <2>2, <2>3
<1>13. InputTypeOK'
  <2>1. sinceStart' \in 0 .. Delay /\ sinceRepeat' \in 0 .. Delay
    BY <1>8, <1>9, <1>11
  <2>2. nav' \in {repeating', None}
    BY <1>11
  <2> QED BY <1>1, <1>2, <1>3, <1>5, <1>6, <1>11, <1>12, <2>1, <2>2 DEF InputTypeOK
<1> QED BY <1>12, <1>13 DEF InputInv

LEMMA InputInvariance == InputSpec => []InputInv
<1>1. InputInit => InputInv
  <2> SUFFICES ASSUME InputInit PROVE InputInv
    OBVIOUS
  <2>1. Delay \in Nat
    BY TimesAssumption
  <2>2. hold \in [age : 0..Delay, pulses : 0..2, quiet : 0..Delay, gap : 0..Delay, shared : BOOLEAN]
    BY <2>1 DEF InputInit, NoHold
  <2>3. InputTypeOK
    BY <2>1, <2>2, SamplesAssumption DEF InputInit, InputTypeOK
  <2> QED BY <2>3 DEF InputInit, InputInv, ClocksAgree, RepeatsArePaced
<1>2. InputInv /\ [InputNext]_inputVars => InputInv'
  <2> SUFFICES ASSUME InputInv, [InputNext]_inputVars PROVE InputInv'
    OBVIOUS
  <2>1. CASE InputNext
    BY <2>1, UpdateKeepsInv DEF InputNext
  <2>2. CASE UNCHANGED inputVars
    BY <2>2 DEF inputVars, InputInv, InputTypeOK, ClocksAgree, RepeatsArePaced, Paced
  <2> QED BY <2>1, <2>2
<1> QED BY <1>1, <1>2, PTL DEF InputSpec

\* The owner is one of the controllers or none, the clocks stay within the longest delay, and
\* what fires is the direction that is held.
THEOREM InputTypes == InputSpec => []InputTypeOK
<1>1. InputInv => InputTypeOK
  BY DEF InputInv
<1> QED BY <1>1, InputInvariance, PTL

\* A direction that one owner holds fires at once, then after the delay, then no faster than
\* the cadence, whatever the samples of the frames are and however long a frame takes.
THEOREM RepeatsStayPaced == InputSpec => []RepeatsArePaced
<1>1. InputInv => RepeatsArePaced
  BY DEF InputInv
<1> QED BY <1>1, InputInvariance, PTL

\* What the shell takes for the press of a button went down since the last frame, on a
\* controller that was there, whoever owned the navigation then.
THEOREM PressesAreFresh == InputSpec => PressIsFresh
<1>1. ASSUME [InputNext]_inputVars
      PROVE  [\A b \in pressed' :
                /\ active' # NoController
                /\ previous[active'].connected /\ b \notin previous[active'].buttons]_inputVars
  BY <1>1 DEF InputNext, Update, Edges
<1> QED BY <1>1, PTL DEF InputSpec, PressIsFresh

-----------------------------------------------------------------------------
(***************************************************************************)
(* Proofs about ShellPages, for any number of games and captures.  A       *)
(* handler is a composition of steps over one record, so the invariant is  *)
(* one of the record: each step has a lemma that says that it keeps it, or *)
(* what it asks for to establish it, and the handlers follow by composing  *)
(* the lemmas.  The two things that the properties do not say and that the *)
(* induction needs are that the achievements were opened from a page       *)
(* without a tab, for Back sets no tab, and that a modal has a list under  *)
(* it.                                                                     *)
(***************************************************************************)
\* The lists that the shell can hold, and what is in them.
Libraries == {ByTitle[games] : games \in SUBSET (1 .. MaxGames)}
Folders == {NewestFirst[captures] : captures \in SUBSET (1 .. MaxCaptures)}
Entries == (UNION {Range(l) : l \in Libraries \union Folders}) \union {0}

ShellRecord ==
    [page : AppPages, tab : 1 .. 6, returnPage : AppPages, overlay : BOOLEAN,
     fromOverlay : BOOLEAN, games : Libraries, game : Nat \ {0}, items : Folders,
     item : Nat \ {0}, mode : {"Empty", "Browsing"} \union Modals, chosen : Entries,
     screen : {"Hidden", "Starting", "Failed", "Ended"},
     seen : {"none", "starting", "playing", "failed", "ended"}, launched : Entries]

\* A page of the navigation has its tab, and the achievements are left for another page.
PageIsSound(s) ==
    /\ s.page \in TopLevel => Tabs[s.tab] = s.page
    /\ s.page = "Achievements" => s.returnPage \notin TopLevel
GameIsSound(s) == s.games # <<>> => s.game <= Len(s.games)
ItemIsSound(s) ==
    /\ s.items # <<>> => s.item <= Len(s.items)
    /\ s.mode \in Modals => s.page = "Captures" /\ s.items # <<>>
QuestionIsSound(s) == s.mode = "DeleteConfirm" /\ s.chosen # 0 => s.items[s.item] = s.chosen
Sound(s) ==
    s \in ShellRecord /\ PageIsSound(s) /\ GameIsSound(s) /\ ItemIsSound(s) /\ QuestionIsSound(s)

\* The files that the captures come from.
PagesInv ==
    /\ Sound(shell)
    /\ outcome \in {"none", "starting", "playing", "failed", "ended"}
    /\ installed \subseteq 1 .. MaxGames
    /\ taken \in 0 .. MaxCaptures /\ files \subseteq 1 .. taken

-----------------------------------------------------------------------------
\* What is numbered up to a bound can be counted.
LEMMA SubsetsAreFinite ==
    ASSUME NEW n \in Nat, NEW S \in SUBSET (1 .. n) PROVE IsFiniteSet(S) /\ Cardinality(S) \in Nat
<1>1. IsFiniteSet(1 .. n)
  BY FS_Interval
<1>2. IsFiniteSet(S)
  BY <1>1, FS_Subset
<1> QED BY <1>2, FS_CardinalityType

\* A list has its entries at the places from 1 on.
LEMMA ListsAre ==
    ASSUME PagesConstantsOK, NEW l \in Libraries \union Folders
    PROVE  /\ Len(l) \in Nat /\ DOMAIN l = 1 .. Len(l) /\ (l = <<>> <=> Len(l) = 0)
           /\ \A i \in 1 .. Len(l) : l[i] \in Entries
<1>1. \E n \in Nat : \E p : l = [i \in 1 .. n |-> p[i]]
  <2>1. \A n \in Nat : \A S \in SUBSET (1 .. n) : Cardinality(S) \in Nat
    BY SubsetsAreFinite
  <2>2. CASE l \in Libraries
    <3>1. PICK games \in SUBSET (1 .. MaxGames) : l = ByTitle[games]
      BY <2>2 DEF Libraries
    <3> DEFINE p == [i \in 1 .. Cardinality(games) |->
                       CHOOSE g \in games : Cardinality({h \in games : h < g}) = i - 1]
    <3>2. l = p
      BY <3>1 DEF ByTitle
    <3>3. p = [i \in 1 .. Cardinality(games) |-> p[i]]
      OBVIOUS
    <3> HIDE DEF p
    <3> QED BY <2>1, <3>2, <3>3 DEF PagesConstantsOK
  <2>3. CASE l \in Folders
    <3>1. PICK captures \in SUBSET (1 .. MaxCaptures) : l = NewestFirst[captures]
      BY <2>3 DEF Folders
    <3> DEFINE p == [i \in 1 .. Cardinality(captures) |->
                       CHOOSE c \in captures : Cardinality({d \in captures : d > c}) = i - 1]
    <3>2. l = p
      BY <3>1 DEF NewestFirst
    <3>3. p = [i \in 1 .. Cardinality(captures) |-> p[i]]
      OBVIOUS
    <3> HIDE DEF p
    <3> QED BY <2>1, <3>2, <3>3 DEF PagesConstantsOK
  <2> QED BY <2>2, <2>3
<1>2. PICK n, p : n \in Nat /\ l = [i \in 1 .. n |-> p[i]]
  BY <1>1
<1>3. Len(l) = n /\ DOMAIN l = 1 .. n
  BY <1>2
<1>4. l = <<>> <=> n = 0
  BY <1>2, <1>3
<1>5. \A i \in 1 .. n : l[i] \in Entries
  <2>1. \A i \in 1 .. n : l[i] \in Range(l)
    BY <1>3 DEF Range
  <2> QED BY <2>1 DEF Entries
<1> QED BY <1>3, <1>4, <1>5

\* A library with a game in it is shown as a list with an entry.
LEMMA LibraryShows ==
    ASSUME PagesConstantsOK, NEW games \in SUBSET (1 .. MaxGames)
    PROVE  ByTitle[games] \in Libraries /\ (games # {} => ByTitle[games] # <<>>)
<1>1. IsFiniteSet(games) /\ Cardinality(games) \in Nat /\ (Cardinality(games) = 0 <=> games = {})
  BY SubsetsAreFinite, FS_EmptySet DEF PagesConstantsOK
<1>2. DOMAIN ByTitle[games] = 1 .. Cardinality(games)
  BY DEF ByTitle
<1>3. ByTitle[games] \in Libraries
  BY DEF Libraries
<1>4. games # {} => Cardinality(games) >= 1
  <2>1. \A n \in Nat : n # 0 => n >= 1
    OBVIOUS
  <2> QED BY <1>1, <2>1
<1>5. games # {} => 1 \in DOMAIN ByTitle[games]
  BY <1>1, <1>2, <1>4
<1>6. DOMAIN <<>> = {}
  OBVIOUS
<1> QED BY <1>3, <1>5, <1>6

LEMMA AtMostIs ==
    ASSUME NEW i \in Nat \ {0}, NEW n \in Nat
    PROVE  AtMost(i, n) \in Nat \ {0} /\ (n # 0 => AtMost(i, n) <= n)
BY DEF AtMost

\* The tabs, and the pages that are not among them.
LEMMA TabsAre ==
    /\ DOMAIN Tabs = 1 .. 6
    /\ {"Home", "Library", "Store", "Friends", "Captures", "Settings"} \subseteq TopLevel
    /\ {"GameDetail", "Import", "Achievements"} \intersect TopLevel = {}
    /\ TopLevel \subseteq AppPages
    /\ \A page \in TopLevel : Tab(page) \in 1 .. 6 /\ Tabs[Tab(page)] = page
    /\ \A tab \in 1 .. 6 : Tabs[tab] \in TopLevel
<1>1. DOMAIN Tabs = 1 .. 6
  BY DEF Tabs
<1>2. TopLevel = {Tabs[i] : i \in 1 .. 6}
  BY <1>1 DEF TopLevel, Range
<1>3. TopLevel = {"Home", "Library", "Store", "Friends", "Captures", "Settings"}
  <2>1. /\ Tabs[1] = "Home" /\ Tabs[2] = "Library" /\ Tabs[3] = "Store"
        /\ Tabs[4] = "Friends" /\ Tabs[5] = "Captures" /\ Tabs[6] = "Settings"
    BY DEF Tabs
  <2> QED BY <1>2, <2>1
<1>4. \A page \in TopLevel : Tab(page) \in 1 .. 6 /\ Tabs[Tab(page)] = page
  BY <1>1, <1>2 DEF Tab
<1> QED BY <1>1, <1>2, <1>3, <1>4 DEF AppPages

-----------------------------------------------------------------------------
\* The steps that the handlers are made of.

\* The clamp of the library brings any selection into it and touches nothing else.
LEMMA CoreClampIs ==
    ASSUME PagesConstantsOK, NEW s \in ShellRecord
    PROVE  /\ ClampCoreShellSelection(s) \in ShellRecord
           /\ GameIsSound(ClampCoreShellSelection(s))
           /\ \E i \in Nat \ {0} : ClampCoreShellSelection(s) = [s EXCEPT !.game = i]
<1> DEFINE i == AtMost(s.game, Len(s.games))
<1>1. s.game \in Nat \ {0} /\ s.games \in Libraries
  BY DEF ShellRecord
<1>2. /\ Len(s.games) \in Nat /\ (s.games = <<>> <=> Len(s.games) = 0)
  BY <1>1, ListsAre
<1>3. i \in Nat \ {0} /\ (Len(s.games) # 0 => i <= Len(s.games))
  BY <1>1, <1>2, AtMostIs
<1>4. ClampCoreShellSelection(s) = [s EXCEPT !.game = i]
  BY DEF ClampCoreShellSelection
<1> HIDE DEF i
<1>5. [s EXCEPT !.game = i] \in ShellRecord
  BY <1>3 DEF ShellRecord
<1>6. [s EXCEPT !.game = i].game = i /\ [s EXCEPT !.game = i].games = s.games
  BY DEF ShellRecord
<1> QED BY <1>2, <1>3, <1>4, <1>5, <1>6 DEF GameIsSound

\* What the clamp of the captures leaves of a shell.
SameButItem(s, t) ==
    /\ t.page = s.page /\ t.tab = s.tab /\ t.returnPage = s.returnPage /\ t.games = s.games
    /\ t.game = s.game /\ t.items = s.items /\ t.launched = s.launched
    /\ t.screen = s.screen

LEMMA CaptureClampIs ==
    ASSUME PagesConstantsOK, NEW s \in ShellRecord, s.mode \in Modals => s.page = "Captures"
    PROVE  /\ ClampCaptureExperience(s) \in ShellRecord
           /\ ItemIsSound(ClampCaptureExperience(s))
           /\ SameButItem(s, ClampCaptureExperience(s))
           /\ ClampCaptureExperience(s).chosen = s.chosen
           /\ ClampCaptureExperience(s).mode \in Modals => s.mode \in Modals
<1> DEFINE i == AtMost(s.item, Len(s.items))
           m == IF s.items = <<>> THEN "Empty" ELSE IF s.mode = "Empty" THEN "Browsing" ELSE s.mode
           t == [s EXCEPT !.item = i, !.mode = m]
<1>1. s.item \in Nat \ {0} /\ s.items \in Folders /\ s.mode \in {"Empty", "Browsing"} \union Modals
  BY DEF ShellRecord
<1>2. /\ Len(s.items) \in Nat /\ (s.items = <<>> <=> Len(s.items) = 0)
  BY <1>1, ListsAre
<1>3. i \in Nat \ {0} /\ (Len(s.items) # 0 => i <= Len(s.items))
  BY <1>1, <1>2, AtMostIs
<1>4. /\ m \in {"Empty", "Browsing"} \union Modals
      /\ m \in Modals => s.mode \in Modals /\ s.items # <<>>
  BY <1>1 DEF Modals
<1>5. ClampCaptureExperience(s) = t
  BY DEF ClampCaptureExperience
<1> HIDE DEF i, m
<1>6. t \in ShellRecord
  BY <1>3, <1>4 DEF ShellRecord
<1>7. SameButItem(s, t) /\ t.chosen = s.chosen /\ t.item = i /\ t.mode = m
  BY DEF ShellRecord, SameButItem
<1> HIDE DEF t
<1>8. ItemIsSound(t)
  BY <1>2, <1>3, <1>4, <1>7 DEF ItemIsSound, SameButItem
<1> QED BY <1>4, <1>5, <1>6, <1>7, <1>8

\* A modal that is cancelled leaves the pages as they are and a sound selection of captures.
LEMMA CancelIs ==
    ASSUME PagesConstantsOK, NEW s \in ShellRecord
    PROVE  /\ CancelCaptureModal(s) \in ShellRecord
           /\ ItemIsSound(CancelCaptureModal(s)) /\ QuestionIsSound(CancelCaptureModal(s))
           /\ SameButItem(s, CancelCaptureModal(s))
           /\ CancelCaptureModal(s).chosen = 0 /\ CancelCaptureModal(s).mode \notin Modals
<1> DEFINE t == [s EXCEPT !.mode = "Browsing", !.chosen = 0]
<1>1. t \in ShellRecord
  <2>1. 0 \in Entries
    BY DEF Entries
  <2> QED BY <2>1 DEF ShellRecord
<1>2. SameButItem(s, t) /\ t.chosen = 0 /\ t.mode = "Browsing"
  BY DEF ShellRecord, SameButItem
<1>3. CancelCaptureModal(s) = ClampCaptureExperience(t)
  BY DEF CancelCaptureModal
<1> HIDE DEF t
<1>4. t.mode \notin Modals
  BY <1>2 DEF Modals
<1> QED BY <1>1, <1>2, <1>3, <1>4, CaptureClampIs DEF SameButItem, QuestionIsSound

\* Every navigation ends on the page with a sound selection of games and captures.
LEMMA NavigateToIs ==
    ASSUME PagesConstantsOK, NEW s \in ShellRecord, GameIsSound(s),
           files \subseteq 1 .. MaxCaptures, NEW next \in AppPages,
           next \in TopLevel => Tabs[s.tab] = next,
           next = "Achievements" => s.returnPage \notin TopLevel
    PROVE  /\ Sound(NavigateTo(s, next)) /\ NavigateTo(s, next).page = next
           /\ NavigateTo(s, next).games = s.games
<1> DEFINE b == [s EXCEPT !.page = next]
           there == CancelCaptureModal(b)
           r == CapturesRefreshed(there)
<1>1. b \in ShellRecord /\ b.page = next /\ GameIsSound(b) /\ PageIsSound(b) /\ b.games = s.games
  <2>1. /\ b \in ShellRecord /\ b.page = next /\ b.tab = s.tab /\ b.games = s.games
        /\ b.game = s.game /\ b.returnPage = s.returnPage
    BY DEF ShellRecord
  <2> HIDE DEF b
  <2> QED BY <2>1 DEF GameIsSound, PageIsSound
<1> HIDE DEF b
<1>2. /\ there \in ShellRecord /\ there.page = next /\ Sound(there) /\ there.chosen = 0
      /\ there.mode \notin Modals /\ there.games = s.games
  BY <1>1, CancelIs DEF SameButItem, Sound, GameIsSound, PageIsSound
<1> HIDE DEF there
<1>3. NavigateTo(s, next) =
        IF next = "Captures" THEN ClampCaptureExperience(r)
        ELSE IF next \in {"Home", "Library", "GameDetail"} THEN ClampCoreShellSelection(there)
        ELSE there
  BY DEF NavigateTo, b, there
<1>4. CASE next = "Captures"
  <2>1. /\ r \in ShellRecord /\ r.chosen = 0 /\ r.mode = there.mode /\ r.page = next
        /\ r.tab = there.tab /\ r.returnPage = there.returnPage /\ r.games = there.games
        /\ r.game = there.game
    <3>1. NewestFirst[files] \in Folders
      BY DEF Folders
    <3> QED BY <1>2, <3>1 DEF ShellRecord, CapturesRefreshed
  <2> DEFINE c == ClampCaptureExperience(r)
  <2> HIDE DEF r
  <2>2. /\ c \in ShellRecord /\ ItemIsSound(c) /\ SameButItem(r, c) /\ c.chosen = 0
    BY <1>2, <2>1, CaptureClampIs
  <2> HIDE DEF c
  <2>3. Sound(c) /\ c.page = next /\ c.games = s.games
    BY <1>2, <2>1, <2>2 DEF Sound, SameButItem, GameIsSound, PageIsSound, QuestionIsSound
  <2> QED BY <1>3, <1>4, <2>3 DEF c
<1>5. CASE next \in {"Home", "Library", "GameDetail"}
  <2> DEFINE c == ClampCoreShellSelection(there)
  <2>1. PICK i \in Nat \ {0} : c \in ShellRecord /\ GameIsSound(c) /\ c = [there EXCEPT !.game = i]
    BY <1>2, CoreClampIs
  <2> HIDE DEF c
  <2>2. /\ c.page = there.page /\ c.tab = there.tab /\ c.returnPage = there.returnPage
        /\ c.items = there.items /\ c.item = there.item /\ c.mode = there.mode
        /\ c.chosen = there.chosen /\ c.games = there.games
    BY <1>2, <2>1 DEF ShellRecord
  <2>3. Sound(c)
    BY <1>2, <2>1, <2>2 DEF Sound, PageIsSound, ItemIsSound, QuestionIsSound
  <2> QED BY <1>2, <1>3, <1>5, <2>2, <2>3 DEF c
<1>6. CASE next \notin {"Captures", "Home", "Library", "GameDetail"}
  BY <1>2, <1>3, <1>6
<1> QED BY <1>4, <1>5, <1>6

\* To a tab, with the tab.
LEMMA GoToTabIs ==
    ASSUME PagesConstantsOK, NEW s \in ShellRecord, GameIsSound(s),
           files \subseteq 1 .. MaxCaptures, NEW page \in TopLevel
    PROVE  /\ Sound(GoToTab(s, page)) /\ GoToTab(s, page).page = page
           /\ GoToTab(s, page).games = s.games
<1> DEFINE t == [s EXCEPT !.tab = Tab(page)]
<1>1. Tab(page) \in 1 .. 6 /\ Tabs[Tab(page)] = page /\ page \in AppPages /\ page # "Achievements"
  BY TabsAre
<1>2. t \in ShellRecord /\ t.tab = Tab(page) /\ t.games = s.games /\ t.game = s.game
  BY <1>1 DEF ShellRecord
<1>3. GoToTab(s, page) = NavigateTo(t, page)
  BY DEF GoToTab
<1> HIDE DEF t
<1>4. GameIsSound(t)
  BY <1>2 DEF GameIsSound
<1> QED BY <1>1, <1>2, <1>3, <1>4, NavigateToIs

\* The pages turn from tab to tab, and back leads to the library or home.
LEMMA TurnPagesIs ==
    ASSUME PagesConstantsOK, NEW s, Sound(s), files \subseteq 1 .. MaxCaptures, NEW in
    PROVE  Sound(TurnPages(s, in)) /\ TurnPages(s, in).games = s.games
<1>1. ASSUME NEW t, Sound(t), NEW tab PROVE Sound(TurnTo(t, tab)) /\ TurnTo(t, tab).games = t.games
  <2>1. CASE tab \in 1 .. 6
    <3>1. Tabs[tab] \in TopLevel
      BY <2>1, TabsAre
    <3>2. TurnTo(t, tab) = GoToTab(t, Tabs[tab])
      BY <2>1, TabsAre DEF TurnTo
    <3> QED BY <1>1, <3>1, <3>2, GoToTabIs DEF Sound
  <2>2. CASE tab \notin 1 .. 6
    <3>1. TurnTo(t, tab) = t
      BY <2>2, TabsAre DEF TurnTo
    <3> QED BY <1>1, <3>1
  <2> QED BY <2>1, <2>2
<1> DEFINE left == IF in \intersect {"left", "shoulderLeft"} # {} THEN TurnTo(s, s.tab - 1) ELSE s
<1>2. Sound(left) /\ left.games = s.games
  BY <1>1
<1>3. TurnPages(s, in) =
        IF in \intersect {"right", "shoulderRight"} # {} THEN TurnTo(left, left.tab + 1) ELSE left
  BY DEF TurnPages
<1> HIDE DEF left
<1>4. Sound(TurnTo(left, left.tab + 1)) /\ TurnTo(left, left.tab + 1).games = left.games
  BY <1>1, <1>2
<1> QED BY <1>2, <1>3, <1>4

LEMMA GoBackIs ==
    ASSUME PagesConstantsOK, NEW s, Sound(s), files \subseteq 1 .. MaxCaptures, NEW in
    PROVE  Sound(GoBack(s, in))
<1> DEFINE to == IF s.page \in {"GameDetail", "Import"} THEN "Library" ELSE "Home"
<1>1. to \in TopLevel
  BY TabsAre
<1>2. GoBack(s, in) \in {s, GoToTab(s, to)}
  BY DEF GoBack
<1> HIDE DEF to
<1>3. Sound(GoToTab(s, to))
  BY <1>1, GoToTabIs DEF Sound
<1> QED BY <1>2, <1>3

\* The overlay comes and goes over any page.
LEMMA OverlayIs ==
    ASSUME NEW s, Sound(s), NEW visible \in BOOLEAN
    PROVE  Sound(SetOverlayVisible(s, visible))
<1> DEFINE t == SetOverlayVisible(s, visible)
<1>1. /\ t \in ShellRecord /\ t.page = s.page /\ t.tab = s.tab /\ t.returnPage = s.returnPage
      /\ t.games = s.games /\ t.game = s.game /\ t.items = s.items /\ t.item = s.item
      /\ t.mode = s.mode /\ t.chosen = s.chosen
  BY DEF SetOverlayVisible, Sound, ShellRecord
<1> HIDE DEF t
<1> QED BY <1>1 DEF t, Sound, PageIsSound, GameIsSound, ItemIsSound, QuestionIsSound

\* The achievements are opened over a page that Back leads to, or over the overlay.
LEMMA OpenAchievementsIs ==
    ASSUME PagesConstantsOK, NEW s, Sound(s), files \subseteq 1 .. MaxCaptures
    PROVE  /\ Sound(OpenAchievements(s, "GameDetail", FALSE))
           /\ Sound(OpenAchievements(s, s.page, TRUE))
<1>1. Sound(OpenAchievements(s, "GameDetail", FALSE))
  <2> DEFINE t == [s EXCEPT !.fromOverlay = FALSE, !.returnPage = "GameDetail"]
  <2>1. t \in ShellRecord /\ t.returnPage = "GameDetail" /\ t.games = s.games /\ t.game = s.game
    BY DEF Sound, ShellRecord, AppPages
  <2>2. OpenAchievements(s, "GameDetail", FALSE) = NavigateTo(t, "Achievements")
    <3>1. [s EXCEPT !.fromOverlay = FALSE,
                    !.returnPage = IF FALSE /\ s.page # "Achievements" THEN @ ELSE "GameDetail"] = t
      OBVIOUS
    <3> QED BY <3>1 DEF OpenAchievements
  <2> HIDE DEF t
  <2>3. "Achievements" \in AppPages /\ "Achievements" \notin TopLevel /\ "GameDetail" \notin TopLevel
    BY TabsAre DEF AppPages
  <2>4. GameIsSound(t)
    BY <2>1 DEF Sound, GameIsSound
  <2> QED BY <2>1, <2>2, <2>3, <2>4, NavigateToIs
<1>2. Sound(OpenAchievements(s, s.page, TRUE))
  <2> DEFINE t == OpenAchievements(s, s.page, TRUE)
  <2>1. /\ t \in ShellRecord /\ t.page = s.page /\ t.tab = s.tab
        /\ t.returnPage = IF s.page # "Achievements" THEN s.returnPage ELSE s.page
        /\ t.games = s.games /\ t.game = s.game /\ t.items = s.items /\ t.item = s.item
        /\ t.mode = s.mode /\ t.chosen = s.chosen
    BY DEF OpenAchievements, Sound, ShellRecord
  <2> HIDE DEF t
  <2>2. "Achievements" \notin TopLevel
    BY TabsAre
  <2> QED BY <2>1, <2>2 DEF t, Sound, PageIsSound, GameIsSound, ItemIsSound, QuestionIsSound
<1> QED BY <1>1, <1>2

LEMMA LeaveAchievementsIs ==
    ASSUME PagesConstantsOK, NEW s, Sound(s), files \subseteq 1 .. MaxCaptures,
           s.fromOverlay \/ s.page = "Achievements"
    PROVE  Sound(LeaveAchievements(s))
<1>1. CASE s.fromOverlay
  <2> DEFINE t == [s EXCEPT !.fromOverlay = FALSE]
  <2>1. /\ t \in ShellRecord /\ t.page = s.page /\ t.tab = s.tab /\ t.returnPage = s.returnPage
        /\ t.games = s.games /\ t.game = s.game /\ t.items = s.items /\ t.item = s.item
        /\ t.mode = s.mode /\ t.chosen = s.chosen
    BY DEF Sound, ShellRecord
  <2>2. LeaveAchievements(s) = t
    BY <1>1 DEF LeaveAchievements
  <2> HIDE DEF t
  <2> QED BY <2>1, <2>2 DEF Sound, PageIsSound, GameIsSound, ItemIsSound, QuestionIsSound
<1>2. CASE ~s.fromOverlay
  <2>1. s.returnPage \in AppPages /\ s.returnPage \notin TopLevel
    BY <1>2 DEF Sound, ShellRecord, PageIsSound
  <2>2. LeaveAchievements(s) = NavigateTo(s, s.returnPage)
    BY <1>2 DEF LeaveAchievements
  <2> QED BY <2>1, <2>2, NavigateToIs DEF Sound
<1> QED BY <1>1, <1>2

\* A launch is of a game of the library, and stays on the page.
LEMMA LaunchSelectedIs ==
    ASSUME PagesConstantsOK, NEW s, Sound(s), s.games # <<>>, NEW how \in LaunchResults,
           outcome \in {"none", "starting", "playing", "failed", "ended"}
    PROVE  Sound(LaunchSelected(s, how))
<1> DEFINE clamped == ClampCoreShellSelection(s)
           g == s.games[clamped.game]
           news == OutcomeAfter(how)
           t == LaunchSelected(s, how)
<1>1. PICK i \in Nat \ {0} : /\ clamped \in ShellRecord /\ GameIsSound(clamped)
                             /\ clamped = [s EXCEPT !.game = i]
  BY CoreClampIs DEF Sound
<1>2. /\ clamped.page = s.page /\ clamped.tab = s.tab /\ clamped.returnPage = s.returnPage
      /\ clamped.games = s.games /\ clamped.items = s.items /\ clamped.item = s.item
      /\ clamped.mode = s.mode /\ clamped.chosen = s.chosen /\ clamped.game \in Nat \ {0}
  BY <1>1 DEF Sound, ShellRecord
<1>3. g \in Entries
  <2>1. clamped.games \in Libraries /\ clamped.games # <<>>
    BY <1>1, <1>2 DEF ShellRecord
  <2>2. clamped.game <= Len(clamped.games)
    BY <1>1, <2>1 DEF GameIsSound
  <2>3. clamped.game \in 1 .. Len(clamped.games)
    BY <1>2, <2>1, <2>2, ListsAre
  <2> QED BY <1>2, <2>1, <2>3, ListsAre
<1>4. news \in {"none", "starting", "playing", "failed", "ended"}
  BY DEF OutcomeAfter
<1>5. t \in {[clamped EXCEPT !.screen = "Hidden"],
            [clamped EXCEPT !.launched = g, !.screen = "Starting", !.seen = "none"],
            [clamped EXCEPT !.launched = g, !.screen = "Failed", !.seen = news]}
  <2> DEFINE known == [clamped EXCEPT !.launched = g]
  <2>1. t = CASE how = "blocked" -> [clamped EXCEPT !.screen = "Hidden"]
              [] how = "started" -> [known EXCEPT !.screen = "Starting", !.seen = "none"]
              [] OTHER -> [known EXCEPT !.screen = "Failed", !.seen = news]
    BY Zenon DEF LaunchSelected
  <2>2. t \in {[clamped EXCEPT !.screen = "Hidden"],
              [known EXCEPT !.screen = "Starting", !.seen = "none"],
              [known EXCEPT !.screen = "Failed", !.seen = news]}
    <3> HIDE DEF clamped, known, news, t
    <3> QED BY <2>1
  <2> HIDE DEF clamped, g, news
  <2>3. /\ [known EXCEPT !.screen = "Starting", !.seen = "none"] =
              [clamped EXCEPT !.launched = g, !.screen = "Starting", !.seen = "none"]
        /\ [known EXCEPT !.screen = "Failed", !.seen = news] =
              [clamped EXCEPT !.launched = g, !.screen = "Failed", !.seen = news]
    BY <1>1 DEF ShellRecord
  <2> HIDE DEF known
  <2> QED BY <2>2, <2>3
<1> HIDE DEF clamped, g, news, t
<1>6. /\ t \in ShellRecord
      /\ t.page = clamped.page /\ t.tab = clamped.tab /\ t.returnPage = clamped.returnPage
      /\ t.games = clamped.games /\ t.game = clamped.game /\ t.items = clamped.items
      /\ t.item = clamped.item /\ t.mode = clamped.mode /\ t.chosen = clamped.chosen
  <2>1. CASE t = [clamped EXCEPT !.screen = "Hidden"]
    BY <1>1, <2>1 DEF ShellRecord
  <2>2. CASE t = [clamped EXCEPT !.launched = g, !.screen = "Starting", !.seen = "none"]
    BY <1>1, <1>3, <2>2 DEF ShellRecord
  <2>3. CASE t = [clamped EXCEPT !.launched = g, !.screen = "Failed", !.seen = news]
    BY <1>1, <1>3, <1>4, <2>3 DEF ShellRecord
  <2> QED BY <1>5, <2>1, <2>2, <2>3
<1> QED BY <1>1, <1>2, <1>6 DEF t, Sound, PageIsSound, GameIsSound, ItemIsSound, QuestionIsSound

\* The screen over the pages comes and goes.
LEMMA ScreenIs ==
    ASSUME NEW s, Sound(s), NEW screen \in {"Hidden", "Starting", "Failed", "Ended"}
    PROVE  Sound([s EXCEPT !.screen = screen]) /\ [s EXCEPT !.screen = screen].games = s.games
<1> DEFINE t == [s EXCEPT !.screen = screen]
<1>1. /\ t \in ShellRecord /\ t.page = s.page /\ t.tab = s.tab /\ t.returnPage = s.returnPage
      /\ t.games = s.games /\ t.game = s.game /\ t.items = s.items /\ t.item = s.item
      /\ t.mode = s.mode /\ t.chosen = s.chosen
  BY DEF Sound, ShellRecord
<1> HIDE DEF t
<1> QED BY <1>1 DEF t, Sound, PageIsSound, GameIsSound, ItemIsSound, QuestionIsSound

\* The launch screen follows the outcome.
LEMMA UpdateLaunchUxIs ==
    ASSUME NEW s, Sound(s), NEW news \in {"none", "starting", "playing", "failed", "ended"}
    PROVE  Sound(UpdateLaunchUx(s, news))
<1> DEFINE seen == [s EXCEPT !.seen = news]
<1>2. Sound(seen)
  <2>1. /\ seen \in ShellRecord /\ seen.page = s.page /\ seen.tab = s.tab
        /\ seen.returnPage = s.returnPage /\ seen.games = s.games /\ seen.game = s.game
        /\ seen.items = s.items /\ seen.item = s.item /\ seen.mode = s.mode
        /\ seen.chosen = s.chosen
    BY DEF Sound, ShellRecord
  <2> HIDE DEF seen
  <2> QED BY <2>1 DEF Sound, PageIsSound, GameIsSound, ItemIsSound, QuestionIsSound
<1>3. UpdateLaunchUx(s, news) \in
        {seen, [seen EXCEPT !.screen = "Starting"], [seen EXCEPT !.screen = "Hidden"],
         SetOverlayVisible([seen EXCEPT !.screen = "Failed"], FALSE),
         SetOverlayVisible([seen EXCEPT !.screen = "Ended"], FALSE)}
  BY DEF UpdateLaunchUx
<1> HIDE DEF seen
<1>4. /\ Sound([seen EXCEPT !.screen = "Starting"]) /\ Sound([seen EXCEPT !.screen = "Hidden"])
      /\ Sound([seen EXCEPT !.screen = "Failed"]) /\ Sound([seen EXCEPT !.screen = "Ended"])
  BY <1>2, ScreenIs
<1>5. /\ Sound(SetOverlayVisible([seen EXCEPT !.screen = "Failed"], FALSE))
      /\ Sound(SetOverlayVisible([seen EXCEPT !.screen = "Ended"], FALSE))
  BY <1>4, OverlayIs
<1> QED BY <1>2, <1>3, <1>4, <1>5

\* The selected game, wherever a list has it, and any place in a library.
LEMMA SelectIs ==
    ASSUME PagesConstantsOK, NEW s, Sound(s), s.games # <<>>, NEW i \in 1 .. Len(s.games)
    PROVE  Sound([s EXCEPT !.game = i]) /\ [s EXCEPT !.game = i].games = s.games
<1> DEFINE t == [s EXCEPT !.game = i]
<1>1. s.games \in Libraries /\ Len(s.games) \in Nat
  BY ListsAre DEF Sound, ShellRecord
<1>2. i \in Nat \ {0} /\ i <= Len(s.games)
  BY <1>1
<1>3. /\ t \in ShellRecord /\ t.page = s.page /\ t.tab = s.tab /\ t.returnPage = s.returnPage
      /\ t.games = s.games /\ t.game = i /\ t.items = s.items /\ t.item = s.item
      /\ t.mode = s.mode /\ t.chosen = s.chosen
  BY <1>2 DEF Sound, ShellRecord
<1> HIDE DEF t
<1> QED BY <1>2, <1>3 DEF t, Sound, PageIsSound, GameIsSound, ItemIsSound, QuestionIsSound

LEMMA PositionIs ==
    ASSUME PagesConstantsOK, NEW s, Sound(s), InLibrary(s)
    PROVE  s.games # <<>> /\ Position(s) \in 1 .. Len(s.games)
<1>1. s.games \in Libraries
  BY DEF Sound, ShellRecord
<1>2. Len(s.games) \in Nat /\ DOMAIN s.games = 1 .. Len(s.games) /\ (s.games = <<>> => Len(s.games) = 0)
  BY <1>1, ListsAre
<1>3. \E i \in DOMAIN s.games : s.games[i] = s.launched
  BY DEF InLibrary, Range
<1>4. Position(s) \in DOMAIN s.games
  BY <1>3 DEF Position
<1> QED BY <1>2, <1>4

LEMMA MovedIs ==
    ASSUME NEW n \in Nat, NEW i \in 1 .. n, NEW in
    PROVE  Moved(i, n, in) \in 1 .. n
<1> DEFINE up == IF "up" \in in /\ i > 1 THEN i - 1 ELSE i
<1>1. up \in 1 .. n
  OBVIOUS
<1>2. Moved(i, n, in) = IF "down" \in in /\ up < n THEN up + 1 ELSE up
  BY DEF Moved
<1> HIDE DEF up
<1> QED BY <1>1, <1>2

\* A place of the captures is moved to, looked at and asked about.
LEMMA CapturePlaceIs ==
    ASSUME PagesConstantsOK, NEW s, Sound(s), s.items # <<>>, s.page = "Captures"
    PROVE  /\ s.item \in 1 .. Len(s.items)
           /\ Sound(BeginCaptureDelete(s))
           /\ s.mode \notin Modals => Sound([s EXCEPT !.mode = "Viewer"])
<1>1. s.items \in Folders /\ s.item \in Nat \ {0} /\ s.item <= Len(s.items)
  BY DEF Sound, ShellRecord, ItemIsSound
<1>2. s.item \in 1 .. Len(s.items) /\ s.items[s.item] \in Entries
  BY <1>1, ListsAre
<1>3. Sound(BeginCaptureDelete(s))
  <2> DEFINE t == BeginCaptureDelete(s)
  <2>1. /\ t \in ShellRecord /\ t.page = s.page /\ t.tab = s.tab /\ t.returnPage = s.returnPage
        /\ t.games = s.games /\ t.game = s.game /\ t.items = s.items /\ t.item = s.item
        /\ t.chosen = s.items[s.item]
    BY <1>2 DEF BeginCaptureDelete, Sound, ShellRecord, Modals
  <2> HIDE DEF t
  <2> QED BY <2>1 DEF t, Sound, PageIsSound, GameIsSound, ItemIsSound, QuestionIsSound
<1>4. Sound([s EXCEPT !.mode = "Viewer"])
  <2> DEFINE t == [s EXCEPT !.mode = "Viewer"]
  <2>1. /\ t \in ShellRecord /\ t.page = s.page /\ t.tab = s.tab /\ t.returnPage = s.returnPage
        /\ t.games = s.games /\ t.game = s.game /\ t.items = s.items /\ t.item = s.item
        /\ t.mode = "Viewer"
    BY DEF Sound, ShellRecord, Modals
  <2> HIDE DEF t
  <2> QED BY <2>1 DEF t, Sound, PageIsSound, GameIsSound, ItemIsSound, QuestionIsSound
<1> QED BY <1>2, <1>3, <1>4

LEMMA MoveItemIs ==
    ASSUME PagesConstantsOK, NEW s, Sound(s), s.items # <<>>, s.page = "Captures",
           s.mode \notin Modals, NEW in
    PROVE  LET t == [s EXCEPT !.item = Moved(@, Len(s.items), in)]
           IN  Sound(t) /\ t.items = s.items /\ t.page = s.page /\ t.mode = s.mode
<1> DEFINE i == Moved(s.item, Len(s.items), in)
           t == [s EXCEPT !.item = i]
<1>1. s.item \in 1 .. Len(s.items)
  BY CapturePlaceIs
<1>2. Len(s.items) \in Nat
  BY ListsAre DEF Sound, ShellRecord
<1>3. i \in 1 .. Len(s.items)
  BY <1>1, <1>2, MovedIs
<1>4. i \in Nat \ {0} /\ i <= Len(s.items)
  BY <1>2, <1>3
<1> HIDE DEF i
<1>5. /\ t \in ShellRecord /\ t.page = s.page /\ t.tab = s.tab /\ t.returnPage = s.returnPage
      /\ t.games = s.games /\ t.game = s.game /\ t.items = s.items /\ t.item = i
      /\ t.mode = s.mode /\ t.chosen = s.chosen
  BY <1>4 DEF Sound, ShellRecord
<1> HIDE DEF t
<1>6. Sound(t)
  BY <1>4, <1>5 DEF Sound, PageIsSound, GameIsSound, ItemIsSound, QuestionIsSound, Modals
<1>7. t = [s EXCEPT !.item = Moved(@, Len(s.items), in)]
  BY DEF t, i
<1> QED BY <1>5, <1>6, <1>7

\* Leaving the launch screen shows the game, if it is still listed, or home.
LEMMA ReturnIs ==
    ASSUME PagesConstantsOK, NEW s, Sound(s), files \subseteq 1 .. MaxCaptures,
           NEW toGameDetail \in BOOLEAN
    PROVE  Sound(ReturnFromLaunchUx(s, toGameDetail))
<1> DEFINE hidden == [s EXCEPT !.screen = "Hidden"]
           at == [hidden EXCEPT !.game = Position(s)]
           t == [hidden EXCEPT !.game = Position(s), !.tab = Tab("Library")]
<1>1. Sound(hidden) /\ hidden.games = s.games
  BY ScreenIs
<1>2. Sound(GoToTab(hidden, "Home"))
  BY <1>1, TabsAre, GoToTabIs DEF Sound
<1>3. InLibrary(s) => Sound(NavigateTo(t, "GameDetail"))
  <2> SUFFICES ASSUME InLibrary(s) PROVE Sound(NavigateTo(t, "GameDetail"))
    OBVIOUS
  <2> HIDE DEF hidden
  <2>1. Sound(at)
    BY <1>1, PositionIs, SelectIs
  <2>2. t \in ShellRecord /\ t.games = at.games /\ t.game = at.game
    <3>1. Tab("Library") \in 1 .. 6
      BY TabsAre
    <3>2. t = [at EXCEPT !.tab = Tab("Library")]
      BY <1>1 DEF Sound, ShellRecord
    <3> HIDE DEF at, t
    <3> QED BY <2>1, <3>1, <3>2 DEF Sound, ShellRecord
  <2> HIDE DEF at, t
  <2>3. GameIsSound(t)
    BY <2>1, <2>2 DEF Sound, GameIsSound
  <2>4. "GameDetail" \in AppPages /\ "GameDetail" \notin TopLevel
    BY TabsAre DEF AppPages
  <2> QED BY <2>2, <2>3, <2>4, NavigateToIs
<1>4. ReturnFromLaunchUx(s, toGameDetail) =
        IF toGameDetail /\ InLibrary(s) THEN NavigateTo(t, "GameDetail") ELSE GoToTab(hidden, "Home")
  BY DEF ReturnFromLaunchUx
<1> QED BY <1>2, <1>3, <1>4

\* What the navigation is given after the pages have turned.
LEMMA TurnedIs ==
    ASSUME PagesConstantsOK, Sound(shell), files \subseteq 1 .. MaxCaptures, NEW in
    PROVE  Sound(Turned(in)) /\ Turned(in).games = shell.games
<1> DEFINE c == ClampCoreShellSelection(shell)
<1>1. PICK i \in Nat \ {0} : /\ c \in ShellRecord /\ GameIsSound(c) /\ c = [shell EXCEPT !.game = i]
  BY CoreClampIs DEF Sound
<1> HIDE DEF c
<1>2. /\ c.page = shell.page /\ c.tab = shell.tab /\ c.returnPage = shell.returnPage
      /\ c.items = shell.items /\ c.item = shell.item /\ c.mode = shell.mode
      /\ c.chosen = shell.chosen /\ c.games = shell.games
  BY <1>1 DEF Sound, ShellRecord
<1>3. Sound(c)
  BY <1>1, <1>2 DEF Sound, PageIsSound, ItemIsSound, QuestionIsSound
<1>4. Sound(TurnPages(c, in)) /\ TurnPages(c, in).games = c.games
  BY <1>3, TurnPagesIs
<1>5. Turned(in) \in {c, TurnPages(c, in)}
  BY DEF Turned, c
<1> QED BY <1>2, <1>3, <1>4, <1>5

\* The library is read again, and after an import its last game is selected.
LEMMA RefreshedIs ==
    ASSUME PagesConstantsOK, NEW s, Sound(s), files \subseteq 1 .. MaxCaptures,
           NEW games \in SUBSET (1 .. MaxGames)
    PROVE  /\ Sound([ClampCaptureExperience(CapturesRefreshed(ClampCoreShellSelection(
                        GamesRefreshed(s, games)))) EXCEPT !.chosen = 0])
           /\ games # {} => Sound(Imported(s, games))
<1> DEFINE r == GamesRefreshed(s, games)
<1>1. /\ r \in ShellRecord /\ r.page = s.page /\ r.tab = s.tab /\ r.returnPage = s.returnPage
      /\ r.games = ByTitle[games] /\ r.items = s.items /\ r.item = s.item /\ r.mode = s.mode
      /\ r.chosen = s.chosen
  BY LibraryShows DEF GamesRefreshed, Sound, ShellRecord
<1> HIDE DEF r
<1>2. Sound([ClampCaptureExperience(CapturesRefreshed(ClampCoreShellSelection(r)))
                EXCEPT !.chosen = 0])
  <2> DEFINE c == ClampCoreShellSelection(r)
             f == CapturesRefreshed(c)
             k == ClampCaptureExperience(f)
             t == [k EXCEPT !.chosen = 0]
  <2>1. PICK i \in Nat \ {0} : /\ c \in ShellRecord /\ GameIsSound(c) /\ c = [r EXCEPT !.game = i]
    BY <1>1, CoreClampIs
  <2> HIDE DEF c
  <2>2. /\ c.page = r.page /\ c.tab = r.tab /\ c.returnPage = r.returnPage /\ c.mode = r.mode
    BY <1>1, <2>1 DEF ShellRecord
  <2>3. /\ f \in ShellRecord /\ f.page = c.page /\ f.tab = c.tab /\ f.returnPage = c.returnPage
        /\ f.games = c.games /\ f.game = c.game /\ f.mode = c.mode
    <3>1. NewestFirst[files] \in Folders
      BY DEF Folders
    <3> QED BY <2>1, <3>1 DEF CapturesRefreshed, ShellRecord
  <2> HIDE DEF f
  <2>4. f.mode \in Modals => f.page = "Captures"
    BY <1>1, <2>2, <2>3 DEF Sound, ItemIsSound
  <2>5. k \in ShellRecord /\ ItemIsSound(k) /\ SameButItem(f, k)
    BY <2>3, <2>4, CaptureClampIs
  <2> HIDE DEF k
  <2>6. /\ t \in ShellRecord /\ t.page = k.page /\ t.tab = k.tab /\ t.returnPage = k.returnPage
        /\ t.games = k.games /\ t.game = k.game /\ t.items = k.items /\ t.item = k.item
        /\ t.mode = k.mode /\ t.chosen = 0
    <3>1. 0 \in Entries
      BY DEF Entries
    <3> QED BY <2>5, <3>1 DEF ShellRecord
  <2> HIDE DEF t
  <2>7. Sound(t)
    BY <1>1, <2>1, <2>2, <2>3, <2>5, <2>6
    DEF Sound, SameButItem, PageIsSound, GameIsSound, ItemIsSound, QuestionIsSound
  <2> QED BY <2>7 DEF t, k, f, c
<1>3. ASSUME games # {} PROVE Sound(Imported(s, games))
  <2> DEFINE l == [r EXCEPT !.game = Len(r.games)]
             c == ClampCoreShellSelection(l)
  <2>1. r.games \in Libraries /\ r.games # <<>>
    BY <1>1, <1>3, LibraryShows
  <2>2. Len(r.games) \in Nat \ {0}
    BY <2>1, ListsAre
  <2>3. l \in ShellRecord
    BY <1>1, <2>2 DEF ShellRecord
  <2> HIDE DEF l
  <2>4. c \in ShellRecord /\ GameIsSound(c)
    BY <2>3, CoreClampIs
  <2> HIDE DEF c
  <2>5. Sound(GoToTab(c, "Library"))
    BY <2>4, TabsAre, GoToTabIs
  <2>6. Imported(s, games) = GoToTab(c, "Library")
    BY DEF Imported, r, l, c
  <2> QED BY <2>5, <2>6
<1> QED BY <1>2, <1>3 DEF r

-----------------------------------------------------------------------------
\* The handlers of the buttons keep the pages sound.

Outcomes == {"none", "starting", "playing", "failed", "ended"}

LEMMA ButtonsKeepSound ==
    ASSUME PagesConstantsOK, PagesInv, HandleInput
    PROVE  Sound(shell')
<1>1. PICK in \in Inputs :
        \/ CancelLaunch(in) \/ LeaveLaunchScreen(in)
        \/ \E how \in LaunchResults : RetryLaunch(in, how) \/ Play(in, how)
        \/ CloseModal(in) \/ AskToDelete(in) \/ DeleteCapture(in)
        \/ Overlay(in) \/ OpenOverlay(in)
        \/ Achievements(in) \/ ShowAchievements(in)
        \/ BrowseCaptures(in) \/ BrowsePages(in) \/ OpenPicker(in)
  BY DEF HandleInput
<1>2. Sound(shell) /\ outcome \in Outcomes /\ files \subseteq 1 .. MaxCaptures
  BY DEF PagesInv, Outcomes, PagesConstantsOK
<1>3. CASE CancelLaunch(in)
  BY <1>2, <1>3, ScreenIs DEF CancelLaunch
<1>4. CASE LeaveLaunchScreen(in)
  <2>1. \/ shell' = ReturnFromLaunchUx(shell, TRUE)
        \/ shell' = ReturnFromLaunchUx(shell, FALSE)
    BY <1>4 DEF LeaveLaunchScreen, ReturnFromLaunchUx
  <2> QED BY <1>2, <2>1, ReturnIs
<1>5. ASSUME NEW how \in LaunchResults, RetryLaunch(in, how) PROVE Sound(shell')
  <2>1. CASE InLibrary(shell)
    <3> DEFINE t == [shell EXCEPT !.game = Position(shell)]
    <3>1. Sound(t) /\ t.games # <<>>
      BY <1>2, <2>1, PositionIs, SelectIs
    <3>2. shell' = LaunchSelected(t, how)
      BY <1>5, <2>1 DEF RetryLaunch
    <3> HIDE DEF t
    <3> QED BY <1>2, <3>1, <3>2, LaunchSelectedIs DEF Outcomes
  <2>2. CASE ~InLibrary(shell)
    BY <1>2, <1>5, <2>2 DEF RetryLaunch
  <2> QED BY <2>1, <2>2
<1>6. ASSUME NEW how \in LaunchResults, Play(in, how) PROVE Sound(shell')
  <2> DEFINE t == LaunchSelected(Turned(in), how)
  <2>1. shell.games # <<>> /\ shell' = GoBack(t, in)
    BY <1>6 DEF Play
  <2>2. Sound(Turned(in)) /\ Turned(in).games # <<>>
    BY <1>2, <2>1, TurnedIs
  <2>3. Sound(t)
    BY <1>2, <2>2, LaunchSelectedIs DEF Outcomes
  <2> HIDE DEF t
  <2> QED BY <1>2, <2>1, <2>3, GoBackIs
<1>7. CASE CloseModal(in) \/ DeleteCapture(in)
  <2>1. ASSUME NEW l \in Folders PROVE Sound(CancelCaptureModal([shell EXCEPT !.items = l]))
    <3> DEFINE t == [shell EXCEPT !.items = l]
    <3>1. /\ t \in ShellRecord /\ t.page = shell.page /\ t.tab = shell.tab
          /\ t.returnPage = shell.returnPage /\ t.games = shell.games /\ t.game = shell.game
      BY <1>2, <2>1 DEF Sound, ShellRecord
    <3> HIDE DEF t
    <3>2. Sound(CancelCaptureModal(t))
      BY <1>2, <3>1, CancelIs DEF SameButItem, Sound, GameIsSound, PageIsSound
    <3> QED BY <3>2 DEF t
  <2>2. shell = [shell EXCEPT !.items = shell.items] /\ shell.items \in Folders
    BY <1>2 DEF Sound, ShellRecord
  <2>3. Sound(CancelCaptureModal(shell))
    BY <2>1, <2>2
  <2>4. files' \subseteq files => Sound(AfterDelete(shell, files'))
    <3> SUFFICES ASSUME files' \subseteq files PROVE Sound(AfterDelete(shell, files'))
      OBVIOUS
    <3>1. NewestFirst[files'] \in Folders
      BY <1>2 DEF Folders
    <3> QED BY <2>1, <3>1 DEF AfterDelete
  <2> QED BY <1>7, <2>3, <2>4 DEF CloseModal, DeleteCapture
<1>8. CASE AskToDelete(in)
  <2>1. shell.page = "Captures" /\ shell.items # <<>>
    BY <1>2, <1>8 DEF AskToDelete, Sound, ItemIsSound, Modals
  <2> QED BY <1>2, <1>8, <2>1, CapturePlaceIs DEF AskToDelete
<1>9. CASE Overlay(in)
  <2> DEFINE closed == SetOverlayVisible(shell, FALSE)
  <2>1. Sound(closed)
    BY <1>2, OverlayIs
  <2>2. \/ shell.fromOverlay /\ shell' = LeaveAchievements(shell)
        \/ shell' \in {closed, GoToTab(closed, "Friends"), GoToTab(closed, "Captures"),
                       OpenAchievements(shell, shell.page, TRUE)}
    BY <1>9 DEF Overlay
  <2> HIDE DEF closed
  <2>3. Sound(GoToTab(closed, "Friends")) /\ Sound(GoToTab(closed, "Captures"))
    BY <1>2, <2>1, TabsAre, GoToTabIs DEF Sound
  <2> QED BY <1>2, <2>1, <2>2, <2>3, LeaveAchievementsIs, OpenAchievementsIs
<1>10. CASE OpenOverlay(in)
  BY <1>2, <1>10, OverlayIs DEF OpenOverlay
<1>11. CASE Achievements(in)
  BY <1>2, <1>11, LeaveAchievementsIs DEF Achievements
<1>12. CASE ShowAchievements(in)
  <2>1. Sound(Turned(in))
    BY <1>2, TurnedIs
  <2>2. shell' = OpenAchievements(Turned(in), "GameDetail", FALSE)
    BY <1>12 DEF ShowAchievements
  <2> QED BY <1>2, <2>1, <2>2, OpenAchievementsIs
<1>13. CASE BrowseCaptures(in)
  <2> DEFINE moved == [shell EXCEPT !.item = Moved(@, Len(shell.items), in)]
  <2>1. shell.items # <<>> /\ shell.page = "Captures" /\ shell.mode \notin Modals
    BY <1>13 DEF BrowseCaptures, ToPages, OnPages
  <2>2. /\ Sound(moved) /\ moved.items # <<>> /\ moved.page = "Captures"
        /\ moved.mode \notin Modals
    BY <1>2, <2>1, MoveItemIs
  <2>3. shell' \in {BeginCaptureDelete(moved), [moved EXCEPT !.mode = "Viewer"], moved}
    BY <1>13 DEF BrowseCaptures
  <2> HIDE DEF moved
  <2> QED BY <2>2, <2>3, CapturePlaceIs
<1>14. CASE BrowsePages(in)
  <2> DEFINE s == Turned(in)
             moved == [s EXCEPT !.game = Moved(@, Len(s.games), in)]
             t == IF s.page # "Library" THEN s
                  ELSE IF "action" \in in THEN NavigateTo(s, "Import")
                  ELSE IF s.games = <<>> THEN s
                  ELSE IF "select" \in in THEN NavigateTo(moved, "GameDetail") ELSE moved
  <2>1. Sound(s)
    BY <1>2, TurnedIs
  <2>2. shell' = GoBack(t, in)
    BY <1>14 DEF BrowsePages
  <2> HIDE DEF s
  <2>3. /\ {"Import", "GameDetail"} \subseteq AppPages
        /\ {"Import", "GameDetail"} \intersect TopLevel = {}
    BY TabsAre DEF AppPages
  <2>4. s.games # <<>> => Sound(moved)
    <3> SUFFICES ASSUME s.games # <<>> PROVE Sound(moved)
      OBVIOUS
    <3>1. Len(s.games) \in Nat /\ s.game \in 1 .. Len(s.games)
      <4>1. s.games \in Libraries /\ s.game \in Nat \ {0} /\ s.game <= Len(s.games)
        BY <2>1 DEF Sound, ShellRecord, GameIsSound
      <4> QED BY <4>1, ListsAre
    <3>2. Moved(s.game, Len(s.games), in) \in 1 .. Len(s.games)
      BY <3>1, MovedIs
    <3> QED BY <2>1, <3>2, SelectIs
  <2> HIDE DEF moved
  <2>5. Sound(NavigateTo(s, "Import"))
    BY <1>2, <2>1, <2>3, NavigateToIs DEF Sound
  <2>6. s.games # <<>> => Sound(NavigateTo(moved, "GameDetail"))
    BY <1>2, <2>3, <2>4, NavigateToIs DEF Sound
  <2>7. Sound(t)
    BY <2>1, <2>4, <2>5, <2>6
  <2> HIDE DEF t
  <2> QED BY <1>2, <2>2, <2>7, GoBackIs
<1>15. CASE OpenPicker(in)
  BY <1>2, <1>15, TurnedIs DEF OpenPicker
<1> QED BY <1>1, <1>3, <1>4, <1>5, <1>6, <1>7, <1>8, <1>9, <1>10, <1>11, <1>12, <1>13, <1>14, <1>15

\* The outcome and the folders, whatever happens.
LEMMA WorldIsKept ==
    ASSUME PagesConstantsOK, PagesInv, PagesNext
    PROVE  /\ outcome' \in Outcomes /\ installed' \subseteq 1 .. MaxGames
           /\ taken' \in 0 .. MaxCaptures /\ files' \subseteq 1 .. taken'
<1> USE DEF PagesInv, Outcomes, PagesConstantsOK, Disk
<1>1. Terminated \in Outcomes /\ \A how \in LaunchResults : OutcomeAfter(how) \in Outcomes
  BY DEF Terminated, OutcomeAfter
<1>2. CASE Tick
  BY <1>2 DEF Tick
<1>3. CASE HandleInput
  <2>1. UNCHANGED <<installed, taken>> /\ files' \subseteq files
    BY <1>3 DEF HandleInput, CancelLaunch, LeaveLaunchScreen, RetryLaunch, Play, CloseModal,
                AskToDelete, DeleteCapture, Overlay, OpenOverlay, Achievements, ShowAchievements,
                BrowseCaptures, BrowsePages, OpenPicker
  <2>2. outcome' \in {outcome, Terminated} \union {OutcomeAfter(how) : how \in LaunchResults}
    BY <1>3 DEF HandleInput, CancelLaunch, LeaveLaunchScreen, RetryLaunch, Play, CloseModal,
                AskToDelete, DeleteCapture, Overlay, OpenOverlay, Achievements, ShowAchievements,
                BrowseCaptures, BrowsePages, OpenPicker
  <2> QED BY <1>1, <2>1, <2>2
<1>4. CASE ClosePicker
  <2>1. UNCHANGED <<outcome, files, taken>> /\ installed' \subseteq 1 .. MaxGames
    BY <1>4 DEF ClosePicker
  <2> QED BY <2>1
<1>5. CASE Keys
  BY <1>5 DEF Keys, RefreshAll, KeyImport, KeyOverlay
<1>6. CASE TakeCapture
  BY <1>6 DEF TakeCapture
<1>7. CASE LoseCapture
  BY <1>7 DEF LoseCapture
<1>8. CASE ChangeLibrary
  BY <1>8 DEF ChangeLibrary
<1> QED BY <1>2, <1>3, <1>4, <1>5, <1>6, <1>7, <1>8 DEF PagesNext, Outside

LEMMA PagesStep ==
    ASSUME PagesConstantsOK, PagesInv, [PagesNext]_pagesVars
    PROVE  PagesInv'
<1>1. CASE UNCHANGED pagesVars
  BY <1>1 DEF pagesVars, PagesInv
<1>2. CASE PagesNext
  <2>1. Sound(shell')
    <3>1. Sound(shell) /\ outcome \in Outcomes /\ files \subseteq 1 .. MaxCaptures
      BY DEF PagesInv, Outcomes, PagesConstantsOK
    <3>2. outcome' \in Outcomes /\ installed' \subseteq 1 .. MaxGames
      BY <1>2, WorldIsKept
    <3>3. CASE Tick
      BY <3>1, <3>2, <3>3, UpdateLaunchUxIs DEF Tick, Outcomes
    <3>4. CASE HandleInput
      BY <3>4, ButtonsKeepSound
    <3>5. CASE ClosePicker
      <4>1. PICK in : \/ shell' = GoBack(shell, in)
                      \/ installed' # {} /\ shell' = GoBack(Imported(shell, installed'), in)
        BY <3>5 DEF ClosePicker
      <4>2. installed' # {} => Sound(Imported(shell, installed'))
        BY <3>1, <3>2, RefreshedIs
      <4> QED BY <3>1, <4>1, <4>2, GoBackIs
    <3>6. CASE RefreshAll
      BY <3>1, <3>6, RefreshedIs DEF RefreshAll, PagesInv
    <3>7. CASE KeyImport
      <4>1. "Import" \in AppPages /\ "Import" \notin TopLevel
        BY TabsAre DEF AppPages
      <4> QED BY <3>1, <3>7, <4>1, NavigateToIs DEF KeyImport, Sound
    <3>8. CASE KeyOverlay
      BY <3>1, <3>8, OverlayIs DEF KeyOverlay, Sound, ShellRecord
    <3>9. CASE Outside
      BY <3>1, <3>9 DEF Outside, TakeCapture, LoseCapture, ChangeLibrary
    <3> QED BY <1>2, <3>3, <3>4, <3>5, <3>6, <3>7, <3>8, <3>9 DEF PagesNext, Keys
  <2> QED BY <1>2, <2>1, WorldIsKept DEF PagesInv, Outcomes
<1> QED BY <1>1, <1>2

LEMMA PagesStart == ASSUME PagesConstantsOK, PagesInit PROVE PagesInv
<1>1. NewestFirst[{}] = <<>>
  <2>1. NewestFirst[{}] \in Folders
    BY DEF Folders
  <2>2. DOMAIN NewestFirst[{}] = {}
    <3>1. Cardinality({}) = 0
      BY FS_EmptySet
    <3> QED BY <3>1 DEF NewestFirst
  <2> QED BY <2>1, <2>2, ListsAre
<1>2. <<>> \in Folders
  BY <1>1 DEF Folders
<1>3. ByTitle[installed] \in Libraries
  BY DEF PagesInit, Libraries
<1>4. 0 \in Entries /\ "Home" \in AppPages /\ Tabs[1] = "Home"
  BY TabsAre DEF Entries, Tabs, AppPages
<1>5. shell \in ShellRecord
  BY <1>2, <1>3, <1>4 DEF PagesInit, ShellRecord
<1>6. /\ shell.page = "Home" /\ shell.tab = 1 /\ shell.game = 1 /\ shell.games = ByTitle[installed]
      /\ shell.items = <<>> /\ shell.mode = "Empty"
  BY DEF PagesInit
<1>7. GameIsSound(shell)
  <2>1. Len(shell.games) \in Nat /\ (shell.games = <<>> <=> Len(shell.games) = 0)
    BY <1>3, <1>6, ListsAre
  <2>2. \A n \in Nat : n # 0 => 1 <= n
    OBVIOUS
  <2> QED BY <1>6, <2>1, <2>2 DEF GameIsSound
<1>8. PageIsSound(shell) /\ ItemIsSound(shell) /\ QuestionIsSound(shell)
  BY <1>4, <1>6 DEF PageIsSound, ItemIsSound, QuestionIsSound, Modals
<1> QED BY <1>5, <1>7, <1>8 DEF PagesInv, Sound, PagesInit, PagesConstantsOK

\* The page, its tab, the selections in the lists and the modal over them agree, whatever
\* the buttons, the keys, the picker and other programs do to them.
THEOREM PagesStayInAgreement == ASSUME PagesConstantsOK PROVE PagesSpec => []PagesAgree
<1>1. PagesInit => PagesInv
  BY PagesStart
<1>2. PagesInv /\ [PagesNext]_pagesVars => PagesInv'
  BY PagesStep
<1>3. PagesInv => PagesAgree
  <2> SUFFICES ASSUME PagesInv PROVE PagesAgree
    OBVIOUS
  <2>1. Sound(shell)
    BY DEF PagesInv
  <2>2. /\ shell.games \in Libraries /\ shell.game \in Nat \ {0}
        /\ shell.items \in Folders /\ shell.item \in Nat \ {0}
    BY <2>1 DEF Sound, ShellRecord
  <2>3. /\ DOMAIN shell.games = 1 .. Len(shell.games) /\ Len(shell.games) \in Nat
        /\ DOMAIN shell.items = 1 .. Len(shell.items) /\ Len(shell.items) \in Nat
    BY <2>2, ListsAre
  <2>4. SelectionInRange
    BY <2>1, <2>2, <2>3 DEF SelectionInRange, Sound, GameIsSound, ItemIsSound
  <2> QED BY <2>1, <2>4 DEF PagesAgree, TabShowsPage, ModalHasItsPage, SelectionInRange, Sound,
                            PageIsSound, ItemIsSound
<1> QED BY <1>1, <1>2, <1>3, PTL DEF PagesSpec

\* The question about a capture stays a question about the capture that it was asked about,
\* however the folder changes, until a refresh takes it out of the player's hands.
THEOREM ChosenIsDeleted == ASSUME PagesConstantsOK PROVE PagesSpec => []DeletesTheChosen
<1>1. PagesInit => PagesInv
  BY PagesStart
<1>2. PagesInv /\ [PagesNext]_pagesVars => PagesInv'
  BY PagesStep
<1>3. PagesInv => DeletesTheChosen
  BY DEF PagesInv, Sound, QuestionIsSound, DeletesTheChosen
<1> QED BY <1>1, <1>2, <1>3, PTL DEF PagesSpec
=============================================================================
