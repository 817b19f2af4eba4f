---------------------------- MODULE ShellKernel ----------------------------
(***************************************************************************)
(* The navigation of the V5 shell: ShellKernel of src/src/v5/ShellKernel.cpp *)
(* and ProductionShellIntegration, which maps the pages that App can draw  *)
(* to it and gives it a controller for every page.                         *)
(*                                                                         *)
(* A page is left for another before the controller of the other is told,  *)
(* and a page that belongs to a context remembers where it was opened.     *)
(* Left out: status texts, the arguments of commands and the revisions of  *)
(* the controllers.                                                        *)
(***************************************************************************)
EXTENDS Integers, Sequences

CONSTANTS
    Compositions,   \* the lists of controllers, by page, that a kernel is made of
    Changing,       \* the pages for which SetAvailable is called
    MaxRevision     \* bound on navigationRevision

TopLevelPages ==
    {"Home", "Discover", "Store", "Library", "CloudPlay", "Downloads", "Friends",
     "Achievements", "Capture", "Profile", "Devices", "Settings"}
Contextual == {"GameDetail", "Wishlist", "Checkout", "Notifications", "Import"}
Pages == TopLevelPages \union Contextual
NoParent == "none"

\* The pages of App, and the pages of the shell that they are.
ToShellPage ==
    [Home |-> "Home", Library |-> "Library", Store |-> "Store", Friends |-> "Friends",
     Captures |-> "Capture", Settings |-> "Settings", GameDetail |-> "GameDetail",
     Import |-> "Import", Achievements |-> "Achievements"]
Integrated == {ToShellPage[page] : page \in DOMAIN ToShellPage}

\* What is required of the constants.
KernelConstantsOK == Changing \subseteq Integrated /\ MaxRevision \in Nat

VARIABLES
    controllers,        \* one of Compositions
    activePage, contextualParent, navigationRevision,
    available,          \* the pages whose controller is available
    result              \* what the last call returned

kernel == <<controllers, activePage, contextualParent, navigationRevision, available, result>>
navigation == <<activePage, contextualParent, navigationRevision>>

\* A composition is valid with no second controller for a page, and one for every tab.
Found == {controllers[i] : i \in DOMAIN controllers}
Valid ==
    /\ \A i, j \in DOMAIN controllers : controllers[i] = controllers[j] => i = j
    /\ TopLevelPages \subseteq Found

\* Of the controllers, only those of available pages execute a command.
Execute(page) == result' = (page \in available)

\* A contextual page remembers the page it was opened on.  A mutant remembers it for every page.
ParentOfAll(page, parent) == IF activePage # page THEN activePage ELSE parent
ParentAfter(page, parent) ==
    IF page \in TopLevelPages THEN NoParent ELSE IF activePage # page THEN activePage ELSE parent

\* A mutant asks the controller only once the page has changed.
AnyFound(page) == Valid /\ page \in Found
CanShow(page) == Valid /\ page \in Found /\ page \in available

\* Navigate, when Back has left contextualParent_ at parent.
NavigateFrom(page, parent) ==
    IF CanShow(page)
    THEN /\ contextualParent' = ParentAfter(page, parent)
         /\ activePage' = page
         /\ navigationRevision' = navigationRevision + (IF activePage = page THEN 0 ELSE 1)
         /\ Execute(page)
    ELSE /\ result' = FALSE
         /\ contextualParent' = parent
         /\ UNCHANGED <<activePage, navigationRevision>>

Navigate(page) ==
    /\ NavigateFrom(page, contextualParent)
    /\ UNCHANGED <<controllers, available>>

NavigateLegacy(page) == Navigate(ToShellPage[page])

Back ==
    /\ \/ /\ contextualParent # NoParent
          /\ NavigateFrom(contextualParent, NoParent)
       \/ /\ contextualParent = NoParent /\ activePage = "Home"
          /\ result' = TRUE
          /\ UNCHANGED navigation
       \/ /\ contextualParent = NoParent /\ activePage # "Home"
          /\ NavigateFrom("Home", NoParent)
    /\ UNCHANGED <<controllers, available>>

\* Refresh, Select, Search and the two actions go to the page they name, active or not.
Dispatch(page) ==
    /\ IF AnyFound(page) THEN Execute(page) ELSE result' = FALSE
    /\ UNCHANGED <<controllers, available, navigation>>

SetAvailable(page) ==
    /\ available' \in {available \union {page}, available \ {page}}
    /\ UNCHANGED <<controllers, navigation, result>>

-----------------------------------------------------------------------------
KernelInit ==
    /\ controllers \in Compositions
    /\ activePage = "Home" /\ contextualParent = NoParent /\ navigationRevision = 0
    /\ available = Integrated
    /\ result = TRUE

KernelNext ==
    /\ navigationRevision < MaxRevision
    /\ \/ Back
       \/ \E page \in Pages : Navigate(page) \/ Dispatch(page)
       \/ \E page \in DOMAIN ToShellPage : NavigateLegacy(page)
       \/ \E page \in Changing : SetAvailable(page)
KernelSpec == KernelInit /\ [][KernelNext]_kernel

-----------------------------------------------------------------------------
(* Properties.                                                             *)

KernelTypeOK ==
    /\ activePage \in Pages
    /\ contextualParent \in Pages \union {NoParent}
    /\ navigationRevision \in Nat
    /\ available \subseteq Integrated
    /\ result \in BOOLEAN

\* Only a page with a context has a way back of its own, and it leads somewhere else.
ParentIsElsewhere ==
    contextualParent # NoParent => activePage \in Contextual /\ contextualParent # activePage

\* The pages that the kernel can be led to, by Back as well, are those that App can draw: the
\* others have controllers too, and only their availability keeps them away
\* (ProductionShellIntegration.cpp:43).
ActiveIsDrawn == activePage \in Integrated /\ (contextualParent # NoParent => contextualParent \in Integrated)

NavigationIsSound == ParentIsElsewhere /\ ActiveIsDrawn

\* A call that is refused leaves the page where it was, though Navigate changes the page before
\* it asks the controller (ShellKernel.cpp:63); one that is not may still fail to move.
RefusalStays ==
    [][navigationRevision' # navigationRevision <=> activePage' # activePage /\ result']_kernel

\* Back leads Home, if often enough (ShellKernel.cpp:73).
BackIsNotUndone ==
    [][Back /\ activePage \in Contextual /\ activePage' \in Contextual => contextualParent' # activePage]_kernel
=============================================================================
