-------------------------- MODULE PlayerSettings --------------------------
(***************************************************************************)
(* What the player sets up and how it is kept: the First Boot wizard       *)
(* (src/src/FirstBootWizard.cpp, FirstBootService.cpp), the settings store *)
(* (Settings.cpp) and the two that use them, wWinMain and App.             *)
(*                                                                         *)
(* A setting is kept twice, in a row of the database and as a line of      *)
(* settings.ini, which older versions wrote alone.  Each row is written by *)
(* a transaction of its own.  A file is written aside and renamed; that    *)
(* the writing itself failed is not noticed, so that the file may end      *)
(* early.  The console may die between any two of these.                   *)
(*                                                                         *)
(* Names are told apart as far as the code does: empty, blank, the         *)
(* default, another, and one that begins with a space.  Left out: the      *)
(* sizes of the display, a line that is cut in the middle, drawing.        *)
(***************************************************************************)
EXTENDS Naturals

CONSTANTS
    Volumes,    \* the volumes that occur, 80 among them
    Missing,    \* no such row or line
    Faults,     \* what may go wrong: "read" of a row, "boot_read", "write", "torn", "death"
    Legacy      \* whether settings.ini of an older version may be there

ASSUME VolumesAssumption == Volumes \subseteq 0..100 /\ 80 \in Volumes
ASSUME FaultsAssumption ==
    /\ Faults \subseteq {"read", "boot_read", "write", "torn", "death"}
    /\ Legacy \in BOOLEAN

Keys == {"profile", "reduced_motion", "volume"}
Indented == {" ", " Named"}
Names == {"", "Player", "Named"} \union Indented
Settings == [profile : Names \ {""}, reduced_motion : BOOLEAN, volume : Volumes]
DefaultSettings == [profile |-> "Player", reduced_motion |-> FALSE, volume |-> 80]
\* Settings of which rows or lines are missing.
PartOf(s) == {[k \in Keys |-> IF k \in have THEN s[k] ELSE Missing] : have \in SUBSET Keys}
NoSettings == [k \in Keys |-> Missing]
WithDefaults(part) == [k \in Keys |-> IF part[k] = Missing THEN DefaultSettings[k] ELSE part[k]]

\* No value of a setting is taken for a missing one; the run assumes it.
MissingIsNoValue == Missing \notin Names /\ Missing \notin BOOLEAN /\ Missing \notin Volumes

Checks == {"controller", "display", "audio"}
Steps == <<"Welcome", "Profile", "Controller", "Display", "Audio", "Complete">>

VARIABLES
    mode,       \* who runs: nobody, the wizard, wWinMain applying the setup, App
    step,       \* the page of the wizard, an index of Steps
    draft,      \* state_ and volume_ of the wizard
    settings,   \* the settings in memory
    save,       \* the write SettingsStore::Save does next, "none" outside of it
    boot,       \* first_boot.ini
    db,         \* the rows of the settings table
    ini,        \* settings.ini; \in {} when there is none
    misread,    \* history: the wizard runs because first_boot.ini was not read as it is
    wanted,     \* history: what the player last asked of each setting
    told        \* history: the settings whose saving was confirmed to the player last

memory == <<mode, step, draft, settings, save>>
disk == <<boot, db, ini>>
vars == <<memory, disk, misread, wanted, told>>

NoBoot == [completed |-> FALSE, name |-> "Player", confirmed |-> {}, volume |-> Missing]

\* FirstBootProfileValid, FirstBootRequirementsSatisfied, NormalizeFirstBootState.
RequirementsSatisfied(b) == b.name \notin {"", " "} /\ b.confirmed = Checks
Normalize(b) == [b EXCEPT !.completed = @ /\ RequirementsSatisfied(b)]
\* A mutant sets up at every start.
AlwaysRequired(b) == TRUE
IsRequired(b) == ~Normalize(b).completed
Finished == Normalize(boot).completed

\* The lines of a first_boot.ini that ends early, in the order they are written.
CutBoot(b) ==
    {[b EXCEPT !.confirmed = have, !.volume = Missing] :
        have \in {{}, {"controller"}, {"controller", "display"}, Checks}}
    \union {[NoBoot EXCEPT !.completed = b.completed], NoBoot}
\* FirstBootService::Load: a file that cannot be opened or read is taken for none; it is shorter
\* than the buffer of the stream, so that one read gets all or nothing.
BootReads == IF "boot_read" \in Faults THEN {boot, NoBoot} ELSE {boot}

CutIni(s) ==
    {[k \in Keys |-> IF k \in have THEN s[k] ELSE Missing] :
        have \in {{}, {"profile"}, {"profile", "reduced_motion"}}}

\* A file written aside and renamed: what is there afterwards and what the caller is told.
\* When the renaming fails the old file is removed and the renaming tried once more.
Replaced(old, new, cut, none) ==
    {<<new, TRUE>>}
    \union (IF "torn" \in Faults THEN cut \X {TRUE} ELSE {})
    \union (IF "write" \in Faults THEN {<<old, FALSE>>, <<none, FALSE>>} ELSE {})

Init ==
    /\ mode = "off" /\ step = 1 /\ save = "none"
    /\ draft = NoBoot /\ misread = FALSE
    /\ settings = DefaultSettings
    /\ db = NoSettings /\ told = {}
    /\ \/ /\ boot = NoBoot /\ ini = {} /\ wanted = NoSettings
       \/ /\ Legacy
          /\ boot = [completed |-> TRUE, name |-> "Player", confirmed |-> Checks, volume |-> 80]
          /\ \E s \in Settings : ini = {s} /\ wanted = s

\* The wizard and the settings in memory go with those who hold them.
WizardGone == step' = 1 /\ draft' = NoBoot /\ misread' = FALSE
ConsoleEnds == mode' = "off" /\ save' = "none" /\ settings' = DefaultSettings

-----------------------------------------------------------------------------
(* wWinMain and the wizard.                                                *)

\* IsRequired and the wizard read the file each for itself.
Start ==
    /\ mode = "off"
    /\ \E read \in BootReads, state \in BootReads :
         IF IsRequired(read)
         THEN /\ mode' = "wizard" /\ step' = 1
              /\ draft' = [Normalize(state) EXCEPT !.volume = IF @ = Missing THEN 80 ELSE @]
              /\ misread' = (read # boot)
         ELSE mode' = "appLoad" /\ UNCHANGED <<step, draft, misread>>
    /\ UNCHANGED <<settings, save, disk, wanted, told>>

\* The page that is left is done, whatever the player did on it.
Done(d) ==
    CASE Steps[step] = "Profile" -> [d EXCEPT !.name = IF @ = "" THEN "Player" ELSE @]
      [] Steps[step] = "Controller" -> [d EXCEPT !.confirmed = @ \union {"controller"}]
      [] Steps[step] = "Display" -> [d EXCEPT !.confirmed = @ \union {"display"}]
      [] Steps[step] = "Audio" -> [d EXCEPT !.confirmed = @ \union {"audio"}]
      [] OTHER -> d

\* The character of a space bar comes after its key, which has turned the page.
WithSpace(name) ==
    CASE name = "" -> " " [] name = "Player" -> "Named" [] OTHER -> name
SpaceTyped(d) ==
    IF Steps[step + 1] = "Profile" THEN [d EXCEPT !.name = WithSpace(@)] ELSE d

Advance(space) ==
    /\ mode = "wizard" /\ Steps[step] # "Complete"
    /\ step' = step + 1
    /\ draft' = IF space THEN SpaceTyped(Done(draft)) ELSE Done(draft)
    /\ UNCHANGED <<mode, settings, save, disk, misread, wanted, told>>

Back ==
    /\ mode = "wizard"
    /\ \/ step = 1 /\ mode' = "off" /\ WizardGone
       \/ step > 1 /\ step' = step - 1 /\ UNCHANGED <<mode, draft, misread>>
    /\ UNCHANGED <<settings, save, disk, wanted, told>>

Close ==
    /\ mode = "wizard" /\ mode' = "off" /\ WizardGone
    /\ UNCHANGED <<settings, save, disk, wanted, told>>

\* Characters typed and erased; a space bar would turn the page.
Edit ==
    /\ mode = "wizard" /\ Steps[step] = "Profile"
    /\ \E name \in {"", "Player", "Named"} \union (IF draft.name \in Indented THEN Indented ELSE {}) :
         draft' = [draft EXCEPT !.name = name]
    /\ UNCHANGED <<mode, step, settings, save, disk, misread, wanted, told>>

SetStartingVolume ==
    /\ mode = "wizard" /\ Steps[step] = "Audio"
    /\ \E v \in Volumes : draft' = [draft EXCEPT !.volume = v]
    /\ UNCHANGED <<mode, step, settings, save, disk, misread, wanted, told>>

\* When it cannot be saved the wizard stays.
Complete ==
    /\ mode = "wizard" /\ Steps[step] = "Complete"
    /\ LET state == Normalize([draft EXCEPT !.completed = TRUE]) IN
       \E r \in Replaced(boot, state, CutBoot(state), NoBoot) :
         /\ boot' = r[1]
         /\ \/ /\ r[2]
               /\ mode' = "applyLoad" /\ WizardGone
               /\ wanted' = [wanted EXCEPT !.profile = draft.name, !.volume = draft.volume]
            \/ ~r[2] /\ UNCHANGED <<mode, step, draft, misread, wanted>>
    /\ UNCHANGED <<settings, save, db, ini, told>>

\* applyFirstBootSettings, on top of the settings it has loaded.
ApplyFirstBoot ==
    /\ mode = "apply" /\ save = "none"
    /\ \E b \in BootReads :
         settings' = [settings EXCEPT !.profile = IF b.name = "" THEN "Player" ELSE b.name,
                                      !.volume = IF b.volume = Missing THEN 80 ELSE b.volume]
    /\ save' = "profile" /\ told' = {}
    /\ UNCHANGED <<mode, step, draft, disk, misread, wanted>>

-----------------------------------------------------------------------------
(* SettingsStore.                                                          *)

Loaded == IF mode = "applyLoad" THEN "apply" ELSE "app"

\* The rows that can be read. Any row at all means that settings.ini is not looked at.
Rows(reads) == [k \in Keys |-> IF k \in reads THEN db[k] ELSE Missing]
HasCanonicalState(rows) == \E k \in Keys : rows[k] # Missing

LoadCanonical(rows) ==
    /\ HasCanonicalState(rows)
    /\ settings' = WithDefaults(rows)
    /\ mode' = Loaded /\ UNCHANGED save

\* Settings found in settings.ini are saved at once, successfully or not.
LoadLegacy(rows) ==
    /\ ~HasCanonicalState(rows) /\ ini # {}
    /\ \E lines \in ini : settings' = WithDefaults(lines)
    /\ save' = "profile" /\ UNCHANGED mode

LoadNothing(rows) ==
    /\ ~HasCanonicalState(rows) /\ ini = {}
    /\ settings' = DefaultSettings
    /\ mode' = Loaded /\ UNCHANGED save

Load ==
    /\ mode \in {"applyLoad", "appLoad"} /\ save = "none"
    /\ \E reads \in IF "read" \in Faults THEN SUBSET Keys ELSE {Keys} :
         LoadCanonical(Rows(reads)) \/ LoadLegacy(Rows(reads)) \/ LoadNothing(Rows(reads))
    /\ UNCHANGED <<step, draft, disk, misread, wanted, told>>

\* Save returns.  What it returns is told to the player when the player asked for it, decides
\* whether wWinMain goes on, and is ignored by Load and at the end of App.
Returns(ok) ==
    /\ IF mode = "quit" \/ (mode = "apply" /\ ~ok) THEN ConsoleEnds
       ELSE /\ save' = "none"
            /\ mode' = CASE mode = "apply" -> "appLoad" [] mode = "app" -> "app" [] OTHER -> Loaded
            /\ UNCHANGED settings
    /\ told' = IF ok /\ mode \in {"app", "apply"} THEN {settings} ELSE told

\* A failed write ends Save; a mutant goes on with the next.
GoesOn == save' = "mirror" /\ UNCHANGED <<mode, settings, told>>
AfterFailure == Returns(FALSE)
Following(k) == CASE k = "profile" -> "reduced_motion"
                  [] k = "reduced_motion" -> "volume"
                  [] k = "volume" -> "mirror"

SetSetting(k) ==
    /\ save = k
    /\ \/ /\ db' = [db EXCEPT ![k] = settings[k]]
          /\ save' = Following(k)
          /\ UNCHANGED <<mode, settings, told>>
       \/ /\ "write" \in Faults
          /\ AfterFailure
          /\ UNCHANGED db
    /\ UNCHANGED <<step, draft, boot, ini, misread, wanted>>

WriteMirror ==
    /\ save = "mirror"
    /\ \E r \in Replaced(ini, {settings}, {{part} : part \in CutIni(settings)}, {}) :
         ini' = r[1] /\ Returns(r[2])
    /\ UNCHANGED <<step, draft, boot, db, misread, wanted>>

-----------------------------------------------------------------------------
(* App.                                                                    *)

\* The volume and the motion can be changed, the name cannot.
ChangeSetting ==
    /\ mode = "app" /\ save = "none"
    /\ \/ \E v \in Volumes : /\ settings' = [settings EXCEPT !.volume = v]
                             /\ wanted' = [wanted EXCEPT !.volume = v]
       \/ /\ settings' = [settings EXCEPT !.reduced_motion = ~@]
          /\ wanted' = [wanted EXCEPT !.reduced_motion = ~settings.reduced_motion]
    /\ save' = "profile" /\ told' = {}
    /\ UNCHANGED <<mode, step, draft, disk, misread>>

\* The last thing App does is to save its settings once more.
Quit ==
    /\ mode = "app" /\ save = "none"
    /\ mode' = "quit" /\ save' = "profile"
    /\ UNCHANGED <<step, draft, settings, disk, misread, wanted, told>>

ConsoleDies ==
    /\ "death" \in Faults /\ mode # "off"
    /\ ConsoleEnds /\ WizardGone
    /\ UNCHANGED <<disk, wanted, told>>

Next ==
    \/ Start \/ Back \/ Close \/ Edit \/ SetStartingVolume
    \/ Complete \/ ApplyFirstBoot
    \/ \E space \in BOOLEAN : Advance(space)
    \/ Load \/ WriteMirror \/ \E k \in Keys : SetSetting(k)
    \/ ChangeSetting \/ Quit \/ ConsoleDies

Spec == Init /\ [][Next]_vars

-----------------------------------------------------------------------------
(* Properties.                                                             *)

PartialSettings == UNION {PartOf(s) : s \in Settings}

\* Every variable has its type.
TypeOK ==
    /\ mode \in {"off", "wizard", "applyLoad", "apply", "appLoad", "app", "quit"}
    /\ misread \in BOOLEAN
    /\ step \in 1..6
    /\ draft \in [completed : BOOLEAN, name : Names, confirmed : SUBSET Checks,
                  volume : Volumes \union {Missing}]
    /\ settings \in Settings
    /\ save \in Keys \union {"none", "mirror"}
    /\ boot \in [completed : BOOLEAN, name : Names, confirmed : SUBSET Checks,
                 volume : Volumes \union {Missing}]
    /\ db \in PartialSettings
    /\ \A part \in ini : part \in PartialSettings
    /\ told \subseteq Settings

\* Once Save has told the player that the settings are kept, the console runs with exactly these
\* until the player changes one: through restarts, deaths in the middle of the last save, a mirror
\* that could not be written or ends early, and a migration.
ConfirmedIsLoaded ==
    mode = "app" /\ save = "none" => \A s \in told : settings = s

\* A finished setup is asked for again only in a start that could not read its file, whatever
\* failed before; and it stays finished unless the player goes through that wizard to its end,
\* whose save may fail and take the old file with it.
SetupSticks ==
    [][/\ Finished /\ mode' = "wizard" => misread'
       /\ Finished => Finished' \/ (misread /\ Steps[step] = "Complete")]_vars

\* "SQLite above is the canonical source of truth" (src/src/Settings.cpp:68): loading the settings
\* never replaces a row that is there.
CanonicalWins ==
    [][\A k \in Keys : mode \in {"applyLoad", "appLoad"} /\ db[k] # Missing => db'[k] = db[k]]_vars

\* "Your profile, controls, display, and starting volume are saved" (src/src/FirstBootWizard.cpp:195)
\* and "Setup will remain saved; restart ZERO after checking local storage access"
\* (src/src/main.cpp:30): the shell that runs after the setup has the name and the volume chosen in
\* it.
SetupIsApplied ==
    mode = "app" /\ wanted.profile # Missing =>
        settings.profile = wanted.profile /\ settings.volume = wanted.volume

\* "Best-effort migration. The legacy mirror remains available if the canonical write fails"
\* (src/src/Settings.cpp:52): a migration that failed leaves the console with the old settings.
MigrationIsSafe == mode = "app" => \A k \in Keys : wanted[k] = Missing \/ settings[k] = wanted[k]

\* "After the wizard persists a completed state, subsequent boots skip setup"
\* (src/docs/FIRST_BOOT_UI.md:11): a setup the wizard has accepted is not asked for again.
SetupRunsOnce == mode = "wizard" => wanted.profile = Missing
=============================================================================
