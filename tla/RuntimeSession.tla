--------------------------- MODULE RuntimeSession ---------------------------
(***************************************************************************)
(* The native process supervisor (src/src/RuntimeSession*.cpp).  A launch  *)
(* creates a Job Object with KILL_ON_JOB_CLOSE, creates the game process   *)
(* suspended, assigns it to the job and only later resumes it.  The        *)
(* session then watches the process until it ends or is terminated.        *)
(*                                                                         *)
(* The supervisor runs on the shell's UI thread; the game, its children    *)
(* and the death of the console process interleave with its steps.  Win32  *)
(* calls are modelled by their effect on the process tree: terminating or  *)
(* closing the job kills every process assigned to it.                     *)
(***************************************************************************)
EXTENDS Naturals

CONSTANT MaxLaunches        \* bound on the launches of one behaviour

ASSUME MaxLaunchesAssumption == MaxLaunches \in Nat

VARIABLES
    state,        \* state_
    step,         \* where PrepareLaunchWithSession or Launch stands, "rest" outside them
    handles,      \* which of job_, process_.hProcess, process_.hThread are open
    record,       \* phase in this launch's session record file
    launches,     \* number of launches begun
    console,      \* the console process is alive
    main,         \* life of the game's main process
    child,        \* a process started by the game is alive
    contained,    \* the main process was assigned to the job
    orphan        \* history: a live process of an earlier launch was lost

session == <<state, step, handles, record, launches>>
tree == <<main, child, contained, orphan>>
vars == <<session, console, tree>>

\* "launch_failed" stands for every phase that names a failed launch.
States == {"Idle", "Launching", "Running", "Exited", "Crashed", "Failed"}
Steps == {"rest", "storage", "job", "process", "assign", "resume"}
Phases == {"none", "launch_failed", "prepared", "running", "crashed", "ended"}
Lives == {"none", "suspended", "running", "exited", "crashed", "killed"}
Handles == {"job", "process", "thread"}
FinalPhases == {"launch_failed", "crashed", "ended"}

IsActive == state \in {"Launching", "Running"}
IsPrepared == state = "Launching" /\ "thread" \in handles
Alive == main \in {"suspended", "running"}
AtRest == console /\ step = "rest"

-----------------------------------------------------------------------------
(* Effects shared by the operations.                                       *)

\* The job kills what is assigned to it when its last handle closes.
InJob == "job" \in handles /\ contained

\* Closing the last handle of the job, or terminating it, ends the tree.
KillTree ==
    /\ main' = IF Alive THEN "killed" ELSE main
    /\ child' = FALSE

\* TerminateProcess ends the main process only; a mutant forgets it.
KillNothing == UNCHANGED <<main, child>>
KillMain ==
    /\ main' = IF Alive THEN "killed" ELSE main
    /\ UNCHANGED child

CloseHandles == handles' = {}

\* ResetHandles: what dies with the job handle is what was assigned to it.
ResetHandles ==
    /\ CloseHandles
    /\ IF InJob THEN KillTree ELSE UNCHANGED <<main, child>>
    /\ UNCHANGED <<contained, orphan>>

\* WriteSessionRecord: the new phase, the old file, or (both renames failed) none.
WriteRecord(phase) == record' \in {phase, record, "none"}

\* The phase a finalized session leaves on disk.
FinalPhase(final) == IF final = "Crashed" THEN "crashed" ELSE "ended"

Finalize(final) ==
    /\ state' = final
    /\ WriteRecord(FinalPhase(final))
    /\ CloseHandles
    /\ UNCHANGED <<step, launches, console, contained, orphan>>

-----------------------------------------------------------------------------
(* PrepareLaunchWithSession, one action per call that touches the system.  *)

\* A failing call ends the launch; a mutant misses the return.
GoOn == step' = "process" /\ UNCHANGED state
Abandon == step' = "rest" /\ state' = "Failed"

\* CREATE_SUSPENDED; a mutant creates the process without it.
StartsAtOnce == "running"
FirstLife == "suspended"

\* The reset, the fields of the new session, then the identity and executable
\* checks, any of which may refuse the launch before it has a record file.
BeginPrepare ==
    /\ AtRest /\ ~IsActive /\ launches < MaxLaunches
    /\ launches' = launches + 1
    /\ CloseHandles
    /\ orphan' = (orphan \/ ((Alive \/ child) /\ ~InJob))
    /\ main' = "none" /\ child' = FALSE /\ contained' = FALSE
    /\ record' = "none"
    /\ \/ state' = "Launching" /\ step' = "storage"
       \/ Abandon
    /\ UNCHANGED console

\* The isolated storage and the place of the record file; no record on failure.
PrepareStorage ==
    /\ console /\ step = "storage"
    /\ \/ step' = "job" /\ UNCHANGED state
       \/ Abandon
    /\ UNCHANGED <<handles, record, launches, console, tree>>

CreateContainmentJob ==
    /\ console /\ step = "job"
    /\ \/ handles' = {"job"} /\ step' = "process" /\ UNCHANGED <<state, record>>
       \/ /\ Abandon
          /\ WriteRecord("launch_failed")
          /\ UNCHANGED handles
    /\ UNCHANGED <<launches, console, tree>>

CreateSuspended ==
    /\ console /\ step = "process"
    /\ \/ /\ main' = FirstLife /\ step' = "assign"
          /\ handles' = handles \union {"process", "thread"}
          /\ UNCHANGED <<state, record, child, contained, orphan>>
       \/ /\ Abandon
          /\ WriteRecord("launch_failed")
          /\ ResetHandles
    /\ UNCHANGED <<launches, console>>

\* The process that could not be assigned is killed by itself.
NotContained ==
    /\ Abandon
    /\ KillMain
    /\ WriteRecord("launch_failed")
    /\ CloseHandles
    /\ UNCHANGED <<contained, orphan>>

AssignToJob ==
    /\ console /\ step = "assign"
    /\ \/ /\ contained' = TRUE /\ step' = "rest"
          /\ WriteRecord("prepared")
          /\ UNCHANGED <<state, handles, main, child, orphan>>
       \/ NotContained
    /\ UNCHANGED <<launches, console>>

-----------------------------------------------------------------------------
(* Launch climbs the same ladder and resumes the process in the same call, *)
(* without a record in between.                                            *)

ContainLaunched ==
    /\ console /\ step = "assign"
    /\ \/ contained' = TRUE /\ step' = "resume" /\ UNCHANGED <<state, handles, record, main, child, orphan>>
       \/ NotContained
    /\ UNCHANGED <<launches, console>>

ResumeLaunched ==
    /\ console /\ step = "resume"
    /\ \/ /\ main' = "running" /\ handles' = handles \ {"thread"}
          /\ state' = "Running" /\ step' = "rest"
          /\ WriteRecord("running")
          /\ UNCHANGED child
       \/ /\ Abandon
          /\ KillTree
          /\ WriteRecord("launch_failed")
          /\ CloseHandles
    /\ UNCHANGED <<launches, console, contained, orphan>>

-----------------------------------------------------------------------------
(* The other operations of the session.                                    *)

\* Both branches on job_ kill the (still childless) suspended process.
FailPrepared ==
    /\ AtRest /\ IsPrepared
    /\ state' = "Failed"
    /\ WriteRecord("launch_failed")
    /\ IF "job" \in handles THEN KillTree ELSE KillMain
    /\ CloseHandles
    /\ UNCHANGED <<step, launches, console, contained, orphan>>

\* A failed ResumeThread continues as FailPrepared.
ResumePrepared ==
    /\ AtRest /\ IsPrepared
    /\ main' = IF main = "suspended" THEN "running" ELSE main
    /\ handles' = handles \ {"thread"} /\ state' = "Running"
    /\ WriteRecord("running")
    /\ UNCHANGED <<step, launches, console, child, contained, orphan>>

\* An ended process gives its verdict; a failing wait or exit-code query is
\* finalized as a crash whatever the process does.
Poll ==
    /\ AtRest /\ state = "Running" /\ "process" \in handles
    /\ \/ main = "exited" /\ Finalize("Exited")
       \/ Finalize("Crashed")
    /\ IF InJob THEN KillTree ELSE UNCHANGED <<main, child>>

\* WM_CLOSE and a bounded wait: the process ends by itself (or had ended
\* before), otherwise the job is terminated, even if the process ends just
\* after the wait gave up.
Terminate ==
    /\ AtRest /\ "process" \in handles /\ IsActive
    /\ \/ /\ main' \in (IF main = "running" THEN {"exited", "crashed"} ELSE {main} \ {"suspended"})
          /\ child' = (child /\ ~InJob)   \* the job handle closes
          /\ Finalize("Exited")
       \/ /\ IF "job" \in handles THEN KillTree ELSE KillMain
          /\ Finalize("Exited")

-----------------------------------------------------------------------------
(* The game and the machine.                                               *)

GameEnds ==
    /\ main = "running"
    /\ main' \in {"exited", "crashed"}
    /\ UNCHANGED <<session, console, child, contained, orphan>>

GameSpawnsChild ==
    /\ main = "running" /\ ~child
    /\ child' = TRUE
    /\ UNCHANGED <<session, console, main, contained, orphan>>

ChildEnds ==
    /\ child
    /\ child' = FALSE
    /\ UNCHANGED <<session, console, main, contained, orphan>>

\* The console is killed or crashes: the system closes all its handles.
ConsoleDies ==
    /\ console
    /\ console' = FALSE
    /\ ResetHandles
    /\ UNCHANGED <<state, step, record, launches>>

-----------------------------------------------------------------------------
Init ==
    /\ state = "Idle" /\ step = "rest"
    /\ handles = {} /\ record = "none" /\ launches = 0 /\ console = TRUE
    /\ main = "none" /\ child = FALSE /\ contained = FALSE /\ orphan = FALSE

\* What both launches do before they part.
Rungs == BeginPrepare \/ PrepareStorage \/ CreateContainmentJob \/ CreateSuspended
Prepare == Rungs \/ AssignToJob
Launch == Rungs \/ ContainLaunched \/ ResumeLaunched
Operate == FailPrepared \/ ResumePrepared \/ Poll \/ Terminate
Environment == GameEnds \/ GameSpawnsChild \/ ChildEnds \/ ConsoleDies

Next == Prepare \/ Launch \/ Operate \/ Environment

Spec == Init /\ [][Next]_vars

-----------------------------------------------------------------------------
\* Every variable keeps its kind.
TypeOK ==
    /\ state \in States /\ step \in Steps
    /\ handles \subseteq Handles /\ record \in Phases
    /\ launches \in 0 .. MaxLaunches /\ console \in BOOLEAN
    /\ main \in Lives /\ child \in BOOLEAN
    /\ contained \in BOOLEAN /\ orphan \in BOOLEAN

\* No instruction of a game executes outside the Job Object, whichever call of
\* the launch ladder fails and whenever the console dies.
Containment == (main = "running" \/ child) => contained

\* A session that is over leaves nothing of its game alive, children included,
\* and no later launch loses track of a live process.
NoOrphans ==
    /\ ~orphan
    /\ (AtRest /\ ~IsActive) => (~Alive /\ ~child)

\* When the console process dies the system's cleanup of its handles ends the
\* game and its children.  One process can survive: the one that was created
\* suspended and not assigned yet.  It is alone, and nobody will resume it.
GameDiesWithConsole ==
    ~console => /\ ~child
                /\ Alive => main = "suspended" /\ step = "assign"

\* "Closing the Job Object kills remaining child processes, preventing orphaned
\* game processes" (docs/RUNTIME_V2.md:14): nothing outlives the console.
NothingOutlivesConsole == ~console => ~Alive /\ ~child

\* An ended session holds no process, thread or job handle: the next launch
\* starts from a clean supervisor.
HandlesReleased == (AtRest /\ ~IsActive) => handles = {}

\* Whatever ended it, a session leaves no handle and no process behind, but for
\* the suspended one of a console that died before the assignment.
NothingIsLeft == NoOrphans /\ GameDiesWithConsole /\ HandlesReleased

\* The record written when a session ends is the last one: no later step of the
\* same launch replaces a final verdict on disk.
FinalRecordSticks ==
    [][(record \in FinalPhases /\ launches' = launches) => record' = record]_vars

\* A process that had already died of its own error when the session ends is
\* ended as a crash, not as an exit.
CrashIsDistinguished ==
    [][(main = "crashed" /\ IsActive /\ console' /\ state' \in {"Exited", "Crashed"})
        => state' = "Crashed"]_vars
=============================================================================
