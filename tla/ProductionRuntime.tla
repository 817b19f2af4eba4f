------------------------- MODULE ProductionRuntime -------------------------
(***************************************************************************)
(* The production coordinator (src/src/v5/ProductionRuntime.cpp) over      *)
(* RuntimeAuthority and NativeRuntimeProcessHost: Launch, Poll and         *)
(* Terminate on the UI thread, the READY, Resume and achievement callbacks *)
(* on the thread of the session's pipe server, and the game.               *)
(*                                                                         *)
(* A UI operation is cut into steps only where the pipe thread can see the *)
(* difference: between the assignments of Launch that follow the resume of *)
(* the game, at the reads of ready_ and readyAt_ in Poll, after the dump   *)
(* of a game that is given up, and at each join of the pipe thread.  The   *)
(* supervisor and the pipe server appear through what RuntimeSession and   *)
(* RuntimeIpcServer show of them: a prepared game does not run before its  *)
(* resume, and when Stop returns no callback is left.                      *)
(***************************************************************************)
EXTENDS Naturals

CONSTANTS
    Packages,       \* the installed packages
    NoPackage,      \* the empty activePackageId_
    MaxSessions     \* bound on the launches that reach a running game

ASSUME PackagesAssumption == NoPackage \notin Packages
ASSUME MaxSessionsAssumption == MaxSessions \in Nat

Sessions == 1 .. MaxSessions

VARIABLES
    ui,              \* where the UI thread stands
    state,           \* state_
    outcome,         \* outcome_
    activePackage,   \* activePackageId_
    activeSession,   \* the session of activeGrant_, 0 before the first
    sessionRecorded, \* sessionRecorded_
    readyAt,         \* the session during which readyAt_ was stamped, 0 for {}
    snapshot,        \* the state of RuntimeAuthority's snapshot_
    seen,            \* what the host's poll in progress says of the process
    started,         \* started_ of the host
    ipc,             \* the pipe server: "off", "on", or "stopping" in Stop
    ready,           \* ready_ of the pipe server
    callback,        \* what the pipe thread is doing
    proc,            \* the game's process
    late,            \* now - launchedAt_ > kReadyTimeout
    silent,          \* ClientSilence() > kHeartbeatTimeout
    sessions,        \* number of games run so far: the last is the one in proc
    packageOf,       \* the package each of them was launched from
    written,         \* the last Resume or achievement write that reached the stores
    records,         \* the canonical session table
    mirrored,        \* sessions in the platform-state mirror
    crashes          \* crash reports on disk

runtime == <<state, outcome, activePackage, activeSession, sessionRecorded, readyAt>>
host == <<snapshot, seen, started, ipc, ready>>
game == <<proc, late, silent, sessions, packageOf>>
stores == <<written, records, mirrored, crashes>>
vars == <<ui, runtime, host, callback, game, stores>>

LaunchSteps == {"launch_identity", "launch_outcome", "launch_reset"}
DumpSteps == {"timeout_dump", "hung_dump"}
PollSteps == {"poll_join", "poll_ready", "poll_deadline", "poll_silence", "poll_verdict"} \union DumpSteps
TerminateSteps == {"timeout", "hung", "user"}
Verdicts == {"CleanExit", "Crash", "UserTermination", "LaunchFailure", "ReadyTimeout", "Hung"}
Outcomes == {"None", "Starting", "Running"} \union Verdicts
NoWrite == [session |-> 0, package |-> NoPackage, launching |-> FALSE]

IsActive == state \in {"Launching", "Running"}
Ended(s) == s \in {"Exited", "Failed"}

-----------------------------------------------------------------------------
(* Launch.  The checks before authority_->Start change nothing.            *)

\* Policy, capability broker and host refuse before a process exists, or the
\* launch ladder fails and undoes what it had done.
LaunchFails ==
    /\ ui = "idle" /\ ~IsActive
    /\ outcome' = "LaunchFailure" /\ state' = "Failed"
    /\ snapshot' \in {snapshot, "Failed"}
    /\ ready' \in {ready, FALSE}        \* StartSecure may have run
    /\ UNCHANGED <<ui, activePackage, activeSession, sessionRecorded, readyAt, seen, started, ipc,
                   callback, game, stores>>

\* authority_->Start succeeds: the pipe server listens and the game runs, while
\* Launch has not yet stored whose session it is.
LaunchStarts(package) ==
    /\ ui = "idle" /\ ~IsActive /\ sessions < MaxSessions
    /\ snapshot \notin {"Starting", "Running", "Terminating"} /\ ~started
    /\ ui' = "launch_identity"
    /\ snapshot' = "Running" /\ started' = TRUE
    /\ ipc' = "on" /\ ready' = FALSE
    /\ proc' = "running"
    /\ silent' = FALSE
    /\ sessions' = sessions + 1
    /\ packageOf' = [packageOf EXCEPT ![sessions + 1] = package]
    /\ UNCHANGED <<runtime, seen, callback, late, stores>>

\* activeGrant_ and activePackageId_; in two mutants only the first launch
\* stores the one or the other.
KeepSession ==
    /\ activeSession' = IF activeSession = 0 THEN sessions ELSE activeSession
    /\ activePackage' = packageOf[sessions]
KeepPackage ==
    /\ activeSession' = sessions
    /\ activePackage' = IF activePackage = NoPackage THEN packageOf[sessions] ELSE activePackage
StoreIdentity == activeSession' = sessions /\ activePackage' = packageOf[sessions]

LaunchIdentity ==
    /\ ui = "launch_identity"
    /\ ui' = "launch_outcome"
    /\ StoreIdentity
    /\ state' = "Launching"
    /\ UNCHANGED <<outcome, sessionRecorded, readyAt, host, callback, game, stores>>

LaunchOutcome ==
    /\ ui = "launch_outcome"
    /\ ui' = "launch_reset"
    /\ outcome' = "Starting"
    /\ UNCHANGED <<state, activePackage, activeSession, sessionRecorded, readyAt, host, callback,
                   game, stores>>

\* What the previous session left.
ResetSession == sessionRecorded' = FALSE /\ readyAt' = 0

LaunchReset ==
    /\ ui = "launch_reset"
    /\ ui' = "idle"
    /\ ResetSession /\ late' = FALSE
    /\ UNCHANGED <<state, outcome, activePackage, activeSession, host, callback, proc, silent,
                   sessions, packageOf, stores>>

-----------------------------------------------------------------------------
(* The end of a session.                                                   *)

\* Stop waits for the callback that runs; a mutant does not.
NotJoined == TRUE
PipeThreadJoined == callback = "idle"

\* RuntimeAuthority::Terminate, complete once the pipe thread is joined; a
\* no-op when the snapshot has already ended.
AuthorityTerminates ==
    /\ PipeThreadJoined
    /\ ipc' = "off" /\ started' = FALSE
    /\ snapshot' = IF snapshot = "Running" THEN "Exited" ELSE snapshot
    /\ proc' = IF proc = "running" THEN "killed" ELSE proc
    /\ UNCHANGED <<seen, ready>>

\* The report is written or its store fails; Observe and crashReported_ let it
\* be tried once per session.
RecordCrashIfNeeded ==
    LET needed == state' = "Crashed" \/ outcome' \in {"Hung", "ReadyTimeout"} IN
    crashes' \in (IF needed THEN {crashes, crashes \union {sessions}} ELSE {crashes})

\* The canonical row, then the mirror, which may fail without consequence; a
\* failing canonical write leaves the session unrecorded.
Mirrors == mirrored' \in {mirrored, mirrored \union {activeSession}}

\* A canonical write that fails.
RecordFails == UNCHANGED <<sessionRecorded, records, mirrored>>

FinalizePersistence ==
    IF sessionRecorded \/ activePackage = NoPackage \/ activeSession = 0
    THEN UNCHANGED <<sessionRecorded, records, mirrored>>
    ELSE \/ RecordFails
         \/ /\ records' = records \union
                    {[session |-> activeSession, package |-> activePackage,
                      outcome |-> outcome', playedSince |-> readyAt]}
            /\ sessionRecorded' = TRUE
            /\ Mirrors

Verdict(newState, newOutcome) ==
    /\ ui' = "idle"
    /\ state' = newState /\ outcome' = newOutcome
    /\ FinalizePersistence
    /\ UNCHANGED <<activePackage, activeSession, readyAt, callback, late, silent, sessions,
                   packageOf, written>>

StopIpc == ipc' = IF snapshot = "Running" THEN "stopping" ELSE ipc

-----------------------------------------------------------------------------
(* Poll, once per frame.                                                   *)

\* The guard of Poll; a mutant goes on polling an ended session.
AtFrame == ui = "idle"
Watching == ui = "idle" /\ IsActive

\* What a wait on the process reports; a mutant reports only exits.
ReportsExit == proc = "exited" /\ seen' = "Exited"
ReportsEnd == (proc = "exited" /\ seen' = "Exited") \/ seen' = "Failed"

\* RuntimeAuthority::Poll down to the process; a failing wait is a crash and
\* closes the job.  An ended process is reported after the pipe is stopped.
PollHost ==
    /\ Watching
    /\ IF snapshot # "Running"
       THEN ui' = "poll_ready" /\ UNCHANGED <<seen, ipc, proc>>
       ELSE \/ proc = "running" /\ ui' = "poll_ready" /\ UNCHANGED <<seen, ipc, proc>>
            \/ /\ ReportsEnd
               /\ proc' = IF proc = "running" THEN "killed" ELSE proc
               /\ ipc' = "stopping"
               /\ ui' = "poll_join"
    /\ UNCHANGED <<runtime, snapshot, started, ready, callback, late, silent, sessions, packageOf, stores>>

PollJoin ==
    /\ ui = "poll_join" /\ PipeThreadJoined
    /\ ui' = "poll_ready"
    /\ ipc' = "off" /\ started' = FALSE /\ snapshot' = seen
    /\ seen' = "Running"
    /\ UNCHANGED <<runtime, ready, callback, game, stores>>

PollReady ==
    /\ ui = "poll_ready"
    /\ ui' = "poll_deadline"
    /\ IF ready /\ readyAt = 0
       THEN readyAt' = sessions /\ state' = "Running" /\ outcome' = "Running"
       ELSE UNCHANGED <<readyAt, state, outcome>>
    /\ UNCHANGED <<activePackage, activeSession, sessionRecorded, host, callback, game, stores>>

\* The startup deadline; a mutant drops the negation.
ReadyAndLate == ready /\ late
StartupOverdue == ~ready /\ late

PollDeadline ==
    /\ ui = "poll_deadline"
    /\ ui' = IF StartupOverdue THEN "timeout_dump" ELSE "poll_silence"
    /\ UNCHANGED <<runtime, host, callback, game, stores>>

\* The heartbeat watchdog.
Unresponsive == ready /\ silent

PollSilence ==
    /\ ui = "poll_silence"
    /\ ui' = IF Unresponsive THEN "hung_dump" ELSE "poll_verdict"
    /\ UNCHANGED <<runtime, host, callback, game, stores>>

\* The dump is written before anything is ended: until then the pipe thread
\* serves what the game still sends, a late READY or heartbeat too.
CaptureDiagnosticDump ==
    /\ \/ ui = "timeout_dump" /\ ui' = "timeout"
       \/ ui = "hung_dump" /\ ui' = "hung"
    /\ StopIpc
    /\ UNCHANGED <<runtime, snapshot, seen, started, ready, callback, game, stores>>

TimeoutVerdict ==
    /\ ui = "timeout"
    /\ AuthorityTerminates
    /\ Verdict("Failed", "ReadyTimeout")
    /\ RecordCrashIfNeeded

HungVerdict ==
    /\ ui = "hung"
    /\ AuthorityTerminates
    /\ Verdict("Crashed", "Hung")
    /\ RecordCrashIfNeeded

\* The snapshot taken at the head of Poll; userTermination_ is never set while
\* a session is active, so an exit is a clean one.
PollVerdict ==
    /\ ui = "poll_verdict"
    /\ CASE snapshot = "Failed" -> Verdict("Crashed", "Crash") /\ RecordCrashIfNeeded
         [] snapshot = "Exited" -> Verdict("Exited", "CleanExit") /\ UNCHANGED crashes
         [] OTHER -> /\ ui' = "idle"
                     /\ UNCHANGED <<runtime, callback, late, silent, sessions, packageOf, stores>>
    /\ UNCHANGED <<host, proc>>

-----------------------------------------------------------------------------
(* Terminate: the overlay, the launch screen or the end of the window.     *)

Terminate ==
    /\ ui = "idle" /\ IsActive
    /\ ui' = "user"
    /\ StopIpc
    /\ UNCHANGED <<runtime, snapshot, seen, started, ready, callback, game, stores>>

UserVerdict ==
    /\ ui = "user"
    /\ AuthorityTerminates
    /\ Verdict("Exited", "UserTermination")
    /\ UNCHANGED crashes

-----------------------------------------------------------------------------
(* The pipe thread.  It takes a message only while the server is on; what  *)
(* the game wrote before it ended is still served.                         *)

TakesMessage == ipc = "on" /\ callback = "idle" /\ silent' = FALSE

ReceiveReady ==
    /\ TakesMessage
    /\ ready' = TRUE
    /\ callback' = "stamp"
    /\ UNCHANGED <<ui, runtime, snapshot, seen, started, ipc, proc, late, sessions, packageOf, stores>>

StampReady ==
    /\ callback = "stamp"
    /\ callback' = "outcome"
    /\ readyAt' = IF readyAt = 0 THEN sessions ELSE readyAt
    /\ UNCHANGED <<ui, state, outcome, activePackage, activeSession, sessionRecorded, host, game, stores>>

\* onReady starts only a session that is starting; a mutant, any.
AlwaysRunning == "Running"
AfterReady == IF outcome = "Starting" THEN "Running" ELSE outcome

OutcomeReady ==
    /\ callback = "outcome"
    /\ callback' = "idle"
    /\ outcome' = AfterReady
    /\ UNCHANGED <<ui, state, activePackage, activeSession, sessionRecorded, readyAt, host, game, stores>>

ReceiveWrite ==
    /\ TakesMessage
    /\ callback' = "write"
    /\ UNCHANGED <<ui, runtime, host, proc, late, sessions, packageOf, stores>>

\* The callbacks refuse without an active package.
Bound == activePackage # NoPackage

\* onResume and onAchievement: refused without an active package, bound to it
\* otherwise; the store may fail.
SaveWrite ==
    /\ callback = "write"
    /\ callback' = "idle"
    /\ \/ UNCHANGED written
       \/ /\ Bound
          /\ written' = [session |-> sessions, package |-> activePackage,
                         launching |-> ui \in LaunchSteps]
    /\ UNCHANGED <<ui, runtime, host, game, records, mirrored, crashes>>

\* A heartbeat or a ping: no callback.
Heartbeat ==
    /\ TakesMessage /\ silent
    /\ UNCHANGED <<ui, runtime, host, callback, proc, late, sessions, packageOf, stores>>

-----------------------------------------------------------------------------
(* The game and the clock.                                                 *)

GameEnds ==
    /\ proc = "running"
    /\ proc' \in {"exited", "crashed"}
    /\ UNCHANGED <<ui, runtime, host, callback, late, silent, sessions, packageOf, stores>>

DeadlinePasses ==
    /\ IsActive /\ ui \notin LaunchSteps /\ ~late
    /\ late' = TRUE
    /\ UNCHANGED <<ui, runtime, host, callback, proc, silent, sessions, packageOf, stores>>

SilencePasses ==
    /\ IsActive /\ ready /\ ~silent
    /\ silent' = TRUE
    /\ UNCHANGED <<ui, runtime, host, callback, proc, late, sessions, packageOf, stores>>

-----------------------------------------------------------------------------
Init ==
    /\ ui = "idle"
    /\ state = "Idle" /\ outcome = "None"
    /\ activePackage = NoPackage /\ activeSession = 0
    /\ sessionRecorded = TRUE /\ readyAt = 0
    /\ snapshot = "Idle" /\ seen = "Running" /\ started = FALSE
    /\ ipc = "off" /\ ready = FALSE /\ callback = "idle"
    /\ proc = "none" /\ late = FALSE /\ silent = FALSE
    /\ sessions = 0 /\ packageOf = [s \in Sessions |-> NoPackage]
    /\ written = NoWrite /\ records = {} /\ mirrored = {} /\ crashes = {}

Launch == \/ LaunchFails \/ LaunchIdentity \/ LaunchOutcome \/ LaunchReset
          \/ \E package \in Packages : LaunchStarts(package)

LaunchContinues == LaunchIdentity \/ LaunchOutcome \/ LaunchReset

PollContinues == PollHost \/ PollReady \/ PollDeadline \/ PollSilence \/ CaptureDiagnosticDump \/ PollVerdict
Poll == PollContinues \/ PollJoin \/ TimeoutVerdict \/ HungVerdict

PipeThread == StampReady \/ OutcomeReady \/ SaveWrite

Game == ReceiveReady \/ Heartbeat \/ GameEnds \/ ReceiveWrite

Clock == DeadlinePasses \/ SilencePasses

Next == Launch \/ Poll \/ Terminate \/ UserVerdict \/ PipeThread \/ Game \/ Clock

Spec == Init /\ [][Next]_vars

\* The UI thread goes on and polls every frame, the callbacks return, the
\* startup deadline comes.  Nothing is assumed of the game, and not that the
\* Stop inside Poll or Terminate returns: RuntimeIpcServer refutes it.
FairSpec ==
    /\ Spec
    /\ WF_vars(LaunchContinues) /\ WF_vars(PollContinues)
    /\ WF_vars(PipeThread) /\ WF_vars(DeadlinePasses)

-----------------------------------------------------------------------------
Records == [session : Sessions, package : Packages, outcome : Verdicts, playedSince : 0 .. MaxSessions]
Writes == [session : Sessions, package : Packages, launching : BOOLEAN]

\* Every variable keeps its kind.
TypeOK ==
    /\ ui \in {"idle"} \union LaunchSteps \union PollSteps \union TerminateSteps
    /\ state \in {"Idle", "Launching", "Running", "Exited", "Crashed", "Failed"}
    /\ outcome \in Outcomes
    /\ activePackage \in Packages \union {NoPackage} /\ activeSession \in 0 .. MaxSessions
    /\ sessionRecorded \in BOOLEAN /\ readyAt \in 0 .. MaxSessions
    /\ snapshot \in {"Idle", "Running", "Exited", "Failed"} /\ seen \in {"Running", "Exited", "Failed"}
    /\ started \in BOOLEAN /\ ready \in BOOLEAN
    /\ ipc \in {"off", "on", "stopping"}
    /\ callback \in {"idle", "stamp", "outcome", "write"}
    /\ proc \in {"none", "running", "exited", "crashed", "killed"}
    /\ late \in BOOLEAN /\ silent \in BOOLEAN
    /\ sessions \in 0 .. MaxSessions
    /\ packageOf \in [Sessions -> Packages \union {NoPackage}]
    /\ written \in Writes \union {NoWrite} /\ records \subseteq Records
    /\ mirrored \subseteq Sessions /\ crashes \subseteq Sessions

\* The layers agree between frames: the coordinator never waits for a game the
\* host has given up, and once it is inactive no game runs, the pipe server is
\* down with no callback under way and the authority is free for a launch.
LayersAgree ==
    ui = "idle" =>
        IF IsActive THEN started /\ snapshot = "Running" /\ ipc = "on"
        ELSE /\ proc # "running" /\ ~started
             /\ ipc = "off" /\ callback = "idle"
             /\ snapshot # "Running"

\* A session has at most one row in the canonical table.
RecordedOnce == \A r1, r2 \in records : r1.session = r2.session => r1 = r2

\* Each row names the package the session was launched from.
RecordNamesItsPackage == \A r \in records : r.package = packageOf[r.session]

\* The playtime of a session is counted from its own READY, not from that of an
\* earlier session.
PlaytimeFromOwnReady == \A r \in records : r.playedSince \in {0, r.session}

\* The mirror holds no session that the canonical table does not hold.
MirrorFollowsTable == mirrored \subseteq {r.session : r \in records}

\* A session recorded as a clean exit or ended by the user has no crash report.
CrashReportsAgree ==
    \A r \in records : r.outcome \in {"CleanExit", "UserTermination"} => r.session \notin crashes

\* The three stores tell one story of each session, whatever write fails and
\* whoever gives the verdict (FinalizePersistence, RecordCrashIfNeeded).
RecordsAgree ==
    RecordedOnce /\ RecordNamesItsPackage /\ MirrorFollowsTable /\ CrashReportsAgree /\ PlaytimeFromOwnReady

\* Resume and achievement data that reach the stores after the launch has
\* completed belong to the package of the game that sent them.
WritesBoundAfterLaunch ==
    written # NoWrite /\ ~written.launching => written.package = packageOf[written.session]

\* The same for every write, from the first instruction of the game on.
WritesBoundToPackage == written # NoWrite => written.package = packageOf[written.session]

\* The session a clean exit ends has been saved.
CleanExitIsSaved ==
    (ui = "idle" /\ outcome = "CleanExit") => \E r \in records : r.session = activeSession

\* A verdict, once given, is replaced only by the outcome of another launch.
VerdictSticks ==
    [][(outcome \in Verdicts /\ activeSession' = activeSession /\ ui \notin LaunchSteps)
        => outcome' \in {outcome, "LaunchFailure"}]_vars

\* The UI thread is in RuntimeIpcServer::Stop, whose join may be for ever.
InStop == ui \in {"poll_join"} \union TerminateSteps

\* A session becomes ready or ends, unless the UI thread never returns from Stop:
\* the launch screen stays for no other reason.
LaunchResolves == outcome = "Starting" ~> outcome # "Starting" \/ []InStop

\* The end of the game's process ends the session, with the same exception.
ExitIsNoticed == proc \in {"exited", "crashed"} ~> (ui = "idle" /\ ~IsActive) \/ []InStop

\* A game that stays silent after READY is ended, with the same exception.
SilenceIsNoticed == (IsActive /\ ready /\ silent) ~> ~silent \/ ~IsActive \/ []InStop

\* A session does not outlast its game, whether that exits or hangs, for as long
\* as every Stop returns.
EndIsNoticed == ExitIsNoticed /\ SilenceIsNoticed

\* The sessions of the runtime are those the shell is promised.  A session
\* begins when Launch stores its identity.
Promise == INSTANCE GameSession WITH
    phase <- IF ui = "launch_outcome" \/ outcome = "Starting" THEN "starting"
             ELSE IF outcome = "Running" THEN "playing"
             ELSE IF outcome = "None" THEN "none" ELSE outcome,
    session <- activeSession,
    package <- activePackage,
    history <- {[session |-> r.session, package |-> r.package, outcome |-> r.outcome] : r \in records}

KeepsPromise == Promise!Spec
=============================================================================
