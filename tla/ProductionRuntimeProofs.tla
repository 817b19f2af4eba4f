---------------------- MODULE ProductionRuntimeProofs ----------------------
(***************************************************************************)
(* The safety of the coordinator for every set of packages and every bound *)
(* on the sessions, and that it implements GameSession.                    *)
(***************************************************************************)
EXTENDS ProductionRuntime, TLAPS

\* The host and the pipe server as the coordinator finds them: both up, told to stop with
\* the pipe thread not joined yet, or both down.
Up == started /\ snapshot = "Running" /\ ipc = "on"
Stopping == started /\ snapshot = "Running" /\ ipc = "stopping"
Down == ~started /\ snapshot # "Running" /\ ipc = "off" /\ callback = "idle" /\ proc # "running"

\* The layers at every step of the UI thread.
Layers ==
    /\ ui = "idle" => IF IsActive THEN Up ELSE Down
    /\ ui \in LaunchSteps => Up
    /\ ui = "launch_identity" => ~IsActive
    /\ ui \in {"launch_outcome", "launch_reset"} \union PollSteps \union TerminateSteps => IsActive
    /\ ui = "poll_join" => Stopping /\ seen # "Running" /\ proc # "running"
    /\ ui \in PollSteps \ {"poll_join"} => Up \/ Down
    /\ ui \in TerminateSteps => Stopping \/ Down
    /\ IsActive => snapshot # "Idle"

\* Whose session it is.
Identity ==
    /\ ui # "launch_identity" => activeSession = sessions
    /\ ui = "launch_identity" => sessions > 0 /\ activeSession = sessions - 1
    /\ IsActive => sessions > 0
    /\ activeSession # 0 => activePackage = packageOf[activeSession]
    /\ activeSession = 0 => activePackage = NoPackage
    /\ \A s \in Sessions : s <= sessions => packageOf[s] \in Packages

\* The sessions that are over: all but the one that is active or being launched.
Over == IF IsActive \/ ui = "launch_identity" THEN 1 .. (sessions - 1) ELSE 1 .. sessions

\* What the stores hold is of sessions that are over, and of the package they were launched from.
Stores ==
    /\ \A r \in records : r.session \in Over
    /\ crashes \subseteq Over
    /\ RecordsAgree
    /\ written # NoWrite => written.session <= sessions
    /\ WritesBoundAfterLaunch

\* The outcome and the READY time of the session.
Outcome ==
    /\ ui \in {"idle", "launch_identity", "launch_outcome"} /\ ~IsActive => outcome \notin {"Starting", "Running"}
    /\ ui = "launch_outcome" => outcome \notin {"Starting", "Running"}
    /\ IsActive /\ ui # "launch_outcome" => outcome \in {"Starting", "Running"}
    /\ ui \notin LaunchSteps => readyAt \in {0, sessions}
    /\ IsActive /\ ui \notin LaunchSteps /\ readyAt # 0 => outcome = "Running" \/ callback = "outcome"
    /\ ui \in {"poll_deadline", "poll_silence", "hung_dump", "hung"} /\ ready =>
            outcome = "Running" \/ callback \in {"stamp", "outcome"}
    /\ ui \in {"hung_dump", "hung"} => ready

\* The inductive invariant.
IInv == TypeOK /\ Layers /\ Identity /\ Stores /\ Outcome

\* The kinds of the variables, apart: the steps of the threads, the flags, the numbers
\* and tables.
StepsOK ==
    /\ ui \in {"idle"} \union LaunchSteps \union PollSteps \union TerminateSteps
    /\ state \in {"Idle", "Launching", "Running", "Exited", "Crashed", "Failed"}
    /\ outcome \in Outcomes
    /\ snapshot \in {"Idle", "Running", "Exited", "Failed"} /\ seen \in {"Running", "Exited", "Failed"}
    /\ ipc \in {"off", "on", "stopping"}
    /\ callback \in {"idle", "stamp", "outcome", "write"}
    /\ proc \in {"none", "running", "exited", "crashed", "killed"}
FlagsOK ==
    /\ sessionRecorded \in BOOLEAN
    /\ started \in BOOLEAN /\ ready \in BOOLEAN
    /\ late \in BOOLEAN /\ silent \in BOOLEAN
TablesOK ==
    /\ activePackage \in Packages \union {NoPackage} /\ activeSession \in 0 .. MaxSessions
    /\ readyAt \in 0 .. MaxSessions
    /\ sessions \in 0 .. MaxSessions
    /\ packageOf \in [Sessions -> Packages \union {NoPackage}]
    /\ written \in Writes \union {NoWrite} /\ records \subseteq Records
    /\ mirrored \subseteq Sessions /\ crashes \subseteq Sessions

LEMMA Kinds == TypeOK <=> StepsOK /\ FlagsOK /\ TablesOK
<1>1. TypeOK => StepsOK
  BY DEF TypeOK, StepsOK
<1>2. TypeOK => FlagsOK
  BY DEF TypeOK, FlagsOK
<1>3. TypeOK => TablesOK
  BY DEF TypeOK, TablesOK
<1>4. StepsOK /\ FlagsOK /\ TablesOK => TypeOK
  BY DEF TypeOK, StepsOK, FlagsOK, TablesOK
<1> QED
  BY <1>1, <1>2, <1>3, <1>4

\* The three ends of a poll: a crash, an exit, or a game that goes on.
PollCrashes == snapshot = "Failed" /\ Verdict("Crashed", "Crash") /\ RecordCrashIfNeeded /\ UNCHANGED <<host, proc>>
PollExits == snapshot = "Exited" /\ Verdict("Exited", "CleanExit") /\ UNCHANGED <<crashes, host, proc>>
PollGoesOn == /\ snapshot \notin {"Failed", "Exited"} /\ ui' = "idle"
              /\ UNCHANGED <<runtime, callback, late, silent, sessions, packageOf, stores, host, proc>>

LEMMA PollEnds == PollVerdict => ui = "poll_verdict" /\ (PollCrashes \/ PollExits \/ PollGoesOn)
BY DEF PollVerdict, PollCrashes, PollExits, PollGoesOn

\* A verdict adds at most the row of its session to the table, and at most that session to
\* the mirror, then only with the row.
Row(v) == [session |-> activeSession, package |-> activePackage, outcome |-> v, playedSince |-> readyAt]

LEMMA Recording ==
    ASSUME NEW st, NEW v, Verdict(st, v)
    PROVE  \/ UNCHANGED <<records, mirrored>>
           \/ /\ activePackage # NoPackage /\ activeSession # 0
              /\ records' = records \union {Row(v)}
              /\ mirrored' \in {mirrored, mirrored \union {activeSession}}
BY DEF Verdict, FinalizePersistence, RecordFails, Mirrors, Row

\* A crash report is of the last session.
LEMMA Reporting == RecordCrashIfNeeded => crashes' \in {crashes, crashes \union {sessions}}
BY DEF RecordCrashIfNeeded

LEMMA VerdictTables ==
    ASSUME TablesOK, Identity, NEW st, NEW v \in Verdicts, Verdict(st, v), IsActive, ui # "launch_identity",
           crashes' \in {crashes, crashes \union {sessions}}
    PROVE  TablesOK'
<1> USE MaxSessionsAssumption DEF TablesOK, Sessions
<1>1. activeSession = sessions /\ UNCHANGED <<activePackage, activeSession, readyAt, sessions, packageOf, written>>
  BY DEF Verdict, Identity
<1>2. records' \subseteq Records /\ mirrored' \subseteq Sessions /\ crashes' \subseteq Sessions
  <2>1. activeSession \in Sessions
    BY <1>1 DEF Identity
  <2>2. CASE UNCHANGED <<records, mirrored>>
    BY <1>1, <2>1, <2>2
  <2>3. CASE /\ activePackage # NoPackage
             /\ records' = records \union {Row(v)}
             /\ mirrored' \in {mirrored, mirrored \union {activeSession}}
    <3>1. Row(v) \in Records
      BY <2>1, <2>3 DEF Row, Records
    <3> QED
      BY <1>1, <2>1, <2>3, <3>1
  <2> QED
    BY <2>2, <2>3, Recording
<1> QED
  BY <1>1, <1>2

\* Every variable keeps its kind.
LEMMA StepsStep == StepsOK /\ Layers /\ [Next]_vars => StepsOK'
<1> SUFFICES ASSUME StepsOK, Layers, [Next]_vars PROVE StepsOK'
  OBVIOUS
<1> USE DEF StepsOK, Layers, runtime, host, game, stores, LaunchSteps, PollSteps, DumpSteps, TerminateSteps, Verdicts, Outcomes
<1>1. CASE LaunchFails
  BY <1>1 DEF LaunchFails
<1>2. CASE LaunchIdentity
  BY <1>2 DEF LaunchIdentity, StoreIdentity
<1>3. CASE LaunchOutcome
  BY <1>3 DEF LaunchOutcome
<1>4. CASE LaunchReset
  BY <1>4 DEF LaunchReset, ResetSession
<1>5. CASE PollHost
  BY <1>5 DEF PollHost, Watching, ReportsEnd
<1>6. CASE PollJoin
  BY <1>6 DEF PollJoin, PipeThreadJoined
<1>7. CASE PollReady
  BY <1>7 DEF PollReady
<1>8. CASE PollDeadline
  BY <1>8 DEF PollDeadline, StartupOverdue
<1>9. CASE PollSilence
  BY <1>9 DEF PollSilence, Unresponsive
<1>10. CASE PollVerdict
  BY <1>10 DEF PollVerdict, Verdict, FinalizePersistence, RecordFails, Mirrors, RecordCrashIfNeeded
<1>11. CASE TimeoutVerdict
  BY <1>11 DEF TimeoutVerdict, Verdict, FinalizePersistence, RecordFails, Mirrors, RecordCrashIfNeeded, AuthorityTerminates, PipeThreadJoined
<1>12. CASE HungVerdict
  BY <1>12 DEF HungVerdict, Verdict, FinalizePersistence, RecordFails, Mirrors, RecordCrashIfNeeded, AuthorityTerminates, PipeThreadJoined
<1>13. CASE Terminate
  BY <1>13 DEF Terminate, StopIpc
<1>14. CASE UserVerdict
  BY <1>14 DEF UserVerdict, Verdict, FinalizePersistence, RecordFails, Mirrors, AuthorityTerminates, PipeThreadJoined
<1>15. CASE StampReady
  BY <1>15 DEF StampReady
<1>16. CASE OutcomeReady
  BY <1>16 DEF OutcomeReady, AfterReady
<1>17. CASE SaveWrite
  BY <1>17 DEF SaveWrite, Bound
<1>18. CASE ReceiveReady
  BY <1>18 DEF ReceiveReady, TakesMessage
<1>19. CASE Heartbeat
  BY <1>19 DEF Heartbeat, TakesMessage
<1>20. CASE GameEnds
  BY <1>20 DEF GameEnds
<1>21. CASE ReceiveWrite
  BY <1>21 DEF ReceiveWrite, TakesMessage
<1>22. CASE DeadlinePasses
  BY <1>22 DEF DeadlinePasses
<1>23. CASE SilencePasses
  BY <1>23 DEF SilencePasses
<1>24. ASSUME NEW p \in Packages, LaunchStarts(p) PROVE StepsOK'
  BY <1>24 DEF LaunchStarts
<1>25. CASE UNCHANGED vars
  BY <1>25 DEF vars
<1>26. CASE CaptureDiagnosticDump
  BY <1>26 DEF CaptureDiagnosticDump, StopIpc
<1> QED
  BY <1>1, <1>2, <1>3, <1>4, <1>5, <1>6, <1>7, <1>8, <1>9, <1>10, <1>11, <1>12, <1>13, <1>14, <1>15, <1>16, <1>17, <1>18, <1>19, <1>20, <1>21, <1>22, <1>23, <1>24, <1>25, <1>26
     DEF Next, Launch, Poll, PollContinues, PipeThread, Game, Clock

\* The flags stay flags.
LEMMA FlagsStep == FlagsOK /\ [Next]_vars => FlagsOK'
<1> SUFFICES ASSUME FlagsOK, [Next]_vars PROVE FlagsOK'
  OBVIOUS
<1> USE DEF FlagsOK, runtime, host, game, stores
<1>1. CASE LaunchFails
  BY <1>1 DEF LaunchFails
<1>2. CASE LaunchIdentity
  BY <1>2 DEF LaunchIdentity, StoreIdentity
<1>3. CASE LaunchOutcome
  BY <1>3 DEF LaunchOutcome
<1>4. CASE LaunchReset
  BY <1>4 DEF LaunchReset, ResetSession
<1>5. CASE PollHost
  BY <1>5 DEF PollHost, Watching, ReportsEnd
<1>6. CASE PollJoin
  BY <1>6 DEF PollJoin, PipeThreadJoined
<1>7. CASE PollReady
  BY <1>7 DEF PollReady
<1>8. CASE PollDeadline
  BY <1>8 DEF PollDeadline, StartupOverdue
<1>9. CASE PollSilence
  BY <1>9 DEF PollSilence, Unresponsive
<1>10. CASE PollVerdict
  BY <1>10 DEF PollVerdict, Verdict, FinalizePersistence, RecordFails, Mirrors, RecordCrashIfNeeded
<1>11. CASE TimeoutVerdict
  BY <1>11 DEF TimeoutVerdict, Verdict, FinalizePersistence, RecordFails, Mirrors, RecordCrashIfNeeded, AuthorityTerminates, PipeThreadJoined
<1>12. CASE HungVerdict
  BY <1>12 DEF HungVerdict, Verdict, FinalizePersistence, RecordFails, Mirrors, RecordCrashIfNeeded, AuthorityTerminates, PipeThreadJoined
<1>13. CASE Terminate
  BY <1>13 DEF Terminate, StopIpc
<1>14. CASE UserVerdict
  BY <1>14 DEF UserVerdict, Verdict, FinalizePersistence, RecordFails, Mirrors, AuthorityTerminates, PipeThreadJoined
<1>15. CASE StampReady
  BY <1>15 DEF StampReady
<1>16. CASE OutcomeReady
  BY <1>16 DEF OutcomeReady, AfterReady
<1>17. CASE SaveWrite
  BY <1>17 DEF SaveWrite, Bound
<1>18. CASE ReceiveReady
  BY <1>18 DEF ReceiveReady, TakesMessage
<1>19. CASE Heartbeat
  BY <1>19 DEF Heartbeat, TakesMessage
<1>20. CASE GameEnds
  BY <1>20 DEF GameEnds
<1>21. CASE ReceiveWrite
  BY <1>21 DEF ReceiveWrite, TakesMessage
<1>22. CASE DeadlinePasses
  BY <1>22 DEF DeadlinePasses
<1>23. CASE SilencePasses
  BY <1>23 DEF SilencePasses
<1>24. ASSUME NEW p \in Packages, LaunchStarts(p) PROVE FlagsOK'
  BY <1>24 DEF LaunchStarts
<1>25. CASE UNCHANGED vars
  BY <1>25 DEF vars
<1>26. CASE CaptureDiagnosticDump
  BY <1>26 DEF CaptureDiagnosticDump, StopIpc
<1> QED
  BY <1>1, <1>2, <1>3, <1>4, <1>5, <1>6, <1>7, <1>8, <1>9, <1>10, <1>11, <1>12, <1>13, <1>14, <1>15, <1>16, <1>17, <1>18, <1>19, <1>20, <1>21, <1>22, <1>23, <1>24, <1>25, <1>26
     DEF Next, Launch, Poll, PollContinues, PipeThread, Game, Clock

\* The numbers stay within the bounds.
LEMMA TablesStep == StepsOK /\ TablesOK /\ Layers /\ Identity /\ [Next]_vars => TablesOK'
<1> SUFFICES ASSUME StepsOK, TablesOK, Layers, Identity, [Next]_vars PROVE TablesOK'
  OBVIOUS
<1> USE PackagesAssumption, MaxSessionsAssumption
    DEF TablesOK, runtime, host, game, stores, Sessions
<1>1. CASE LaunchFails
  BY <1>1 DEF LaunchFails
<1>2. CASE LaunchIdentity
  <2>1. sessions \in Sessions
    BY <1>2 DEF LaunchIdentity, Identity
  <2> QED
    BY <1>2, <2>1 DEF LaunchIdentity, StoreIdentity
<1>3. CASE LaunchOutcome
  BY <1>3 DEF LaunchOutcome
<1>4. CASE LaunchReset
  BY <1>4 DEF LaunchReset, ResetSession
<1>5. CASE PollHost
  BY <1>5 DEF PollHost, Watching, ReportsEnd
<1>6. CASE PollJoin
  BY <1>6 DEF PollJoin, PipeThreadJoined
<1>7. CASE PollReady
  BY <1>7 DEF PollReady
<1>8. CASE PollDeadline
  BY <1>8 DEF PollDeadline, StartupOverdue
<1>9. CASE PollSilence
  BY <1>9 DEF PollSilence, Unresponsive
<1>10. CASE PollVerdict
  <2>1. CASE PollCrashes
    <3>1. crashes' \in {crashes, crashes \union {sessions}}
      BY <2>1, Reporting DEF PollCrashes
    <3> QED
      BY <1>10, <2>1, <3>1, PollEnds, VerdictTables DEF PollCrashes, Verdicts, Layers, PollSteps, DumpSteps
  <2>2. CASE PollExits
    <3>1. crashes' \in {crashes, crashes \union {sessions}}
      BY <2>2 DEF PollExits
    <3> QED
      BY <1>10, <2>2, <3>1, PollEnds, VerdictTables DEF PollExits, Verdicts, Layers, PollSteps, DumpSteps
  <2>3. CASE PollGoesOn
    BY <2>3 DEF PollGoesOn
  <2> QED
    BY <1>10, <2>1, <2>2, <2>3, PollEnds
<1>11. CASE TimeoutVerdict
  <2>1. ui \in TerminateSteps /\ (crashes' = crashes \/ RecordCrashIfNeeded) /\ Verdict("Failed", "ReadyTimeout")
    BY <1>11 DEF TimeoutVerdict, TerminateSteps
  <2>2. crashes' \in {crashes, crashes \union {sessions}}
    BY <2>1, Reporting
  <2> QED
    BY <2>1, <2>2, VerdictTables DEF Verdicts, Layers, TerminateSteps
<1>12. CASE HungVerdict
  <2>1. ui \in TerminateSteps /\ (crashes' = crashes \/ RecordCrashIfNeeded) /\ Verdict("Crashed", "Hung")
    BY <1>12 DEF HungVerdict, TerminateSteps
  <2>2. crashes' \in {crashes, crashes \union {sessions}}
    BY <2>1, Reporting
  <2> QED
    BY <2>1, <2>2, VerdictTables DEF Verdicts, Layers, TerminateSteps
<1>13. CASE Terminate
  BY <1>13 DEF Terminate, StopIpc
<1>14. CASE UserVerdict
  <2>1. ui \in TerminateSteps /\ (crashes' = crashes \/ RecordCrashIfNeeded) /\ Verdict("Exited", "UserTermination")
    BY <1>14 DEF UserVerdict, TerminateSteps
  <2>2. crashes' \in {crashes, crashes \union {sessions}}
    BY <2>1, Reporting
  <2> QED
    BY <2>1, <2>2, VerdictTables DEF Verdicts, Layers, TerminateSteps
<1>15. CASE StampReady
  BY <1>15 DEF StampReady
<1>16. CASE OutcomeReady
  BY <1>16 DEF OutcomeReady, AfterReady
<1>17. CASE SaveWrite
  <2>1. CASE UNCHANGED written
    BY <1>17, <2>1 DEF SaveWrite
  <2>2. CASE written' = [session |-> sessions, package |-> activePackage, launching |-> ui \in LaunchSteps] /\ Bound
    <3>1. sessions # 0 /\ activePackage \in Packages
      BY <2>2 DEF Bound, Identity
    <3>2. written' \in Writes
      <4>1. (ui \in LaunchSteps) \in BOOLEAN
        OBVIOUS
      <4> QED
        BY <2>2, <3>1, <4>1 DEF Writes
    <3> QED
      BY <1>17, <3>2 DEF SaveWrite
  <2> QED
    BY <1>17, <2>1, <2>2 DEF SaveWrite
<1>18. CASE ReceiveReady
  BY <1>18 DEF ReceiveReady, TakesMessage
<1>19. CASE Heartbeat
  BY <1>19 DEF Heartbeat, TakesMessage
<1>20. CASE GameEnds
  BY <1>20 DEF GameEnds
<1>21. CASE ReceiveWrite
  BY <1>21 DEF ReceiveWrite, TakesMessage
<1>22. CASE DeadlinePasses
  BY <1>22 DEF DeadlinePasses
<1>23. CASE SilencePasses
  BY <1>23 DEF SilencePasses
<1>24. ASSUME NEW p \in Packages, LaunchStarts(p) PROVE TablesOK'
  BY <1>24 DEF LaunchStarts
<1>25. CASE UNCHANGED vars
  BY <1>25 DEF vars
<1>26. CASE CaptureDiagnosticDump
  BY <1>26 DEF CaptureDiagnosticDump, StopIpc
<1> QED
  BY <1>1, <1>2, <1>3, <1>4, <1>5, <1>6, <1>7, <1>8, <1>9, <1>10, <1>11, <1>12, <1>13, <1>14, <1>15, <1>16, <1>17, <1>18, <1>19, <1>20, <1>21, <1>22, <1>23, <1>24, <1>25, <1>26
     DEF Next, Launch, Poll, PollContinues, PipeThread, Game, Clock

\* The layers stay together.
LEMMA LayersStep == StepsOK /\ Layers /\ [Next]_vars => Layers'
<1> SUFFICES ASSUME StepsOK, Layers, [Next]_vars PROVE Layers'
  OBVIOUS
<1> USE DEF StepsOK, Layers, Up, Stopping, Down, runtime, host, game, stores, LaunchSteps, PollSteps, DumpSteps, TerminateSteps, IsActive
<1>1. CASE LaunchFails
  BY <1>1 DEF LaunchFails
<1>2. CASE LaunchIdentity
  BY <1>2 DEF LaunchIdentity, StoreIdentity
<1>3. CASE LaunchOutcome
  BY <1>3 DEF LaunchOutcome
<1>4. CASE LaunchReset
  BY <1>4 DEF LaunchReset, ResetSession
<1>5. CASE PollHost
  BY <1>5 DEF PollHost, Watching, ReportsEnd
<1>6. CASE PollJoin
  BY <1>6 DEF PollJoin, PipeThreadJoined
<1>7. CASE PollReady
  BY <1>7 DEF PollReady
<1>8. CASE PollDeadline
  BY <1>8 DEF PollDeadline, StartupOverdue
<1>9. CASE PollSilence
  BY <1>9 DEF PollSilence, Unresponsive
<1>10. CASE PollVerdict
  <2>1. CASE PollCrashes
    BY <1>10, <2>1, PollEnds DEF PollCrashes, Verdict
  <2>2. CASE PollExits
    BY <1>10, <2>2, PollEnds DEF PollExits, Verdict
  <2>3. CASE PollGoesOn
    BY <1>10, <2>3, PollEnds DEF PollGoesOn
  <2> QED
    BY <1>10, <2>1, <2>2, <2>3, PollEnds
<1>11. CASE TimeoutVerdict
  BY <1>11 DEF TimeoutVerdict, Verdict, FinalizePersistence, RecordFails, Mirrors, RecordCrashIfNeeded, AuthorityTerminates, PipeThreadJoined
<1>12. CASE HungVerdict
  BY <1>12 DEF HungVerdict, Verdict, FinalizePersistence, RecordFails, Mirrors, RecordCrashIfNeeded, AuthorityTerminates, PipeThreadJoined
<1>13. CASE Terminate
  BY <1>13 DEF Terminate, StopIpc
<1>14. CASE UserVerdict
  BY <1>14 DEF UserVerdict, Verdict, FinalizePersistence, RecordFails, Mirrors, AuthorityTerminates, PipeThreadJoined
<1>15. CASE StampReady
  BY <1>15 DEF StampReady
<1>16. CASE OutcomeReady
  BY <1>16 DEF OutcomeReady, AfterReady
<1>17. CASE SaveWrite
  BY <1>17 DEF SaveWrite, Bound
<1>18. CASE ReceiveReady
  BY <1>18 DEF ReceiveReady, TakesMessage
<1>19. CASE Heartbeat
  BY <1>19 DEF Heartbeat, TakesMessage
<1>20. CASE GameEnds
  BY <1>20 DEF GameEnds
<1>21. CASE ReceiveWrite
  BY <1>21 DEF ReceiveWrite, TakesMessage
<1>22. CASE DeadlinePasses
  BY <1>22 DEF DeadlinePasses
<1>23. CASE SilencePasses
  BY <1>23 DEF SilencePasses
<1>24. ASSUME NEW p \in Packages, LaunchStarts(p) PROVE Layers'
  BY <1>24 DEF LaunchStarts
<1>25. CASE UNCHANGED vars
  BY <1>25 DEF vars
<1>26. CASE CaptureDiagnosticDump
  BY <1>26 DEF CaptureDiagnosticDump, StopIpc
<1> QED
  BY <1>1, <1>2, <1>3, <1>4, <1>5, <1>6, <1>7, <1>8, <1>9, <1>10, <1>11, <1>12, <1>13, <1>14, <1>15, <1>16, <1>17, <1>18, <1>19, <1>20, <1>21, <1>22, <1>23, <1>24, <1>25, <1>26
     DEF Next, Launch, Poll, PollContinues, PipeThread, Game, Clock

\* The stored identity is that of the last session that was launched.
LEMMA IdentityStep == StepsOK /\ TablesOK /\ Layers /\ Identity /\ [Next]_vars => Identity'
<1> SUFFICES ASSUME StepsOK, TablesOK, Layers, Identity, [Next]_vars PROVE Identity'
  OBVIOUS
<1> USE DEF Identity, IsActive, StepsOK, Layers, TablesOK, Sessions, runtime, host, game, stores, LaunchSteps, PollSteps, DumpSteps, TerminateSteps
<1>1. CASE LaunchFails
  BY <1>1 DEF LaunchFails
<1>2. CASE LaunchIdentity
  <2>1. activeSession' = sessions /\ activePackage' = packageOf[sessions] /\ ui' # "launch_identity" /\ UNCHANGED <<sessions, packageOf>>
    BY <1>2 DEF LaunchIdentity, StoreIdentity
  <2> QED
    BY <1>2, <2>1 DEF LaunchIdentity
<1>3. CASE LaunchOutcome
  BY <1>3 DEF LaunchOutcome
<1>4. CASE LaunchReset
  BY <1>4 DEF LaunchReset, ResetSession
<1>5. CASE PollHost
  BY <1>5 DEF PollHost, Watching, ReportsEnd
<1>6. CASE PollJoin
  BY <1>6 DEF PollJoin, PipeThreadJoined
<1>7. CASE PollReady
  BY <1>7 DEF PollReady
<1>8. CASE PollDeadline
  BY <1>8 DEF PollDeadline, StartupOverdue
<1>9. CASE PollSilence
  BY <1>9 DEF PollSilence, Unresponsive
<1>10. CASE PollVerdict
  BY <1>10, PollEnds DEF PollCrashes, PollExits, PollGoesOn, Verdict
<1>11. CASE TimeoutVerdict
  BY <1>11 DEF TimeoutVerdict, Verdict
<1>12. CASE HungVerdict
  BY <1>12 DEF HungVerdict, Verdict
<1>13. CASE Terminate
  BY <1>13 DEF Terminate, StopIpc
<1>14. CASE UserVerdict
  BY <1>14 DEF UserVerdict, Verdict
<1>15. CASE StampReady
  BY <1>15 DEF StampReady
<1>16. CASE OutcomeReady
  BY <1>16 DEF OutcomeReady, AfterReady
<1>17. CASE SaveWrite
  BY <1>17 DEF SaveWrite, Bound
<1>18. CASE ReceiveReady
  BY <1>18 DEF ReceiveReady, TakesMessage
<1>19. CASE Heartbeat
  BY <1>19 DEF Heartbeat, TakesMessage
<1>20. CASE GameEnds
  BY <1>20 DEF GameEnds
<1>21. CASE ReceiveWrite
  BY <1>21 DEF ReceiveWrite, TakesMessage
<1>22. CASE DeadlinePasses
  BY <1>22 DEF DeadlinePasses
<1>23. CASE SilencePasses
  BY <1>23 DEF SilencePasses
<1>24. ASSUME NEW p \in Packages, LaunchStarts(p) PROVE Identity'
  BY <1>24 DEF LaunchStarts
<1>25. CASE UNCHANGED vars
  BY <1>25 DEF vars
<1>26. CASE CaptureDiagnosticDump
  BY <1>26 DEF CaptureDiagnosticDump, StopIpc
<1> QED
  BY <1>1, <1>2, <1>3, <1>4, <1>5, <1>6, <1>7, <1>8, <1>9, <1>10, <1>11, <1>12, <1>13, <1>14, <1>15, <1>16, <1>17, <1>18, <1>19, <1>20, <1>21, <1>22, <1>23, <1>24, <1>25, <1>26
     DEF Next, Launch, Poll, PollContinues, PipeThread, Game, Clock

\* The outcome is that of the session, and READY is stamped for it.
LEMMA OutcomeStep == StepsOK /\ TablesOK /\ Layers /\ Identity /\ Outcome /\ [Next]_vars => Outcome'
<1> SUFFICES ASSUME StepsOK, TablesOK, Layers, Identity, Outcome, [Next]_vars PROVE Outcome'
  OBVIOUS
<1> USE DEF Outcome, StepsOK, Layers, Up, Stopping, Down, IsActive, runtime, host, game, stores, LaunchSteps, PollSteps, DumpSteps, TerminateSteps
<1>1. CASE LaunchFails
  BY <1>1 DEF LaunchFails
<1>2. CASE LaunchIdentity
  BY <1>2 DEF LaunchIdentity, StoreIdentity
<1>3. CASE LaunchOutcome
  BY <1>3 DEF LaunchOutcome
<1>4. CASE LaunchReset
  BY <1>4 DEF LaunchReset, ResetSession, Identity
<1>5. CASE PollHost
  BY <1>5 DEF PollHost, Watching, ReportsEnd
<1>6. CASE PollJoin
  BY <1>6 DEF PollJoin, PipeThreadJoined
<1>7. CASE PollReady
  <2>1. CASE ready /\ readyAt = 0
    BY <1>7, <2>1 DEF PollReady
  <2>2. CASE ~(ready /\ readyAt = 0)
    BY <1>7, <2>2 DEF PollReady
  <2> QED
    BY <2>1, <2>2
<1>8. CASE PollDeadline
  BY <1>8 DEF PollDeadline, StartupOverdue
<1>9. CASE PollSilence
  BY <1>9 DEF PollSilence, Unresponsive
<1>10. CASE PollVerdict
  <2>1. CASE PollCrashes
    BY <1>10, <2>1, PollEnds DEF PollCrashes, Verdict
  <2>2. CASE PollExits
    BY <1>10, <2>2, PollEnds DEF PollExits, Verdict
  <2>3. CASE PollGoesOn
    BY <1>10, <2>3, PollEnds DEF PollGoesOn
  <2> QED
    BY <1>10, <2>1, <2>2, <2>3, PollEnds
<1>11. CASE TimeoutVerdict
  BY <1>11 DEF TimeoutVerdict, Verdict
<1>12. CASE HungVerdict
  BY <1>12 DEF HungVerdict, Verdict
<1>13. CASE Terminate
  BY <1>13 DEF Terminate, StopIpc
<1>14. CASE UserVerdict
  BY <1>14 DEF UserVerdict, Verdict
<1>15. CASE StampReady
  BY <1>15 DEF StampReady
<1>16. CASE OutcomeReady
  BY <1>16 DEF OutcomeReady, AfterReady
<1>17. CASE SaveWrite
  BY <1>17 DEF SaveWrite, Bound
<1>18. CASE ReceiveReady
  BY <1>18 DEF ReceiveReady, TakesMessage
<1>19. CASE Heartbeat
  BY <1>19 DEF Heartbeat, TakesMessage
<1>20. CASE GameEnds
  BY <1>20 DEF GameEnds
<1>21. CASE ReceiveWrite
  BY <1>21 DEF ReceiveWrite, TakesMessage
<1>22. CASE DeadlinePasses
  BY <1>22 DEF DeadlinePasses
<1>23. CASE SilencePasses
  BY <1>23 DEF SilencePasses
<1>24. ASSUME NEW p \in Packages, LaunchStarts(p) PROVE Outcome'
  BY <1>24 DEF LaunchStarts
<1>25. CASE UNCHANGED vars
  BY <1>25 DEF vars
<1>26. CASE CaptureDiagnosticDump
  BY <1>26 DEF CaptureDiagnosticDump, StopIpc
<1> QED
  BY <1>1, <1>2, <1>3, <1>4, <1>5, <1>6, <1>7, <1>8, <1>9, <1>10, <1>11, <1>12, <1>13, <1>14, <1>15, <1>16, <1>17, <1>18, <1>19, <1>20, <1>21, <1>22, <1>23, <1>24, <1>25, <1>26
     DEF Next, Launch, Poll, PollContinues, PipeThread, Game, Clock

\* The stores by their parts, as they are after a step that leaves them alone.
LEMMA StoresKept ==
    ASSUME TablesOK, Stores, UNCHANGED <<records, crashes, mirrored, written>>,
           Over \subseteq Over', sessions' >= sessions, sessions' \in Nat,
           \A n \in Sessions : n <= sessions => packageOf'[n] = packageOf[n]
    PROVE  Stores'
<1>1. \A r \in records : r.session \in Sessions /\ r.session <= sessions
  BY DEF Stores, Over, TablesOK, Records, Sessions
<1>2. RecordsAgree'
  BY <1>1 DEF Stores, RecordsAgree, RecordedOnce, RecordNamesItsPackage, MirrorFollowsTable,
              CrashReportsAgree, PlaytimeFromOwnReady
<1>3. written # NoWrite => written.session \in Sessions
  BY DEF TablesOK, Writes
<1>4. WritesBoundAfterLaunch'
  BY <1>3 DEF Stores, WritesBoundAfterLaunch
<1>5. sessions \in Nat /\ sessions' \in Nat /\ sessions' >= sessions /\ (written # NoWrite => written.session \in Nat)
  BY <1>3, MaxSessionsAssumption DEF TablesOK, Sessions
<1>6. written' # NoWrite => written'.session <= sessions'
  <2> SUFFICES ASSUME written # NoWrite PROVE written.session <= sessions'
    OBVIOUS
  <2>1. written.session <= sessions
    BY DEF Stores
  <2> QED
    BY <1>5, <2>1
<1> QED
  BY <1>2, <1>4, <1>6 DEF Stores

\* A verdict is written under the session and the package of the game it ends, and the
\* session had none.
LEMMA VerdictStores ==
    ASSUME TablesOK, Layers, Identity, Stores, Outcome,
           NEW st, st \notin {"Launching", "Running"}, NEW v \in Verdicts, Verdict(st, v),
           ui \in PollSteps \union TerminateSteps,
           crashes' \in {crashes, crashes \union {sessions}},
           v \in {"CleanExit", "UserTermination"} => crashes' = crashes
    PROVE  Stores'
<1>1. IsActive /\ ui \notin LaunchSteps
  BY DEF Layers, PollSteps, DumpSteps, TerminateSteps, LaunchSteps
<1>2. activeSession = sessions /\ readyAt \in {0, sessions} /\ sessions \in 0 .. MaxSessions
  BY <1>1 DEF Identity, Outcome, LaunchSteps, TablesOK
<1>3. ~IsActive' /\ ui' = "idle" /\ UNCHANGED <<sessions, packageOf, written>>
  BY DEF Verdict, IsActive
<1>4. Over = 1 .. (sessions - 1) /\ Over' = 1 .. sessions
  BY <1>1, <1>3 DEF Over
<1>5. \A r \in records : r.session \in Nat /\ r.session < sessions /\ r.session \in Over'
  BY <1>2, <1>4 DEF Stores
<1>6. \A n \in crashes : n \in Nat /\ n < sessions /\ n \in Over'
  BY <1>2, <1>4 DEF Stores
<1>7. CASE UNCHANGED <<records, mirrored>>
  <2>1. crashes' \subseteq Over'
    <3>1. sessions > 0
      BY <1>1 DEF Identity
    <3> QED
      BY <1>2, <1>4, <1>6, <3>1
  <2>2. CrashReportsAgree'
    BY <1>5, <1>7 DEF Stores, RecordsAgree, CrashReportsAgree
  <2>3. RecordsAgree'
    BY <1>3, <1>7, <2>2 DEF Stores, RecordsAgree, RecordedOnce, RecordNamesItsPackage, MirrorFollowsTable,
                            PlaytimeFromOwnReady
  <2> QED
    BY <1>3, <1>5, <1>7, <2>1, <2>3 DEF Stores, WritesBoundAfterLaunch
<1>8. CASE /\ activePackage # NoPackage /\ activeSession # 0
           /\ records' = records \union {Row(v)}
           /\ mirrored' \in {mirrored, mirrored \union {activeSession}}
  <2>1. Row(v).session = sessions /\ Row(v).package = packageOf[sessions] /\ Row(v).outcome = v
        /\ Row(v).playedSince \in {0, sessions}
    BY <1>2, <1>8 DEF Row, Identity
  <2>2. sessions \in Over' /\ crashes' \subseteq Over'
    BY <1>2, <1>4, <1>6, <1>8
  <2>3. RecordedOnce'
    BY <1>5, <1>8, <2>1 DEF Stores, RecordsAgree, RecordedOnce
  <2>4. RecordNamesItsPackage' /\ PlaytimeFromOwnReady'
    BY <1>3, <1>8, <2>1 DEF Stores, RecordsAgree, RecordNamesItsPackage, PlaytimeFromOwnReady
  <2>5. MirrorFollowsTable'
    BY <1>2, <1>8, <2>1 DEF Stores, RecordsAgree, MirrorFollowsTable
  <2>6. CrashReportsAgree'
    <3> SUFFICES ASSUME NEW r \in records', r.outcome \in {"CleanExit", "UserTermination"}
                 PROVE  r.session \notin crashes'
      BY DEF CrashReportsAgree
    <3>1. CASE r \in records
      BY <1>5, <3>1 DEF Stores, RecordsAgree, CrashReportsAgree
    <3>2. CASE r = Row(v)
      BY <1>6, <2>1, <3>2
    <3> QED
      BY <1>8, <3>1, <3>2
  <2> QED
    BY <1>3, <1>5, <1>8, <2>1, <2>2, <2>3, <2>4, <2>5, <2>6
       DEF Stores, RecordsAgree, WritesBoundAfterLaunch
<1> QED
  BY <1>7, <1>8, Recording

\* The stores tell one story, also after the step.
LEMMA StoresStep == StepsOK /\ TablesOK /\ Layers /\ Identity /\ Stores /\ Outcome /\ [Next]_vars => Stores'
<1> SUFFICES ASSUME StepsOK, TablesOK, Layers, Identity, Stores, Outcome, [Next]_vars PROVE Stores'
  OBVIOUS
<1> USE MaxSessionsAssumption DEF StepsOK, TablesOK, Sessions, runtime, host, game, stores
<1>1. CASE LaunchFails
  BY <1>1, StoresKept DEF LaunchFails, Over, IsActive
<1>2. CASE LaunchIdentity
  <2>1. Over' = Over
    BY <1>2 DEF LaunchIdentity, Over, IsActive
  <2> QED
    BY <1>2, <2>1, StoresKept DEF LaunchIdentity
<1>3. CASE LaunchOutcome
  BY <1>3, StoresKept DEF LaunchOutcome, Over, IsActive
<1>4. CASE LaunchReset
  BY <1>4, StoresKept DEF LaunchReset, Over, IsActive, ResetSession
<1>5. CASE PollHost
  BY <1>5, StoresKept DEF PollHost, Over, IsActive, Watching, ReportsEnd
<1>6. CASE PollJoin
  BY <1>6, StoresKept DEF PollJoin, Over, IsActive, PipeThreadJoined
<1>7. CASE PollReady
  <2>1. IsActive /\ ui \notin LaunchSteps
    BY <1>7 DEF PollReady, Layers, PollSteps, DumpSteps, LaunchSteps
  <2>2. Over' = Over
    BY <1>7, <2>1 DEF PollReady, Over, IsActive, LaunchSteps
  <2> QED
    BY <1>7, <2>2, StoresKept DEF PollReady
<1>8. CASE PollDeadline
  BY <1>8, StoresKept DEF PollDeadline, Over, IsActive, StartupOverdue
<1>9. CASE PollSilence
  BY <1>9, StoresKept DEF PollSilence, Over, IsActive, Unresponsive
<1>10. CASE PollVerdict
  <2>1. CASE PollCrashes
    BY <1>10, <2>1, PollEnds, Reporting, VerdictStores DEF PollCrashes, Verdicts, PollSteps, DumpSteps
  <2>2. CASE PollExits
    BY <1>10, <2>2, PollEnds, VerdictStores DEF PollExits, Verdicts, PollSteps, DumpSteps
  <2>3. CASE PollGoesOn
    <3>1. Over' = Over
      BY <1>10, <2>3, PollEnds DEF PollGoesOn, Over, IsActive
    <3> QED
      BY <2>3, <3>1, StoresKept DEF PollGoesOn
  <2> QED
    BY <1>10, <2>1, <2>2, <2>3, PollEnds
<1>11. CASE TimeoutVerdict
  <2>1. Verdict("Failed", "ReadyTimeout") /\ (crashes' = crashes \/ RecordCrashIfNeeded) /\ ui \in TerminateSteps
    BY <1>11 DEF TimeoutVerdict, TerminateSteps
  <2>2. "ReadyTimeout" \in {"CleanExit", "UserTermination"} => crashes' = crashes
    BY <1>11 DEF TimeoutVerdict
  <2> QED
    BY <2>1, <2>2, Reporting, VerdictStores DEF Verdicts
<1>12. CASE HungVerdict
  <2>1. Verdict("Crashed", "Hung") /\ (crashes' = crashes \/ RecordCrashIfNeeded) /\ ui \in TerminateSteps
    BY <1>12 DEF HungVerdict, TerminateSteps
  <2>2. "Hung" \in {"CleanExit", "UserTermination"} => crashes' = crashes
    BY <1>12 DEF HungVerdict
  <2> QED
    BY <2>1, <2>2, Reporting, VerdictStores DEF Verdicts
<1>13. CASE Terminate
  BY <1>13, StoresKept DEF Terminate, Over, IsActive, StopIpc
<1>14. CASE UserVerdict
  <2>1. Verdict("Exited", "UserTermination") /\ (crashes' = crashes \/ RecordCrashIfNeeded) /\ ui \in TerminateSteps
    BY <1>14 DEF UserVerdict, TerminateSteps
  <2>2. "UserTermination" \in {"CleanExit", "UserTermination"} => crashes' = crashes
    BY <1>14 DEF UserVerdict
  <2> QED
    BY <2>1, <2>2, Reporting, VerdictStores DEF Verdicts
<1>15. CASE StampReady
  BY <1>15, StoresKept DEF StampReady, Over, IsActive
<1>16. CASE OutcomeReady
  BY <1>16, StoresKept DEF OutcomeReady, Over, IsActive, AfterReady
<1>17. CASE SaveWrite
  <2>1. CASE UNCHANGED written
    BY <1>17, <2>1, StoresKept DEF SaveWrite, Over, IsActive
  <2>2. CASE written' = [session |-> sessions, package |-> activePackage, launching |-> ui \in LaunchSteps] /\ Bound
    <3>1. written'.session = sessions /\ written'.package = activePackage /\ written'.launching = (ui \in LaunchSteps)
      BY <2>2
    <3>2. UNCHANGED <<ui, state, sessions, packageOf, records, mirrored, crashes>>
      BY <1>17 DEF SaveWrite
    <3>3. WritesBoundAfterLaunch'
      BY <2>2, <3>1, <3>2 DEF WritesBoundAfterLaunch, Identity, Bound, LaunchSteps
    <3> QED
      BY <3>1, <3>2, <3>3 DEF Stores, Over, IsActive, RecordsAgree, RecordedOnce, RecordNamesItsPackage,
                              MirrorFollowsTable, CrashReportsAgree, PlaytimeFromOwnReady
  <2> QED
    BY <1>17, <2>1, <2>2 DEF SaveWrite
<1>18. CASE ReceiveReady
  BY <1>18, StoresKept DEF ReceiveReady, Over, IsActive, TakesMessage
<1>19. CASE Heartbeat
  BY <1>19, StoresKept DEF Heartbeat, Over, IsActive, TakesMessage
<1>20. CASE GameEnds
  BY <1>20, StoresKept DEF GameEnds, Over, IsActive
<1>21. CASE ReceiveWrite
  BY <1>21, StoresKept DEF ReceiveWrite, Over, IsActive, TakesMessage
<1>22. CASE DeadlinePasses
  BY <1>22, StoresKept DEF DeadlinePasses, Over, IsActive
<1>23. CASE SilencePasses
  BY <1>23, StoresKept DEF SilencePasses, Over, IsActive
<1>24. ASSUME NEW p \in Packages, LaunchStarts(p) PROVE Stores'
  <2>1. UNCHANGED <<records, crashes, mirrored, written, state>> /\ sessions' = sessions + 1
    BY <1>24 DEF LaunchStarts
  <2>2. \A n \in Sessions : n <= sessions => packageOf'[n] = packageOf[n]
    BY <1>24 DEF LaunchStarts
  <2>3. Over' = Over
    BY <1>24 DEF LaunchStarts, Over, IsActive
  <2> QED
    BY <2>1, <2>2, <2>3, StoresKept
<1>25. CASE UNCHANGED vars
  BY <1>25, StoresKept DEF vars, Over, IsActive
<1>26. CASE CaptureDiagnosticDump
  BY <1>26, StoresKept DEF CaptureDiagnosticDump, Over, IsActive, StopIpc, DumpSteps, PollSteps, TerminateSteps
<1> QED
  BY <1>1, <1>2, <1>3, <1>4, <1>5, <1>6, <1>7, <1>8, <1>9, <1>10, <1>11, <1>12, <1>13, <1>14, <1>15, <1>16, <1>17, <1>18, <1>19, <1>20, <1>21, <1>22, <1>23, <1>24, <1>25, <1>26
     DEF Next, Launch, Poll, PollContinues, PipeThread, Game, Clock

LEMMA InitIInv == Init => IInv
<1> SUFFICES ASSUME Init PROVE IInv
  OBVIOUS
<1> USE MaxSessionsAssumption DEF Init
<1>1. StepsOK /\ FlagsOK
  BY DEF StepsOK, FlagsOK, Outcomes
<1>2. TablesOK
  BY DEF TablesOK, Sessions
<1>3. Layers /\ Identity /\ Outcome
  BY DEF Layers, Down, Identity, Outcome, IsActive, LaunchSteps, PollSteps, DumpSteps, TerminateSteps, Sessions
<1>4. Stores
  BY DEF Stores, Over, RecordsAgree, RecordedOnce, RecordNamesItsPackage, MirrorFollowsTable,
         CrashReportsAgree, PlaytimeFromOwnReady, WritesBoundAfterLaunch
<1> QED
  BY <1>1, <1>2, <1>3, <1>4, Kinds DEF IInv

LEMMA NextIInv == IInv /\ [Next]_vars => IInv'
<1> SUFFICES ASSUME IInv, [Next]_vars PROVE IInv'
  OBVIOUS
<1>1. StepsOK /\ FlagsOK /\ TablesOK /\ Layers /\ Identity /\ Stores /\ Outcome
  BY Kinds DEF IInv
<1>2. StepsOK' /\ FlagsOK' /\ TablesOK'
  BY <1>1, StepsStep, FlagsStep, TablesStep
<1>3. TypeOK'
  BY <1>2 DEF TypeOK, StepsOK, FlagsOK, TablesOK
<1> QED
  BY <1>1, <1>3, LayersStep, IdentityStep, OutcomeStep, StoresStep DEF IInv

LEMMA Inductive == Spec => []IInv
BY InitIInv, NextIInv, PTL DEF Spec

\* Every variable keeps its kind, for any packages and any number of sessions.
THEOREM TypeCorrect == Spec => []TypeOK
<1>1. IInv => TypeOK
  BY DEF IInv
<1> QED
  BY <1>1, Inductive, PTL

\* Between frames the coordinator, the authority, the host and the pipe server agree on whether
\* a game is active (ProductionRuntime::Poll, Terminate and Launch).
THEOREM LayersAlwaysAgree == Spec => []LayersAgree
<1>1. IInv => LayersAgree
  BY DEF IInv, Layers, Up, Down, LayersAgree
<1> QED
  BY <1>1, Inductive, PTL

\* The session table, its mirror and the crash reports tell one story of each session, under the
\* package and from the READY of that session (FinalizePersistence, RecordCrashIfNeeded).
THEOREM RecordsAlwaysAgree == Spec => []RecordsAgree
<1>1. IInv => RecordsAgree
  BY DEF IInv, Stores
<1> QED
  BY <1>1, Inductive, PTL

\* What a game writes after its launch is stored under its own package (onResume, onAchievement).
THEOREM WritesAreBound == Spec => []WritesBoundAfterLaunch
<1>1. IInv => WritesBoundAfterLaunch
  BY DEF IInv, Stores
<1> QED
  BY <1>1, Inductive, PTL

\* The verdict on a session is given once: by the exit, the deadline, the watchdog or the user,
\* and no READY that is still under way takes it back.
THEOREM VerdictsStick == Spec => VerdictSticks
<1>1. ASSUME IInv, [Next]_vars
      PROVE  outcome \in Verdicts /\ activeSession' = activeSession /\ ui \notin LaunchSteps
                => outcome' \in {outcome, "LaunchFailure"}
  <2> SUFFICES ASSUME outcome \in Verdicts, ui \notin LaunchSteps
               PROVE  outcome' \in {outcome, "LaunchFailure"}
    OBVIOUS
  <2>1. ~IsActive
    BY <1>1 DEF IInv, Outcome, Verdicts, LaunchSteps
  <2>2. ui = "idle"
    BY <1>1, <2>1 DEF IInv, TypeOK, Layers
  <2>3. callback # "outcome"
    BY <1>1, <2>1, <2>2 DEF IInv, Layers, Down
  <2> QED
    BY <1>1, <2>1, <2>2, <2>3
       DEF Next, Launch, Poll, PollContinues, PipeThread, Game, Clock, vars, runtime, host, game, stores, LaunchFails, LaunchStarts,
           LaunchIdentity, LaunchOutcome, LaunchReset, PollHost, PollJoin, PollReady, PollDeadline,
           PollSilence, CaptureDiagnosticDump, PollVerdict, TimeoutVerdict, HungVerdict, Terminate, UserVerdict, StampReady,
           OutcomeReady, SaveWrite, ReceiveReady, Heartbeat, GameEnds, ReceiveWrite, DeadlinePasses,
           SilencePasses, Watching
<1> QED
  BY <1>1, Inductive, PTL DEF Spec, VerdictSticks

-----------------------------------------------------------------------------
(* The coordinator implements GameSession.                                 *)

Phase == IF ui = "launch_outcome" \/ outcome = "Starting" THEN "starting"
         ELSE IF outcome = "Running" THEN "playing"
         ELSE IF outcome = "None" THEN "none" ELSE outcome
Rows(table) == {[session |-> r.session, package |-> r.package, outcome |-> r.outcome] : r \in table}
PhaseKept == Phase' = Phase /\ UNCHANGED <<activeSession, activePackage, records>>

\* The steps of GameSession over what the coordinator shows.
LEMMA Stutters == PhaseKept => UNCHANGED Promise!vars
BY DEF PhaseKept, Phase, Promise!vars

LEMMA Refuses ==
    ASSUME Phase \notin {"starting", "playing"}, Phase' = "LaunchFailure",
           UNCHANGED <<activeSession, activePackage, records>>
    PROVE  Promise!Next
BY DEF Phase, Promise!Next, Promise!Refuse, Promise!Live

LEMMA Begins ==
    ASSUME Phase \notin {"starting", "playing"}, Phase' = "starting", activeSession < MaxSessions,
           activeSession' = activeSession + 1, activePackage' \in Packages, UNCHANGED records
    PROVE  Promise!Next
BY DEF Phase, Promise!Next, Promise!Begin, Promise!Live

LEMMA BecomesPlayable ==
    ASSUME Phase = "starting", Phase' = "playing", UNCHANGED <<activeSession, activePackage, records>>
    PROVE  Promise!Next
BY DEF Phase, Promise!Next, Promise!BecomePlayable

LEMMA Ends ==
    ASSUME Phase \in {"starting", "playing"}, NEW v \in Verdicts \ {"LaunchFailure"}, Phase' = v,
           v = "Hung" => Phase = "playing",
           UNCHANGED <<activeSession, activePackage>>,
           records' = records \/ records' = records \union {Row(v)}
    PROVE  Promise!Next
<1>1. Rows(records)' \in {Rows(records), Rows(records) \union
                              {[session |-> activeSession, package |-> activePackage, outcome |-> v]}}
  <2>1. CASE records' = records
    BY <2>1 DEF Rows
  <2>2. CASE records' = records \union {Row(v)}
    BY <2>2 DEF Rows, Row
  <2> QED
    BY <2>1, <2>2
<1>2. Promise!End(v)
  BY <1>1 DEF Phase, Rows, Promise!End, Promise!Live
<1> QED
  BY <1>2 DEF Promise!Next


\* Every step is a step of GameSession, or one that the shell does not see.
LEMMA PromiseStep == StepsOK /\ TablesOK /\ Layers /\ Identity /\ Outcome /\ [Next]_vars => [Promise!Next]_Promise!vars
<1> SUFFICES ASSUME StepsOK, TablesOK, Layers, Identity, Outcome, [Next]_vars PROVE [Promise!Next]_Promise!vars
  OBVIOUS
<1> USE DEF runtime, host, game, stores
<1>1. CASE LaunchFails
  BY <1>1, Refuses DEF LaunchFails, Outcome, Phase, StepsOK, Outcomes, Verdicts
<1>2. CASE LaunchIdentity
  <2>1. Phase \notin {"starting", "playing"} /\ Phase' = "starting"
    BY <1>2 DEF LaunchIdentity, Outcome, Layers, Phase, LaunchSteps, StepsOK, Outcomes, Verdicts
  <2>2. activeSession = sessions - 1 /\ sessions > 0 /\ sessions \in Sessions /\ packageOf[sessions] \in Packages
    BY <1>2 DEF LaunchIdentity, Identity, TablesOK, Sessions
  <2>3. activeSession < MaxSessions /\ activeSession' = activeSession + 1 /\ activePackage' \in Packages /\ UNCHANGED records
    BY <1>2, <2>2, MaxSessionsAssumption DEF LaunchIdentity, StoreIdentity, Sessions
  <2> QED
    BY <2>1, <2>3, Begins
<1>3. CASE LaunchOutcome
  BY <1>3, Stutters DEF LaunchOutcome, PhaseKept, Phase
<1>4. CASE LaunchReset
  BY <1>4, Stutters DEF LaunchReset, ResetSession, PhaseKept, Phase
<1>5. CASE PollHost
  BY <1>5, Stutters DEF PollHost, Watching, ReportsEnd, PhaseKept, Phase
<1>6. CASE PollJoin
  BY <1>6, Stutters DEF PollJoin, PipeThreadJoined, PhaseKept, Phase
<1>7. CASE PollReady
  <2>1. CASE ready /\ readyAt = 0 /\ outcome = "Starting"
    BY <1>7, <2>1, BecomesPlayable DEF PollReady, Phase
  <2>2. CASE ~(ready /\ readyAt = 0 /\ outcome = "Starting")
    <3>1. outcome \in {"Starting", "Running"}
      BY <1>7 DEF PollReady, Outcome, Layers, PollSteps, DumpSteps
    <3> QED
      BY <1>7, <2>2, <3>1, Stutters DEF PollReady, PhaseKept, Phase
  <2> QED
    BY <2>1, <2>2
<1>8. CASE PollDeadline
  BY <1>8, Stutters DEF PollDeadline, StartupOverdue, PhaseKept, Phase
<1>9. CASE PollSilence
  BY <1>9, Stutters DEF PollSilence, Unresponsive, PhaseKept, Phase
<1>10. CASE PollVerdict
  <2>1. CASE PollCrashes
    <3>1. UNCHANGED <<activeSession, activePackage>> /\ Phase' = "Crash"
      BY <1>10, <2>1 DEF PollCrashes, Verdict, Phase
    <3>2. records' = records \/ records' = records \union {Row("Crash")}
      BY <2>1, Recording DEF PollCrashes
    <3>3. Phase \in {"starting", "playing"}
      BY <1>10, PollEnds DEF Outcome, Phase, Layers, PollSteps, DumpSteps
    <3> QED
      BY <3>1, <3>2, <3>3, Ends DEF Verdicts
  <2>2. CASE PollExits
    <3>1. UNCHANGED <<activeSession, activePackage>> /\ Phase' = "CleanExit"
      BY <1>10, <2>2 DEF PollExits, Verdict, Phase
    <3>2. records' = records \/ records' = records \union {Row("CleanExit")}
      BY <2>2, Recording DEF PollExits
    <3>3. Phase \in {"starting", "playing"}
      BY <1>10, PollEnds DEF Outcome, Phase, Layers, PollSteps, DumpSteps
    <3> QED
      BY <3>1, <3>2, <3>3, Ends DEF Verdicts
  <2>3. CASE PollGoesOn
    BY <1>10, <2>3, PollEnds, Stutters DEF PollGoesOn, PhaseKept, Phase
  <2> QED
    BY <1>10, <2>1, <2>2, <2>3, PollEnds
<1>11. CASE TimeoutVerdict
  <2>1. Verdict("Failed", "ReadyTimeout") /\ ui \in TerminateSteps
    BY <1>11 DEF TimeoutVerdict, TerminateSteps
  <2>2. UNCHANGED <<activeSession, activePackage>> /\ Phase' = "ReadyTimeout"
    BY <2>1 DEF Verdict, Phase
  <2>3. records' = records \/ records' = records \union {Row("ReadyTimeout")}
    BY <2>1, Recording
  <2>4. Phase \in {"starting", "playing"}
    BY <2>1 DEF Outcome, Phase, Layers, TerminateSteps
  <2> QED
    BY <2>2, <2>3, <2>4, Ends DEF Verdicts
<1>12. CASE HungVerdict
  <2>1. Verdict("Crashed", "Hung") /\ ui \in TerminateSteps
    BY <1>12 DEF HungVerdict, TerminateSteps
  <2>2. UNCHANGED <<activeSession, activePackage>> /\ Phase' = "Hung"
    BY <2>1 DEF Verdict, Phase
  <2>3. records' = records \/ records' = records \union {Row("Hung")}
    BY <2>1, Recording
  <2>4. Phase \in {"starting", "playing"}
    BY <2>1 DEF Outcome, Phase, Layers, TerminateSteps
  <2>5. Phase = "playing"
    BY <1>12 DEF HungVerdict, AuthorityTerminates, PipeThreadJoined, Outcome, Phase
  <2> QED
    BY <2>2, <2>3, <2>4, <2>5, Ends DEF Verdicts
<1>13. CASE Terminate
  BY <1>13, Stutters DEF Terminate, StopIpc, PhaseKept, Phase
<1>14. CASE UserVerdict
  <2>1. Verdict("Exited", "UserTermination") /\ ui \in TerminateSteps
    BY <1>14 DEF UserVerdict, TerminateSteps
  <2>2. UNCHANGED <<activeSession, activePackage>> /\ Phase' = "UserTermination"
    BY <2>1 DEF Verdict, Phase
  <2>3. records' = records \/ records' = records \union {Row("UserTermination")}
    BY <2>1, Recording
  <2>4. Phase \in {"starting", "playing"}
    BY <2>1 DEF Outcome, Phase, Layers, TerminateSteps
  <2> QED
    BY <2>2, <2>3, <2>4, Ends DEF Verdicts
<1>15. CASE StampReady
  BY <1>15, Stutters DEF StampReady, PhaseKept, Phase
<1>16. CASE OutcomeReady
  <2>1. CASE outcome = "Starting"
    <3>1. ui # "launch_outcome"
      BY <2>1 DEF Outcome
    <3> QED
      BY <1>16, <2>1, <3>1, BecomesPlayable DEF OutcomeReady, AfterReady, Phase
  <2>2. CASE outcome # "Starting"
    BY <1>16, <2>2, Stutters DEF OutcomeReady, AfterReady, PhaseKept, Phase
  <2> QED
    BY <2>1, <2>2
<1>17. CASE SaveWrite
  BY <1>17, Stutters DEF SaveWrite, Bound, PhaseKept, Phase
<1>18. CASE ReceiveReady
  BY <1>18, Stutters DEF ReceiveReady, TakesMessage, PhaseKept, Phase
<1>19. CASE Heartbeat
  BY <1>19, Stutters DEF Heartbeat, TakesMessage, PhaseKept, Phase
<1>20. CASE GameEnds
  BY <1>20, Stutters DEF GameEnds, PhaseKept, Phase
<1>21. CASE ReceiveWrite
  BY <1>21, Stutters DEF ReceiveWrite, TakesMessage, PhaseKept, Phase
<1>22. CASE DeadlinePasses
  BY <1>22, Stutters DEF DeadlinePasses, PhaseKept, Phase
<1>23. CASE SilencePasses
  BY <1>23, Stutters DEF SilencePasses, PhaseKept, Phase
<1>24. ASSUME NEW p \in Packages, LaunchStarts(p) PROVE [Promise!Next]_Promise!vars
  BY <1>24, Stutters DEF LaunchStarts, PhaseKept, Phase
<1>25. CASE UNCHANGED vars
  BY <1>25, Stutters DEF vars, PhaseKept, Phase
<1>26. CASE CaptureDiagnosticDump
  BY <1>26, Stutters DEF CaptureDiagnosticDump, StopIpc, PhaseKept, Phase
<1> QED
  BY <1>1, <1>2, <1>3, <1>4, <1>5, <1>6, <1>7, <1>8, <1>9, <1>10, <1>11, <1>12, <1>13, <1>14, <1>15, <1>16, <1>17, <1>18, <1>19, <1>20, <1>21, <1>22, <1>23, <1>24, <1>25, <1>26
     DEF Next, Launch, Poll, PollContinues, PipeThread, Game, Clock

\* The shell sees the sessions that GameSession promises, whatever the game, its pipe and the
\* stores do: one at a time, one verdict each, and at most one row, written with the verdict.
THEOREM Refinement == Spec => KeepsPromise
<1>1. Init => Promise!Init
  BY DEF Init, Promise!Init
<1>2. IInv /\ [Next]_vars => [Promise!Next]_Promise!vars
  BY PromiseStep, Kinds DEF IInv
<1> QED
  BY <1>1, <1>2, Inductive, PTL DEF Spec, KeepsPromise, Promise!Spec
=============================================================================
