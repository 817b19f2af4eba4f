------------------------ MODULE RuntimeSessionProofs ------------------------
(* The supervisor's safety properties for every bound on the launches.     *)
EXTENDS RuntimeSession, TLAPS

\* Which handles and which process each point of the launch ladder holds.
Ladder ==
    /\ step # "rest" => state = "Launching" /\ ~child
    /\ step \in {"storage", "job", "process", "assign"} => ~contained
    /\ step \in {"storage", "job"} => main = "none" /\ handles = {}
    /\ step = "process" => main = "none" /\ handles = {"job"}
    /\ step = "assign" => main = "suspended" /\ handles = Handles
    /\ step = "resume" => main = "suspended" /\ contained /\ handles = Handles
    /\ step = "rest" /\ state = "Launching" =>
            main = "suspended" /\ contained /\ ~child /\ handles = Handles
    /\ state = "Running" =>
            main \in {"running", "exited", "crashed"} /\ contained /\ handles = {"job", "process"}
    /\ step = "rest" /\ ~IsActive =>
            ~Alive /\ ~child /\ handles = {}

\* What a dead console leaves: at most the process it had not assigned yet.
Ended == ~child /\ (Alive => main = "suspended" /\ step = "assign" /\ ~contained)

\* The inductive strengthening: the ladder while the console lives, what is
\* left of the game afterwards.
IInv ==
    /\ TypeOK
    /\ ~orphan
    /\ Containment
    /\ console => Ladder
    /\ ~console => Ended

LEMMA InitIInv == Init => IInv
<1> SUFFICES ASSUME Init PROVE IInv
  OBVIOUS
<1>1. TypeOK
  <2>1. launches \in 0 .. MaxLaunches
    BY MaxLaunchesAssumption DEF MaxLaunchesAssumption, Init
  <2> QED
    BY <2>1 DEF Init, TypeOK, States, Steps, Phases, Lives, Handles
<1>2. Ladder
  BY DEF Init, Ladder, IsActive, Alive
<1> QED
  BY <1>1, <1>2 DEF Init, IInv, Containment

\* The launch ladder, one step per action.
LEMMA LaunchIInv == IInv /\ (Prepare \/ Launch) => IInv'
<1> SUFFICES ASSUME IInv, Prepare \/ Launch PROVE IInv'
  OBVIOUS
<1> USE MaxLaunchesAssumption
    DEF MaxLaunchesAssumption, IInv, TypeOK, Ladder, Ended, Containment, IsActive, Alive,
        States, Steps, Phases, Lives, Handles, InJob, Abandon, CloseHandles
<1>1. CASE BeginPrepare
  <2>1. ~Alive /\ ~child /\ handles = {} /\ console
    BY <1>1 DEF BeginPrepare, AtRest
  <2>2. orphan' = FALSE
    BY <1>1, <2>1 DEF BeginPrepare
  <2>3. launches' \in 0 .. MaxLaunches
    BY <1>1 DEF BeginPrepare
  <2>4. Ladder'
    BY <1>1 DEF BeginPrepare
  <2> QED
    BY <1>1, <2>1, <2>2, <2>3, <2>4 DEF BeginPrepare
<1>2. CASE PrepareStorage
  BY <1>2 DEF PrepareStorage, tree
<1>3. CASE CreateContainmentJob
  BY <1>3 DEF CreateContainmentJob, WriteRecord, tree
<1>4. CASE CreateSuspended
  BY <1>4 DEF CreateSuspended, FirstLife, WriteRecord, ResetHandles, KillTree
<1>5. CASE AssignToJob
  <2>1. handles = Handles /\ main = "suspended" /\ state = "Launching" /\ ~child
    BY <1>5 DEF AssignToJob
  <2>2. CASE contained' = TRUE /\ UNCHANGED <<state, handles, main, child, orphan>>
    <3>1. step' = "rest" /\ record' \in Phases
      BY <1>5, <2>2 DEF AssignToJob, NotContained, WriteRecord
    <3> QED
      BY <1>5, <2>1, <2>2, <3>1 DEF AssignToJob
  <2>3. CASE NotContained
    BY <1>5, <2>1, <2>3 DEF AssignToJob, NotContained, WriteRecord, KillMain
  <2> QED
    BY <1>5, <2>2, <2>3 DEF AssignToJob
<1>6. CASE ContainLaunched
  <2>1. handles = Handles /\ main = "suspended" /\ state = "Launching" /\ ~child
    BY <1>6 DEF ContainLaunched
  <2>2. CASE contained' = TRUE /\ step' = "resume" /\ UNCHANGED <<state, handles, record, main, child, orphan>>
    BY <1>6, <2>1, <2>2 DEF ContainLaunched
  <2>3. CASE NotContained
    BY <1>6, <2>1, <2>3 DEF ContainLaunched, NotContained, WriteRecord, KillMain
  <2> QED
    BY <1>6, <2>2, <2>3 DEF ContainLaunched
<1>7. CASE ResumeLaunched
  <2>1. handles = Handles /\ main = "suspended" /\ contained /\ ~child /\ console /\ ~orphan
    BY <1>7 DEF ResumeLaunched
  <2>2. record' \in Phases /\ step' = "rest" /\ UNCHANGED <<launches, console, contained, orphan>>
    BY <1>7 DEF ResumeLaunched, WriteRecord
  <2>3. CASE main' = "running" /\ handles' = handles \ {"thread"} /\ state' = "Running" /\ UNCHANGED child
    <3>1. handles' = {"job", "process"}
      BY <2>1, <2>3
    <3> QED
      BY <2>1, <2>2, <2>3, <3>1
  <2>4. CASE Abandon /\ KillTree /\ handles' = {}
    BY <2>1, <2>2, <2>4 DEF KillTree
  <2> QED
    BY <1>7, <2>3, <2>4 DEF ResumeLaunched
<1> QED
  BY <1>1, <1>2, <1>3, <1>4, <1>5, <1>6, <1>7 DEF Prepare, Launch, Rungs

\* The operations on a prepared or running session.
LEMMA OperateIInv == IInv /\ Operate => IInv'
<1> SUFFICES ASSUME IInv, Operate PROVE IInv'
  OBVIOUS
<1> USE DEF IInv, TypeOK, Ladder, Ended, Containment, IsActive, Alive, States, Steps, Phases,
            Lives, Handles, InJob, AtRest, IsPrepared, WriteRecord, FinalPhase,
            CloseHandles, KillTree, KillMain
<1>1. CASE FailPrepared
  <2>1. console /\ step = "rest" /\ main = "suspended" /\ contained /\ ~child /\ ~orphan
    BY <1>1 DEF FailPrepared
  <2>2. main' = "killed" /\ child' = FALSE
    BY <1>1, <2>1 DEF FailPrepared
  <2> QED
    BY <1>1, <2>1, <2>2 DEF FailPrepared
<1>2. CASE ResumePrepared
  <2>1. handles = Handles /\ main = "suspended" /\ contained
    BY <1>2 DEF ResumePrepared
  <2>2. handles' = {"job", "process"} /\ main' = "running"
    BY <1>2, <2>1 DEF ResumePrepared
  <2>3. TypeOK'
    BY <1>2, <2>2 DEF ResumePrepared
  <2>4. Ladder'
    BY <1>2, <2>1, <2>2 DEF ResumePrepared
  <2> QED
    BY <1>2, <2>1, <2>2, <2>3, <2>4 DEF ResumePrepared
<1>3. CASE Poll
  <2>1. console /\ step = "rest" /\ contained /\ "job" \in handles /\ ~orphan
    BY <1>3 DEF Poll
  <2>2. state' \in {"Exited", "Crashed"} /\ handles' = {}
        /\ UNCHANGED <<step, launches, console, contained, orphan>>
    BY <1>3 DEF Poll, Finalize
  <2>3. record' \in Phases
    BY <1>3 DEF Poll, Finalize
  <2>4. main' \in {"exited", "crashed", "killed"} /\ child' = FALSE
    BY <1>3, <2>1 DEF Poll
  <2> QED
    BY <2>1, <2>2, <2>3, <2>4
<1>4. CASE Terminate
  <2>1. console /\ step = "rest" /\ contained /\ "job" \in handles /\ ~orphan
    BY <1>4 DEF Terminate
  <2>2. state' = "Exited" /\ handles' = {} /\ UNCHANGED <<step, launches, console, contained, orphan>>
    BY <1>4 DEF Terminate, Finalize
  <2>3. record' \in Phases
    BY <1>4 DEF Terminate, Finalize
  <2>4. main' \in {"none", "exited", "crashed", "killed"} /\ child' = FALSE
    BY <1>4, <2>1 DEF Terminate
  <2> QED
    BY <2>1, <2>2, <2>3, <2>4
<1> QED
  BY <1>1, <1>2, <1>3, <1>4 DEF Operate

\* What the game and the machine do on their own.
LEMMA EnvironmentIInv == IInv /\ Environment => IInv'
<1> SUFFICES ASSUME IInv, Environment PROVE IInv'
  OBVIOUS
<1> USE DEF IInv, TypeOK, Ladder, Ended, Containment, IsActive, Alive, States, Steps, Phases,
            Lives, Handles, InJob, session, CloseHandles
<1>1. CASE GameEnds
  BY <1>1 DEF GameEnds
<1>2. CASE GameSpawnsChild
  BY <1>2 DEF GameSpawnsChild
<1>3. CASE ChildEnds
  BY <1>3 DEF ChildEnds
<1>4. CASE ConsoleDies
  BY <1>4 DEF ConsoleDies, ResetHandles, KillTree
<1> QED
  BY <1>1, <1>2, <1>3, <1>4 DEF Environment

LEMMA StutterIInv == IInv /\ UNCHANGED vars => IInv'
  BY DEF IInv, TypeOK, Ladder, Ended, Containment, IsActive, Alive, States, Steps, Phases,
         Lives, Handles, vars, session, tree

LEMMA Inductive == Spec => []IInv
<1>1. IInv /\ [Next]_vars => IInv'
  BY LaunchIInv, OperateIInv, EnvironmentIInv, StutterIInv DEF Next
<1> QED
  BY InitIInv, <1>1, PTL DEF Spec

\* Every variable keeps its kind, for every bound on the launches.
THEOREM TypeCorrect == Spec => []TypeOK
  BY Inductive, PTL DEF IInv

\* No game code ever runs outside the Job Object.
THEOREM GameIsContained == Spec => []Containment
  BY Inductive, PTL DEF IInv

\* A session that is over leaves nothing of its game alive.
THEOREM SessionLeavesNoOrphans == Spec => []NoOrphans
<1>1. IInv => NoOrphans
  BY DEF IInv, NoOrphans, AtRest, Ladder
<1> QED
  BY <1>1, Inductive, PTL

\* The death of the console ends the game; only a process that was not assigned
\* to the job yet survives, suspended.
THEOREM ConsoleDeathEndsGame == Spec => []GameDiesWithConsole
<1>1. IInv => GameDiesWithConsole
  BY DEF IInv, GameDiesWithConsole, Ended
<1> QED
  BY <1>1, Inductive, PTL

\* A session that is over holds no handle.
THEOREM EndedSessionHoldsNoHandle == Spec => []HandlesReleased
<1>1. IInv => HandlesReleased
  BY DEF IInv, HandlesReleased, AtRest, Ladder
<1> QED
  BY <1>1, Inductive, PTL

\* Neither processes nor handles outlive a session, but for that one process.
THEOREM SessionLeavesNothing == Spec => []NothingIsLeft
  BY SessionLeavesNoOrphans, ConsoleDeathEndsGame, EndedSessionHoldsNoHandle, PTL DEF NothingIsLeft

-----------------------------------------------------------------------------
(* The record file.  A final phase is on disk only once the launch is over. *)

RecordInv == record \in FinalPhases => step = "rest" /\ ~IsActive

LEMMA RecordInductive == RecordInv /\ [Next]_vars => RecordInv'
<1> SUFFICES ASSUME RecordInv, [Next]_vars PROVE RecordInv'
  OBVIOUS
<1> USE DEF RecordInv, FinalPhases, IsActive
<1>1. CASE Prepare \/ Launch
  BY <1>1 DEF Prepare, Launch, Rungs, BeginPrepare, PrepareStorage, CreateContainmentJob, CreateSuspended,
              AssignToJob, ContainLaunched, NotContained, ResumeLaunched, Abandon, WriteRecord, AtRest
<1>2. CASE Operate
  BY <1>2 DEF Operate, FailPrepared, ResumePrepared, Poll, Terminate, Finalize, FinalPhase, WriteRecord,
              AtRest, IsPrepared
<1>3. CASE Environment
  BY <1>3 DEF Environment, GameEnds, GameSpawnsChild, ChildEnds, ConsoleDies, session
<1>4. CASE UNCHANGED vars
  BY <1>4 DEF vars, session
<1> QED
  BY <1>1, <1>2, <1>3, <1>4 DEF Next

\* A final verdict on disk is never replaced within its launch.
THEOREM FinalRecordIsFinal == Spec => FinalRecordSticks
<1>1. Init => RecordInv
  BY DEF Init, RecordInv, FinalPhases
<1>2. TypeOK /\ RecordInv /\ [Next]_vars =>
        [(record \in FinalPhases /\ launches' = launches) => record' = record]_vars
  <2> SUFFICES ASSUME TypeOK, RecordInv, [Next]_vars, record \in FinalPhases, launches' = launches
               PROVE  record' = record
    OBVIOUS
  <2>1. step = "rest" /\ ~IsActive
    BY DEF RecordInv
  <2>2. CASE Prepare \/ Launch
    <3>1. CASE BeginPrepare
      BY <3>1 DEF BeginPrepare, TypeOK
    <3> QED
      BY <2>1, <2>2, <3>1 DEF Prepare, Launch, Rungs, PrepareStorage, CreateContainmentJob,
                                 CreateSuspended, AssignToJob, ContainLaunched, ResumeLaunched
  <2>3. CASE Operate
    BY <2>1, <2>3 DEF Operate, FailPrepared, ResumePrepared, Poll, Terminate, IsPrepared, IsActive
  <2>4. CASE Environment
    BY <2>4 DEF Environment, GameEnds, GameSpawnsChild, ChildEnds, ConsoleDies, session
  <2> QED
    BY <2>2, <2>3, <2>4 DEF Next, vars, session
<1> QED
  BY <1>1, <1>2, RecordInductive, TypeCorrect, PTL DEF Spec, FinalRecordSticks
=============================================================================
