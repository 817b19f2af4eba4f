-------------------------- MODULE PlatformStores --------------------------
(***************************************************************************)
(* What the console keeps of one game: its sessions and their totals, its  *)
(* Resume, its achievements.  Each is kept in tables of the database       *)
(* (src/src/PlatformDatabase*.cpp) and again in a mirror file, which       *)
(* answers a query that the tables do not (PlatformStateStore.cpp,         *)
(* ResumeStore.cpp, AchievementStore.cpp).                                 *)
(*                                                                         *)
(* A table is written first, in one transaction, its mirror second; either *)
(* may fail, and the console may die between them.  That a file was not    *)
(* written whole is not noticed.  The operations come one at a time: those *)
(* of a session on its pipe thread, the record of the session when that    *)
(* thread has ended.                                                       *)
(*                                                                         *)
(* Left out: titles and times of unlocking, the parts of a Resume, exit    *)
(* codes, and the row of the game itself, without which no session starts. *)
(***************************************************************************)
EXTENDS Naturals, FiniteSets

CONSTANTS Activities, Achievements, None, MaxSessions, MaxPlaytime

\* What is required of the constants; the runs assume it.
StoresConstantsOK == MaxSessions \in Nat /\ MaxPlaytime \in Nat /\ None \notin Activities

VARIABLES
    playing,        \* a session runs
    writing,        \* the operation under way, <<"idle">> when there is none
    session,        \* sessions begun so far
    \* the tables
    sessions, stats, resume, achievements,
    \* the mirrors
    stateMirror, resumeMirror, achievementMirror,
    spoiled,        \* history: the achievements whose line in the mirror was cut
    possible,       \* history: what may be the Resume of the game
    shownBefore,    \* history: the Resume shown when the last Save or Clear began
    answer,         \* history: what that Save or Clear returned, "none" before it does
    unlocked        \* history: the achievements whose unlocking was confirmed

tables == <<sessions, stats, resume, achievements>>
mirrors == <<stateMirror, resumeMirror, achievementMirror>>
resumeHistory == <<possible, shownBefore, answer>>
history == <<spoiled, resumeHistory, unlocked>>
storesVars == <<playing, writing, session, tables, mirrors, history>>

Totals == [time : Nat, launches : Nat, last : Nat]
Nothing == [time |-> 0, launches |-> 0, last |-> 0]
Plus(totals, s, playtime) ==
    [time |-> totals.time + playtime, launches |-> totals.launches + 1, last |-> s]

Idle == <<"idle">>
CutResume == <<"cut">>  \* a Resume mirror that ends early

StoresInit ==
    /\ playing = FALSE /\ writing = Idle /\ session = 0
    /\ sessions = {} /\ stats = {} /\ resume = None /\ achievements = {}
    /\ stateMirror = {} /\ resumeMirror = None /\ achievementMirror = {}
    /\ spoiled = {} /\ possible = {None} /\ shownBefore = None /\ answer = "none" /\ unlocked = {}

-----------------------------------------------------------------------------
(* A query reads the tables, and the mirror when they hold nothing or      *)
(* cannot be read.                                                         *)

\* A table that cannot be read, in any of its rows, answers as if it were empty.
TableState(read) == IF read THEN stats ELSE {}
TableResume(read) == IF read THEN resume ELSE None
TableAchievements(read) == IF read THEN achievements ELSE {}

MirrorState == IF stateMirror # {} THEN stateMirror ELSE {Nothing}

LoadState(read) == IF TableState(read) # {} THEN TableState(read) ELSE MirrorState
LoadResume(read) == IF TableResume(read) # None THEN TableResume(read) ELSE resumeMirror
LoadAchievements(read) ==
    IF TableAchievements(read) # {} THEN TableAchievements(read) ELSE achievementMirror

-----------------------------------------------------------------------------
(* The files.                                                              *)

\* Written aside and renamed.  If that fails the old file is removed and the renaming
\* tried again, so that a failure may leave either the old file or none.
Rewritten(old, new, cut, none) ==
    {<<new, TRUE>>, <<old, FALSE>>, <<none, FALSE>>} \union (cut \X {TRUE})

\* The lines of a state mirror that ends early; what is missing is read as zero.
CutState(t) == {{Nothing}, {[Nothing EXCEPT !.time = t.time]}, {[t EXCEPT !.last = 0]}}

-----------------------------------------------------------------------------
(* A session and its record.                                               *)

Launch ==
    /\ ~playing /\ writing = Idle /\ session < MaxSessions
    /\ playing' = TRUE /\ session' = session + 1
    /\ UNCHANGED <<writing, tables, mirrors, history>>

\* The pipe thread has ended; a record that fails is not tried again.
FinalizePersistence ==
    /\ playing /\ writing = Idle
    /\ playing' = FALSE
    /\ \E playtime \in 0..MaxPlaytime : writing' = <<"record", playtime>>
    /\ UNCHANGED <<session, tables, mirrors, history>>

\* A record that fails ends there; a mutant goes on to the mirror.
RecordedAnyway(playtime) == <<"mirror", playtime>>
AfterFailedRecord(playtime) == Idle

\* One transaction: the session, and the totals if the session was new.
RecordSession ==
    /\ writing[1] = "record"
    /\ \/ /\ sessions' = sessions \union {session}
          /\ stats' = IF session \in sessions THEN stats
                      ELSE {Plus(IF stats = {} THEN Nothing ELSE CHOOSE t \in stats : TRUE,
                                 session, writing[2])}
          /\ writing' = <<"mirror", writing[2]>>
       \/ writing' = AfterFailedRecord(writing[2]) /\ UNCHANGED <<sessions, stats>>
    /\ UNCHANGED <<playing, session, resume, achievements, mirrors, history>>

\* The file is replaced, not appended to.
WithReplaced(old, new) == {new}

\* The mirror adds the session to what it holds, whatever the tables hold.
RecordInMirror ==
    /\ writing[1] = "mirror"
    /\ \E old \in IF stateMirror = {} THEN {Nothing} ELSE stateMirror :
         LET new == Plus(old, session, writing[2]) IN
         \E r \in Rewritten(stateMirror, WithReplaced(stateMirror, new), CutState(new), {}) :
           stateMirror' = r[1]
    /\ writing' = Idle
    /\ UNCHANGED <<playing, session, tables, resumeMirror, achievementMirror, history>>

-----------------------------------------------------------------------------
(* Resume.                                                                 *)

\* The answer to the caller; a true one leaves a single Resume.
Answer(ok, value) ==
    /\ writing' = Idle
    /\ answer' = IF ok THEN "true" ELSE "false"
    /\ possible' = IF ok THEN {value} ELSE possible \union {value}

\* A game saves or clears its Resume: the table first.
SaveResume(a) ==
    /\ playing /\ writing = Idle
    /\ shownBefore' = LoadResume(TRUE)
    /\ \/ /\ resume' = a /\ writing' = <<"resumeMirror", a>>
          /\ possible' = possible \union {a} /\ answer' = "none"
       \/ Answer(FALSE, a) /\ UNCHANGED resume
    /\ UNCHANGED <<playing, session, sessions, stats, achievements, mirrors, spoiled, unlocked>>

SaveResumeMirror ==
    /\ writing[1] = "resumeMirror"
    /\ \E r \in Rewritten(resumeMirror, writing[2], {CutResume}, None) :
         resumeMirror' = r[1] /\ Answer(r[2], writing[2])
    /\ UNCHANGED <<playing, session, tables, stateMirror, achievementMirror, spoiled, shownBefore, unlocked>>

\* Offered to the holder of a session's grant; nothing in the shell calls it yet.
ClearResume ==
    /\ playing /\ writing = Idle
    /\ shownBefore' = LoadResume(TRUE)
    /\ \/ /\ resume' = None /\ writing' = <<"clearMirror">>
          /\ possible' = possible \union {None} /\ answer' = "none"
       \/ Answer(FALSE, None) /\ UNCHANGED resume
    /\ UNCHANGED <<playing, session, sessions, stats, achievements, mirrors, spoiled, unlocked>>

\* A mutant does not look at the error code.
RemovedOrNot(old) == {<<None, TRUE>>, <<old, TRUE>>}
Removed(old) == {<<None, TRUE>>, <<old, FALSE>>}

ClearResumeMirror ==
    /\ writing[1] = "clearMirror"
    /\ \E r \in Removed(resumeMirror) :
         resumeMirror' = r[1] /\ Answer(r[2], None)
    /\ UNCHANGED <<playing, session, tables, stateMirror, achievementMirror, spoiled, shownBefore, unlocked>>

-----------------------------------------------------------------------------
(* Achievements.                                                           *)

\* A table that refuses the row refuses the unlocking.
Refused(a) == Idle

\* INSERT OR IGNORE.
UpsertAchievement(a) == achievements' = achievements \union {a}

\* An achievement that the mirror already names goes to the table only.
Unlock(a) ==
    /\ playing /\ writing = Idle
    /\ \/ /\ UpsertAchievement(a)
          /\ writing' = IF a \in achievementMirror THEN Idle ELSE <<"append", a>>
          /\ unlocked' = IF a \in achievementMirror THEN unlocked \union {a} ELSE unlocked
       \/ writing' = Refused(a) /\ UNCHANGED <<achievements, unlocked>>
    /\ UNCHANGED <<playing, session, sessions, stats, resume, mirrors, spoiled, resumeHistory>>

\* A line that is cut runs into the next one: either achievement may be read there, or neither.
AppendToMirror ==
    /\ writing[1] = "append"
    /\ writing' = Idle
    /\ \/ /\ unlocked' = unlocked \union {writing[2]}
          /\ \/ spoiled = {} /\ achievementMirror' = achievementMirror \union {writing[2]}
             \/ /\ spoiled # {}
                /\ \E read \in SUBSET (spoiled \union {writing[2]}) :
                     achievementMirror' = achievementMirror \union read
          /\ UNCHANGED spoiled
       \/ /\ unlocked' = unlocked \union {writing[2]} /\ spoiled' = spoiled \union {writing[2]}
          /\ UNCHANGED achievementMirror
       \/ UNCHANGED <<achievementMirror, unlocked, spoiled>>
    /\ UNCHANGED <<playing, session, tables, stateMirror, resumeMirror, resumeHistory>>

StoresEnd ==
    /\ playing \/ writing # Idle
    /\ playing' = FALSE /\ writing' = Idle /\ answer' = "none"
    /\ UNCHANGED <<session, tables, mirrors, spoiled, possible, shownBefore, unlocked>>

StoresNext ==
    \/ Launch \/ FinalizePersistence \/ RecordSession \/ RecordInMirror
    \/ \E a \in Activities : SaveResume(a)
    \/ SaveResumeMirror \/ ClearResume \/ ClearResumeMirror
    \/ \E a \in Achievements : Unlock(a)
    \/ AppendToMirror \/ StoresEnd

StoresSpec == StoresInit /\ [][StoresNext]_storesVars

-----------------------------------------------------------------------------
Resumes == Activities \union {None}

StoresTypeOK ==
    /\ playing \in BOOLEAN /\ session \in 0..MaxSessions
    /\ writing \in {Idle, <<"clearMirror">>} \union ({"record", "mirror"} \X (0..MaxPlaytime))
            \union ({"resumeMirror"} \X Activities) \union ({"append"} \X Achievements)
    /\ sessions \subseteq 1..MaxSessions /\ resume \in Resumes
    /\ stats \subseteq Totals /\ Cardinality(stats) <= 1
    /\ stateMirror \subseteq Totals /\ Cardinality(stateMirror) <= 1
    /\ resumeMirror \in Resumes \union {CutResume}
    /\ achievements \subseteq Achievements /\ achievementMirror \subseteq Achievements
    /\ spoiled \subseteq Achievements /\ unlocked \subseteq Achievements
    /\ possible \subseteq Resumes /\ shownBefore \in Resumes \union {CutResume}
    /\ answer \in {"none", "true", "false"}

\* The playtime shown never tells of a session that the tables do not have, whatever
\* failed and was repeated: the mirror, which stands in when the database cannot be read
\* and adds up totals of its own, may be behind, never ahead (RecordSession of the tables
\* before that of the file; ProductionRuntime::PlatformState).
MirrorIsNotAhead ==
    \A read \in BOOLEAN : \A shown \in LoadState(read) : shown # Nothing =>
        \E t \in stats :
            shown.time <= t.time /\ shown.launches <= t.launches /\ shown.last <= t.last

\* Between operations the Resume shown is one that a game saved, or none after
\* a clearing, and after an operation that returned true it is that one, though
\* the table and the file are written apart and a file left behind answers
\* for an empty table (ResumeStore::Save, Clear, Load).  Read from the file
\* alone it may be cut, or be gone.
ResumeIsKept ==
    writing = Idle =>
        /\ LoadResume(TRUE) \in possible \union {CutResume}
        /\ LoadResume(FALSE) \in possible \union {CutResume, None}
        /\ answer = "true" => LoadResume(TRUE) \in possible

\* An achievement whose unlocking was confirmed is shown ever after, also from
\* the file when the tables cannot be read, unless a line of it was cut
\* (AchievementStore::Unlock, ProductionRuntime::Achievements).
UnlockIsKept ==
    /\ unlocked \subseteq LoadAchievements(TRUE)
    /\ spoiled # {} \/ unlocked \subseteq LoadAchievements(FALSE)

\* What a game was told is kept is shown to the player.
GameRecordsAreKept == ResumeIsKept /\ UnlockIsKept

\* Persistence "use[s] atomic/rollback behavior": a Save or Clear that is
\* refused has changed nothing.  The code writes the table and does not take
\* it back when the file fails.
RefusalChangesNothing ==
    playing /\ writing = Idle /\ answer = "false" => LoadResume(TRUE) = shownBefore

=============================================================================
