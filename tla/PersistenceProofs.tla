------------------------- MODULE PersistenceProofs -------------------------
(***************************************************************************)
(* Proofs about what the console keeps on disk: the installed game         *)
(* (GameImport), the records of a game (PlatformStores), the identity      *)
(* (LocalIdentity), the setup and the settings (PlayerSettings), and their *)
(* composition (Persistence), for any set of values and any bounds.  Each  *)
(* part has its inductive invariant, of which its properties are read off. *)
(***************************************************************************)
EXTENDS Persistence, FiniteSetTheorems, TLAPS

-----------------------------------------------------------------------------
(* The installed game: for each place of an operation, where the game that *)
(* was there before it now is.                                             *)

\* Before SetAside the installed directory is the one the operation found.
Untouched == {"clean", "copy", "check", "seal", "drop", "decide", "finalize", "prepare",
   "clear",
              "setaside"}
UntouchedIsBefore == pc \in Untouched => installed = before

\* A new game had no predecessor.
NewHasNoPredecessor == pc \in {"finalize", "verifynew", "removenew"} => before = NoDirectory

\* From SetAside to the end of the replacement the old game is the rollback copy.
BackupIsBefore == pc \in {"activate", "rollback", "verify", "removebad", "restore"} =>
   backup = before

\* A rollback put it back or left it in the rollback storage.
RolledBack ==
    /\ pc \in {"activate", "rollback"} => ~Exists(installed)
    /\ pc = "discard" =>
         \/ installed = before /\ ~Exists(backup)
         \/ ~Exists(installed) /\ backup = before

\* The rollback copy is only forgotten for a verified replacement.
ForgottenForWhole == pc = "forget" => installed.is = "sealed"

\* What is renamed into the library is a copy of the requested version.
StagedIsRequested ==
    pc \in {"check", "seal", "decide", "finalize", "prepare", "clear", "setaside",
       "activate"} =>
        staging.version = op.version
PlacedIsRequested ==
    pc \in {"verifynew", "verify", "forget", "recheck"} => installed.version = op.version

\* Only a finished operation has told its caller something, only a successful one is
\* looked at once more, and only that look makes it Ready.
OutcomeIsOver ==
    /\ outcome # "none" => pc \in {"idle", "recheck"}
    /\ pc = "recheck" => outcome = "success"
StageIsOver == stage = "Ready" => pc = "idle" /\ outcome = "success"

WhereTheGameIs ==
    /\ UntouchedIsBefore /\ NewHasNoPredecessor /\ BackupIsBefore /\ RolledBack
    /\ ForgottenForWhole /\ RollbackIsPossible
WhatIsTold ==
    /\ StagedIsRequested /\ PlacedIsRequested /\ OutcomeIsOver /\ StageIsOver
    /\ SuccessIsVerified /\ FailureLeavesTheGame /\ FailureKeepsTheGame
ImportInv == ImportTypeOK /\ WhereTheGameIs /\ WhatIsTold
-----------------------------------------------------------------------------
\* Every step of every operation, a failure, damage or the death of the console keeps the
\* invariant.
LEMMA NextKeepsImportInv == ImportInv /\ [ImportNext]_importVars => ImportInv'
<1> SUFFICES ASSUME ImportInv, [ImportNext]_importVars PROVE ImportInv'
  OBVIOUS
<1> USE DEF WhereTheGameIs, UntouchedIsBefore, NewHasNoPredecessor, BackupIsBefore,
   RolledBack, ForgottenForWhole, RollbackIsPossible
<1> USE DEF WhatIsTold, StagedIsRequested, PlacedIsRequested, OutcomeIsOver, StageIsOver,
   SuccessIsVerified, FailureLeavesTheGame, FailureKeepsTheGame, Exists
<1>1. CASE Refuse
  <2>1. ImportTypeOK'
    BY <1>1 DEF ImportInv, Refuse, directories, ImportTypeOK, Stages, Outcomes
  <2>2. WhereTheGameIs'
    BY <1>1 DEF Refuse, directories
  <2>3. WhatIsTold'
    BY <1>1 DEF Refuse, directories
  <2> QED BY <2>1, <2>2, <2>3 DEF ImportInv
<1>2. CASE Begin
  <2>1. ImportTypeOK'
    BY <1>2 DEF ImportInv, Begin, Goto, directories, ImportTypeOK, Stages, Outcomes, Places
  <2>2. WhereTheGameIs'
    BY <1>2 DEF Begin, Goto, directories
  <2>3. WhatIsTold'
    BY <1>2 DEF Begin, Goto
  <2> QED BY <2>1, <2>2, <2>3 DEF ImportInv
<1>3. CASE CleanStaging
  <2>1. ImportTypeOK'
    BY <1>3 DEF ImportInv, CleanStaging, Goto, Become, EndWith, Removals, ImportTypeOK, Directory,
       Conditions, Outcomes, Places
  <2>2. WhereTheGameIs'
    BY <1>3 DEF ImportInv, CleanStaging, Goto, EndWith, Untouched
  <2>3. WhatIsTold'
    BY <1>3 DEF ImportInv, CleanStaging, Goto, EndWith, Untouched
  <2> QED BY <2>1, <2>2, <2>3 DEF ImportInv
<1>4. CASE CopySource
  <2>1. ImportTypeOK'
    BY <1>4 DEF ImportInv, CopySource, Goto, Copies, ImportTypeOK, Directory, Conditions, Operations,
       Places
  <2>2. WhereTheGameIs'
    BY <1>4 DEF ImportInv, CopySource, Goto, Untouched
  <2>3. WhatIsTold'
    BY <1>4 DEF ImportInv, CopySource, Goto, Copies
  <2> QED BY <2>1, <2>2, <2>3 DEF ImportInv
<1>5. CASE CheckStaging
  <2>1. ImportTypeOK'
    BY <1>5 DEF ImportInv, CheckStaging, Goto, directories, ImportTypeOK, Places
  <2>2. WhereTheGameIs'
    BY <1>5 DEF ImportInv, CheckStaging, Goto, directories, Untouched
  <2>3. WhatIsTold'
    BY <1>5 DEF ImportInv, CheckStaging, Goto, directories
  <2> QED BY <2>1, <2>2, <2>3 DEF ImportInv
<1>6. CASE SealStaging
  <2>1. ImportTypeOK'
    BY <1>6 DEF ImportInv, SealStaging, Goto, Become, Sealed, ImportTypeOK, Directory, NoDirectory,
       Conditions, Operations, Places
  <2>2. WhereTheGameIs'
    BY <1>6 DEF ImportInv, SealStaging, Goto, Untouched
  <2>3. WhatIsTold'
    BY <1>6 DEF ImportInv, SealStaging, Goto, Become, Sealed, ImportTypeOK, Directory, NoDirectory
  <2> QED BY <2>1, <2>2, <2>3 DEF ImportInv
<1>7. CASE DropStaging
  <2>1. ImportTypeOK'
    BY <1>7 DEF ImportInv, DropStaging, Goto, Become, EndWith, Removals, ImportTypeOK, Directory,
       Conditions, Outcomes, Places
  <2>2. WhereTheGameIs'
    BY <1>7 DEF ImportInv, DropStaging, Goto, EndWith, Untouched
  <2>3. WhatIsTold'
    BY <1>7 DEF ImportInv, DropStaging, Goto, EndWith, Untouched
  <2> QED BY <2>1, <2>2, <2>3 DEF ImportInv
<1>8. CASE Decide
  <2>1. ImportTypeOK'
    BY <1>8 DEF ImportInv, Decide, Goto, directories, ImportTypeOK, Places
  <2>2. WhereTheGameIs'
    BY <1>8 DEF ImportInv, Decide, Goto, directories, Exists, Untouched
  <2>3. WhatIsTold'
    BY <1>8 DEF ImportInv, Decide, Goto, directories
  <2> QED BY <2>1, <2>2, <2>3 DEF ImportInv
<1>9. CASE Finalize
  <2>1. ImportTypeOK'
    BY <1>9 DEF ImportInv, Finalize, Goto, ImportTypeOK, Places
  <2>2. WhereTheGameIs'
    BY <1>9 DEF ImportInv, Finalize, Goto, Untouched, NoDirectory
  <2>3. WhatIsTold'
    BY <1>9 DEF ImportInv, Finalize, Goto
  <2> QED BY <2>1, <2>2, <2>3 DEF ImportInv
<1>10. CASE VerifyNew
  <2>1. ImportTypeOK'
    BY <1>10 DEF ImportInv, VerifyNew, Goto, directories, EndWith, ImportTypeOK, Stages, Outcomes,
       Places
  <2>2. WhereTheGameIs'
    BY <1>10 DEF ImportInv, VerifyNew, Goto, EndWith, Untouched, NoDirectory
  <2>3. WhatIsTold'
    BY <1>10 DEF ImportInv, VerifyNew, Goto, directories, EndWith, Verifies
  <2> QED BY <2>1, <2>2, <2>3 DEF ImportInv
<1>11. CASE RemoveNew
  <2>1. ImportTypeOK'
    BY <1>11 DEF ImportInv, RemoveNew, Goto, Become, EndWith, Removals, ImportTypeOK, Directory,
       Conditions, Outcomes, Places
  <2>2. WhereTheGameIs'
    BY <1>11 DEF ImportInv, RemoveNew, Goto, EndWith, Untouched, NoDirectory
  <2>3. WhatIsTold'
    BY <1>11 DEF ImportInv, RemoveNew, Goto, EndWith
  <2> QED BY <2>1, <2>2, <2>3 DEF ImportInv
<1>12. CASE PrepareBackup
  <2>1. ImportTypeOK'
    BY <1>12 DEF ImportInv, PrepareBackup, Goto, directories, ImportTypeOK, Places
  <2>2. WhereTheGameIs'
    BY <1>12 DEF ImportInv, PrepareBackup, Goto, directories, Untouched
  <2>3. WhatIsTold'
    BY <1>12 DEF ImportInv, PrepareBackup, Goto, directories
  <2> QED BY <2>1, <2>2, <2>3 DEF ImportInv
<1>13. CASE ClearBackup
  <2>1. ImportTypeOK'
    BY <1>13 DEF ImportInv, ClearBackup, Goto, Become, Removals, ImportTypeOK, Directory, Conditions,
       Places
  <2>2. WhereTheGameIs'
    BY <1>13 DEF ImportInv, ClearBackup, Goto, Untouched
  <2>3. WhatIsTold'
    BY <1>13 DEF ImportInv, ClearBackup, Goto
  <2> QED BY <2>1, <2>2, <2>3 DEF ImportInv
<1>14. CASE SetAside
  <2>1. ImportTypeOK'
    BY <1>14 DEF ImportInv, SetAside, Goto, ImportTypeOK, Directory, Places
  <2>2. WhereTheGameIs'
    BY <1>14 DEF ImportInv, SetAside, Goto, Untouched
  <2>3. WhatIsTold'
    BY <1>14 DEF ImportInv, SetAside, Goto
  <2> QED BY <2>1, <2>2, <2>3 DEF ImportInv
<1>15. CASE Activate
  <2>1. ImportTypeOK'
    BY <1>15 DEF ImportInv, Activate, Goto, ImportTypeOK, Directory, Places
  <2>2. WhereTheGameIs'
    BY <1>15 DEF ImportInv, Activate, Goto, Untouched
  <2>3. WhatIsTold'
    BY <1>15 DEF ImportInv, Activate, Goto
  <2> QED BY <2>1, <2>2, <2>3 DEF ImportInv
<1>16. CASE Rollback
  <2>1. ImportTypeOK'
    BY <1>16 DEF ImportInv, Rollback, Goto, ImportTypeOK, Directory, Places
  <2>2. WhereTheGameIs'
    BY <1>16 DEF ImportInv, Rollback, Goto, Untouched
  <2>3. WhatIsTold'
    BY <1>16 DEF ImportInv, Rollback, Goto
  <2> QED BY <2>1, <2>2, <2>3 DEF ImportInv
<1>17. CASE DiscardStaging
  <2>1. ImportTypeOK'
    BY <1>17 DEF ImportInv, DiscardStaging, Goto, Become, EndWith, Removals, ImportTypeOK, Directory,
       Conditions, Outcomes, Places
  <2>2. WhereTheGameIs'
    BY <1>17 DEF ImportInv, DiscardStaging, Goto, EndWith, Untouched
  <2>3. WhatIsTold'
    BY <1>17 DEF ImportInv, DiscardStaging, Goto, EndWith
  <2> QED BY <2>1, <2>2, <2>3 DEF ImportInv
<1>18. CASE VerifyReplacement
  <2>1. ImportTypeOK'
    BY <1>18 DEF ImportInv, VerifyReplacement, Goto, directories, ImportTypeOK, Places
  <2>2. WhereTheGameIs'
    BY <1>18 DEF ImportInv, VerifyReplacement, Goto, directories, Verifies, Untouched
  <2>3. WhatIsTold'
    BY <1>18 DEF ImportInv, VerifyReplacement, Goto, directories
  <2> QED BY <2>1, <2>2, <2>3 DEF ImportInv
<1>19. CASE RemoveBad
  <2>1. ImportTypeOK'
    BY <1>19 DEF ImportInv, RemoveBad, Goto, Become, Removals, ImportTypeOK, Directory, Conditions,
       Places
  <2>2. WhereTheGameIs'
    BY <1>19 DEF ImportInv, RemoveBad, Goto, Untouched
  <2>3. WhatIsTold'
    BY <1>19 DEF ImportInv, RemoveBad, Goto
  <2> QED BY <2>1, <2>2, <2>3 DEF ImportInv
<1>20. CASE Restore
  <2>1. ImportTypeOK'
    BY <1>20 DEF ImportInv, Restore, Goto, EndWith, RestoreOutcome, ImportTypeOK, Directory, Outcomes,
       Places
  <2>2. WhereTheGameIs'
    BY <1>20 DEF ImportInv, Restore, Goto, EndWith, Untouched
  <2>3. WhatIsTold'
    BY <1>20 DEF ImportInv, Restore, Goto, EndWith, RestoreOutcome
  <2> QED BY <2>1, <2>2, <2>3 DEF ImportInv
<1>21. CASE ForgetBackup
  <2>1. ImportTypeOK'
    BY <1>21 DEF ImportInv, ForgetBackup, Goto, Become, EndWith, Removals, ImportTypeOK, Directory,
       Conditions, Stages, Outcomes, Places
  <2>2. WhereTheGameIs'
    BY <1>21 DEF ImportInv, ForgetBackup, Goto, EndWith, Untouched
  <2>3. WhatIsTold'
    BY <1>21 DEF ImportInv, ForgetBackup, Goto, EndWith
  <2> QED BY <2>1, <2>2, <2>3 DEF ImportInv
<1>22. CASE Recheck
  <2>1. ImportTypeOK'
    BY <1>22 DEF ImportInv, Recheck, Goto, directories, ImportTypeOK, Stages, Outcomes, Places
  <2>2. WhereTheGameIs'
    BY <1>22 DEF ImportInv, Recheck, Goto, directories, Untouched
  <2>3. WhatIsTold'
    BY <1>22 DEF ImportInv, Recheck, Goto, directories
  <2> QED BY <2>1, <2>2, <2>3 DEF ImportInv
<1>23. CASE Damage
  <2>1. ImportTypeOK'
    BY <1>23 DEF ImportInv, Damage, Become, ImportTypeOK, Directory, NoDirectory, Conditions, Stages,
       Outcomes
  <2>2. WhereTheGameIs'
    BY <1>23 DEF ImportInv, Damage, Untouched, NoDirectory
  <2>3. WhatIsTold'
    BY <1>23 DEF ImportInv, Damage, Become
  <2> QED BY <2>1, <2>2, <2>3 DEF ImportInv
<1>24. CASE Crash
  <2>1. ImportTypeOK'
    BY <1>24 DEF ImportInv, Crash, Goto, Become, Removals, Copies, ImportTypeOK, Directory, Conditions,
       Operations, Stages, Outcomes, Places
  <2>2. WhereTheGameIs'
    BY <1>24 DEF ImportInv, Crash, Goto, Untouched, NoDirectory
  <2>3. WhatIsTold'
    BY <1>24 DEF Crash, Goto
  <2> QED BY <2>1, <2>2, <2>3 DEF ImportInv
<1>25. CASE UNCHANGED importVars
  BY <1>25 DEF ImportInv, importVars, directories, ImportTypeOK
<1> QED
  BY <1>1, <1>2, <1>3, <1>4, <1>5, <1>6, <1>7, <1>8, <1>9, <1>10, <1>11, <1>12, <1>13,
     <1>14, <1>15, <1>16, <1>17, <1>18, <1>19, <1>20, <1>21, <1>22, <1>23, <1>24, <1>25 DEF
     ImportNext, Stage, Install, Replace

\* An empty library satisfies the invariant.
LEMMA ImportInitEstablishes == ImportInit => ImportInv
  BY DEF ImportInit, ImportInv, ImportTypeOK, Directory, Stages, Outcomes, Places, WhereTheGameIs,
     UntouchedIsBefore, NewHasNoPredecessor, BackupIsBefore, RolledBack, ForgottenForWhole,
     RollbackIsPossible, WhatIsTold, StagedIsRequested, PlacedIsRequested, OutcomeIsOver,
     StageIsOver, SuccessIsVerified, FailureLeavesTheGame, FailureKeepsTheGame, Exists

\* The invariant holds in every reachable state.
THEOREM ImportStaysSound == ImportSpec => []ImportInv
  BY ImportInitEstablishes, NextKeepsImportInv, PTL DEF ImportSpec

\* Every variable stays in its range, for any set of versions.
THEOREM ImportTypes == ImportSpec => []ImportTypeOK
<1>1. ImportInv => ImportTypeOK
  BY DEF ImportInv
<1> QED BY ImportStaysSound, <1>1, PTL

\* A whole game survives every failure and every death of the console, at least in the
\* rollback storage.
THEOREM GameSurvives == ImportSpec => []RollbackIsPossible
<1>1. ImportInv => RollbackIsPossible
  BY DEF ImportInv, WhereTheGameIs
<1> QED BY ImportStaysSound, <1>1, PTL

\* Success and Ready are told only of the requested version, installed and whole.
THEOREM SuccessIsWhole == ImportSpec => []SuccessIsVerified
<1>1. ImportInv => SuccessIsVerified
  BY DEF ImportInv, WhatIsTold
<1> QED BY ImportStaysSound, <1>1, PTL

\* An operation that says it changed nothing, or restored the game, is right.
THEOREM FailureChangesNothing == ImportSpec => []FailureLeavesTheGame
<1>1. ImportInv => FailureLeavesTheGame
  BY DEF ImportInv, WhatIsTold
<1> QED BY ImportStaysSound, <1>1, PTL

\* A replacement that fails leaves the game of before in one place, the library or the rollback
\* storage.
THEOREM FailureLosesNothing == ImportSpec => []FailureKeepsTheGame
<1>1. ImportInv => FailureKeepsTheGame
  BY DEF ImportInv, WhatIsTold
<1> QED BY ImportStaysSound, <1>1, PTL

\* After every message, the two of a failed activation included, a caller can rely on what
\* OutcomeIsReliable lists, for any set of versions.
THEOREM CallersCanRelyOnOutcome == ImportSpec => []OutcomeIsReliable
  BY SuccessIsWhole, FailureChangesNothing, FailureLosesNothing, PTL DEF OutcomeIsReliable
-----------------------------------------------------------------------------
(* The records of a game.                                                  *)

\* The kinds, said without a cardinality.
StoresKinds ==
    /\ playing \in BOOLEAN /\ session \in Nat /\ session <= MaxSessions
    /\ writing \in {Idle, <<"clearMirror">>} \union ({"record", "mirror"} \X (0..MaxPlaytime))
            \union ({"resumeMirror"} \X Activities) \union ({"append"} \X Achievements)
    /\ sessions \subseteq 1..session /\ resume \in Resumes
    /\ stats \subseteq Totals /\ \A t, u \in stats : t = u
    /\ stateMirror \subseteq Totals /\ \A t, u \in stateMirror : t = u
    /\ resumeMirror \in Resumes \union {CutResume}
    /\ achievements \subseteq Achievements /\ achievementMirror \subseteq Achievements
    /\ spoiled \subseteq Achievements /\ unlocked \subseteq Achievements
    /\ possible \subseteq Resumes /\ shownBefore \in Resumes \union {CutResume}
    /\ answer \in {"none", "true", "false"}

\* One total is no further than another.
Covers(t, m) == m.time <= t.time /\ m.launches <= t.launches /\ m.last <= t.last

\* A session is recorded once, after it has ended.
RecordedOnce ==
    /\ playing \/ writing[1] = "record" => session # 0 /\ session \notin sessions
    /\ writing[1] \in {"record", "mirror"} => ~playing
\* What the mirror says the tables said before, and with the record that is being
\* mirrored it will still be behind them.
MirrorIsCovered == \A m \in stateMirror : m # Nothing => \E t \in stats : Covers(t, m)
MirrorWillBeCovered ==
    writing[1] = "mirror" =>
        \A m \in MirrorState : \E t \in stats : Covers(t, Plus(m, session, writing[2]))
TotalsAreOfThePast == \A t \in stats \union stateMirror : t.last <= session

\* The Resume of the table is one that may be the game's, and so is that of the mirror, which
\* may also be cut or gone; with neither there may be none.
TableIsPossible == resume # None => resume \in possible
MirrorIsPossible == resumeMirror \in possible \union {CutResume, None}
NoneIsPossible == resume = None /\ resumeMirror = None => None \in possible
TrueIsShown == answer = "true" => LoadResume(TRUE) \in possible
MirroredIsInTable ==
    /\ writing[1] = "resumeMirror" => resume = writing[2]
    /\ writing[1] = "clearMirror" => resume = None /\ None \in possible
    /\ writing[1] \in {"resumeMirror", "clearMirror"} => answer = "none"

\* Every achievement that was confirmed is in its table.
UnlockedIsInTable ==
    /\ unlocked \subseteq achievements
    /\ writing[1] = "append" => writing[2] \in achievements
    /\ spoiled # {} \/ unlocked \subseteq achievementMirror

SessionsInv == RecordedOnce /\ MirrorIsCovered /\ MirrorWillBeCovered /\ TotalsAreOfThePast
ResumeInv ==
    TableIsPossible /\ MirrorIsPossible /\ NoneIsPossible /\ TrueIsShown /\ MirroredIsInTable
StoresInv == StoresKinds /\ SessionsInv /\ ResumeInv /\ UnlockedIsInTable

\* What an operation is called says what it carries.
LEMMA WritingCases ==
    ASSUME StoresKinds
    PROVE  /\ writing[1] = "record" => writing[2] \in 0..MaxPlaytime /\ writing = <<"record", writing[2]>>
           /\ writing[1] = "mirror" => writing[2] \in 0..MaxPlaytime /\ writing = <<"mirror", writing[2]>>
           /\ writing[1] = "resumeMirror" =>
                writing[2] \in Activities /\ writing = <<"resumeMirror", writing[2]>>
           /\ writing[1] = "append" => writing[2] \in Achievements /\ writing = <<"append", writing[2]>>
           /\ writing = Idle => writing[1] = "idle"
<1>1. CASE writing \in {Idle, <<"clearMirror">>}
  BY <1>1 DEF Idle
<1>2. CASE writing \in {"record", "mirror"} \X (0..MaxPlaytime)
  BY <1>2 DEF Idle
<1>3. CASE writing \in {"resumeMirror"} \X Activities
  BY <1>3 DEF Idle
<1>4. CASE writing \in {"append"} \X Achievements
  BY <1>4 DEF Idle
<1> QED BY <1>1, <1>2, <1>3, <1>4 DEF StoresKinds

\* A file that is replaced is the new one, whole or cut, or the old one or none after a failure.
LEMMA RewrittenIs ==
    ASSUME NEW old, NEW new, NEW cut, NEW none, NEW r \in Rewritten(old, new, cut, none)
    PROVE  /\ r[2] \in BOOLEAN /\ r[1] \in {new, old, none} \union cut
           /\ r[2] => r[1] \in {new} \union cut
<1>1. ASSUME r \in cut \X {TRUE} PROVE r[2] = TRUE /\ r[1] \in cut
  BY <1>1
<1>2. ASSUME r = <<new, TRUE>> PROVE r[2] = TRUE /\ r[1] = new
  BY <1>2
<1>3. ASSUME NEW d \in {old, none}, r = <<d, FALSE>> PROVE r[2] = FALSE /\ r[1] = d
  BY <1>3
<1> QED BY <1>1, <1>2, <1>3 DEF Rewritten

LEMMA RemovedIs ==
    ASSUME NEW old, NEW r \in Removed(old)
    PROVE  r[2] \in BOOLEAN /\ r[1] \in {None, old} /\ (r[2] => r[1] = None)
<1>1. ASSUME r = <<None, TRUE>> PROVE r[2] = TRUE /\ r[1] = None
  BY <1>1
<1>2. ASSUME r = <<old, FALSE>> PROVE r[2] = FALSE /\ r[1] = old
  BY <1>2
<1> QED BY <1>1, <1>2 DEF Removed

\* Totals with one session more.
LEMMA PlusCovers ==
    ASSUME NEW t \in Totals, NEW m \in Totals, Covers(t, m), NEW s \in Nat, NEW p \in Nat,
           t.last <= s
    PROVE  /\ Plus(t, s, p) \in Totals /\ Covers(Plus(t, s, p), t)
           /\ Covers(Plus(t, s, p), Plus(m, s, p))
BY DEF Totals, Plus, Covers

\* A mirror that ends early says no more than the whole one.
LEMMA CutIsBehind ==
    ASSUME NEW t \in Totals, NEW c \in CutState(t), NEW m \in c
    PROVE  m \in Totals /\ Covers(t, m) /\ c = {m}
<1>1. c = {Nothing} \/ c = {[Nothing EXCEPT !.time = t.time]} \/ c = {[t EXCEPT !.last = 0]}
  BY DEF CutState
<1>2. m = Nothing \/ m = [Nothing EXCEPT !.time = t.time] \/ m = [t EXCEPT !.last = 0]
  BY <1>1
<1>3. m \in Totals /\ Covers(t, m)
  BY <1>2 DEF Totals, Nothing, Covers
<1> QED BY <1>1, <1>3
LEMMA CoversOfCovers ==
    ASSUME NEW t \in Totals, NEW m \in Totals, NEW n \in Totals, Covers(t, m), Covers(m, n)
    PROVE  Covers(t, n)
BY DEF Totals, Covers
LEMMA NothingIsBehind == Nothing \in Totals /\ \A t \in Totals : Covers(t, Nothing) /\ Covers(t, t)
BY DEF Totals, Nothing, Covers

LEMMA NextKeepsStoresInv ==
    ASSUME StoresConstantsOK, StoresInv, [StoresNext]_storesVars PROVE StoresInv'
<1> USE WritingCases DEF StoresConstantsOK, StoresInv
<1>1. CASE Launch
  <2>1. StoresKinds'
    BY <1>1 DEF Launch, StoresKinds, Resumes, Idle, CutResume, history, resumeHistory, tables,
       mirrors
  <2>2. SessionsInv'
    <3>1. RecordedOnce'
      BY <1>1 DEF Launch, StoresKinds, RecordedOnce, tables
    <3>2. MirrorIsCovered' /\ MirrorWillBeCovered'
      BY <1>1 DEF Launch, tables, mirrors, SessionsInv, MirrorIsCovered, MirrorWillBeCovered,
         StoresKinds
    <3>3. TotalsAreOfThePast'
      BY <1>1 DEF Launch, tables, mirrors, SessionsInv, TotalsAreOfThePast, StoresKinds, Totals
    <3> QED BY <3>1, <3>2, <3>3 DEF SessionsInv
  <2>3. ResumeInv'
    BY <1>1 DEF Launch, Idle, StoresKinds, Resumes, CutResume, ResumeInv, TableIsPossible,
       MirrorIsPossible, NoneIsPossible, TrueIsShown, MirroredIsInTable, LoadResume,
       TableResume, history, resumeHistory, tables, mirrors
  <2>4. UnlockedIsInTable'
    BY <1>1 DEF Launch, Idle, StoresKinds, UnlockedIsInTable, history, resumeHistory, tables,
       mirrors
  <2> QED BY <2>1, <2>2, <2>3, <2>4
<1>2. CASE FinalizePersistence
  <2>1. StoresKinds'
    <3> PICK playtime \in 0..MaxPlaytime : writing' = <<"record", playtime>>
      BY <1>2 DEF FinalizePersistence
    <3>1. writing' \in {"record", "mirror"} \X (0..MaxPlaytime)
      OBVIOUS
    <3> QED BY <3>1, <1>2 DEF FinalizePersistence, StoresKinds, history, resumeHistory, tables, mirrors
  <2>2. SessionsInv'
    BY <1>2 DEF FinalizePersistence, Idle, StoresKinds, SessionsInv, RecordedOnce,
       MirrorIsCovered, MirrorWillBeCovered, TotalsAreOfThePast, MirrorState, history,
       resumeHistory, tables, mirrors
  <2>3. ResumeInv'
    BY <1>2 DEF FinalizePersistence, Idle, StoresKinds, Resumes, CutResume, ResumeInv,
       TableIsPossible, MirrorIsPossible, NoneIsPossible, TrueIsShown, MirroredIsInTable,
       LoadResume, TableResume, history, resumeHistory, tables, mirrors
  <2>4. UnlockedIsInTable'
    BY <1>2 DEF FinalizePersistence, Idle, StoresKinds, UnlockedIsInTable, history,
       resumeHistory, tables, mirrors
  <2> QED BY <2>1, <2>2, <2>3, <2>4
<1>3. CASE RecordSession
  <2> DEFINE p == writing[2]
             Base == IF stats = {} THEN Nothing ELSE CHOOSE t \in stats : TRUE
  <2>a. /\ p \in 0..MaxPlaytime /\ p \in Nat /\ session \in Nat /\ session \notin sessions
        /\ UNCHANGED <<playing, session, stateMirror>>
    BY <1>3 DEF RecordSession, mirrors, StoresKinds, SessionsInv, RecordedOnce
  <2>b. Base \in Totals /\ Base.last <= session /\ (stats = {} \/ Base \in stats)
        /\ \A t \in stats : t = Base
    BY <2>a DEF StoresKinds, SessionsInv, TotalsAreOfThePast, Totals, Nothing
  <2> HIDE DEF Base
  <2>c. ASSUME writing' = <<"mirror", p>>, sessions' = sessions \union {session},
               stats' = {Plus(Base, session, p)}
        PROVE  StoresKinds' /\ SessionsInv'
    <3>1. /\ Plus(Base, session, p) \in Totals /\ Covers(Plus(Base, session, p), Base)
          /\ Plus(Base, session, p).last <= session
      <4>1. Plus(Base, session, p).last = session
        BY DEF Plus
      <4>2. Covers(Base, Base)
        BY <2>b, NothingIsBehind
      <4> QED BY <2>a, <2>b, <4>1, <4>2, PlusCovers
    <3>2. writing' \in {"record", "mirror"} \X (0..MaxPlaytime)
      BY <2>a, <2>c
    <3>3. session \in 1..session \/ session = 0
      BY <2>a
    <3>4. session # 0 /\ ~playing
      BY <1>3 DEF RecordSession, SessionsInv, RecordedOnce
    <3>5. StoresKinds'
      <4>1. sessions' \subseteq 1..session' /\ stats' \subseteq Totals /\ \A t, u \in stats' : t = u
        BY <2>a, <2>c, <3>1, <3>3, <3>4 DEF StoresKinds
      <4> QED BY <4>1, <3>2, <1>3 DEF RecordSession, StoresKinds, history, resumeHistory, tables, mirrors
    <3>6. RecordedOnce'
      BY <1>3, <2>a, <2>c, <3>4 DEF RecordSession, SessionsInv, RecordedOnce
    <3>7. ASSUME NEW m \in stateMirror PROVE m \in Totals /\ Covers(Base, m)
      <4>1. m \in Totals
        BY DEF StoresKinds
      <4>2. CASE m = Nothing
        BY <4>1, <4>2, <2>b, NothingIsBehind
      <4>3. CASE m # Nothing
        BY <4>1, <4>3, <2>b DEF SessionsInv, MirrorIsCovered
      <4> QED BY <4>1, <4>2, <4>3
    <3>8. MirrorIsCovered'
      <4> SUFFICES ASSUME NEW m \in stateMirror PROVE Covers(Plus(Base, session, p), m)
        BY <2>a, <2>c DEF MirrorIsCovered
      <4> QED BY <3>1, <3>7, <2>b, CoversOfCovers
    <3>9. MirrorWillBeCovered'
      <4> SUFFICES ASSUME NEW m \in MirrorState
                   PROVE  Covers(Plus(Base, session, p), Plus(m, session, p))
        BY <2>a, <2>c DEF MirrorWillBeCovered, MirrorState
      <4>1. m \in Totals /\ Covers(Base, m)
        BY <3>7, <2>b, NothingIsBehind DEF MirrorState
      <4> QED BY <4>1, <2>a, <2>b, PlusCovers
    <3>10. TotalsAreOfThePast'
      BY <2>a, <2>c, <3>1 DEF SessionsInv, TotalsAreOfThePast
    <3> QED BY <3>5, <3>6, <3>8, <3>9, <3>10 DEF SessionsInv
  <2>d. ASSUME writing' = Idle, UNCHANGED <<sessions, stats>> PROVE StoresKinds' /\ SessionsInv'
    <3>1. StoresKinds'
      BY <1>3, <2>d DEF RecordSession, StoresKinds, history, resumeHistory, tables, mirrors
    <3>2. SessionsInv'
      BY <2>a, <2>d DEF Idle, SessionsInv, RecordedOnce, MirrorIsCovered,
         MirrorWillBeCovered, TotalsAreOfThePast
    <3> QED BY <3>1, <3>2
  <2>3. ResumeInv'
    BY <1>3 DEF RecordSession, AfterFailedRecord, Plus, Totals, Nothing, Idle, StoresKinds,
       Resumes, CutResume, ResumeInv, TableIsPossible, MirrorIsPossible, NoneIsPossible,
       TrueIsShown, MirroredIsInTable, LoadResume, TableResume, history, resumeHistory,
       tables, mirrors
  <2>4. UnlockedIsInTable'
    BY <1>3 DEF RecordSession, AfterFailedRecord, Plus, Totals, Nothing, Idle, StoresKinds,
       UnlockedIsInTable, history, resumeHistory, tables, mirrors
  <2>1. StoresKinds' /\ SessionsInv'
    BY <1>3, <2>a, <2>c, <2>d DEF RecordSession, AfterFailedRecord, Base
  <2> QED BY <2>1, <2>3, <2>4
<1>4. CASE RecordInMirror
  <2> DEFINE p == writing[2]
  <2>a. /\ p \in 0..MaxPlaytime /\ p \in Nat /\ session \in Nat
        /\ writing' = Idle /\ UNCHANGED <<playing, session, sessions, stats>>
    BY <1>4 DEF RecordInMirror, tables, StoresKinds
  <2>b. PICK old \in MirrorState :
             \E r \in Rewritten(stateMirror, {Plus(old, session, p)}, CutState(Plus(old, session, p)), {}) :
               stateMirror' = r[1]
    BY <1>4 DEF RecordInMirror, MirrorState, WithReplaced
  <2> DEFINE new == Plus(old, session, p)
  <2>c. PICK t \in stats : Covers(t, new)
    BY <1>4, <2>b DEF RecordInMirror, SessionsInv, MirrorWillBeCovered
  <2>d. old \in Totals /\ new \in Totals /\ new.last = session
    BY <2>a, NothingIsBehind DEF MirrorState, StoresKinds, Totals, Plus
  <2>e. stateMirror' \in {stateMirror, {}, {new}} \union CutState(new)
    <3>1. PICK r \in Rewritten(stateMirror, {new}, CutState(new), {}) : stateMirror' = r[1]
      BY <2>b
    <3> HIDE DEF new
    <3> QED BY <3>1, RewrittenIs
  <2>f. /\ stateMirror' \subseteq Totals /\ \A u, v \in stateMirror' : u = v
        /\ \A m \in stateMirror' : m \in stateMirror \/ Covers(new, m)
    <3>1. CASE stateMirror' \in {stateMirror, {}}
      BY <3>1 DEF StoresKinds
    <3>2. CASE stateMirror' = {new}
      BY <3>2, <2>d, NothingIsBehind
    <3>3. CASE stateMirror' \in CutState(new)
      <4> HIDE DEF new
      <4> QED BY <3>3, <2>d, CutIsBehind
    <3> QED BY <2>e, <3>1, <3>2, <3>3
  <2>1. StoresKinds'
    BY <1>4, <2>a, <2>f DEF RecordInMirror, StoresKinds, history, resumeHistory, tables
  <2>2. SessionsInv'
    <3>1. RecordedOnce' /\ MirrorWillBeCovered'
      BY <1>4, <2>a DEF SessionsInv, RecordInMirror, RecordedOnce, MirrorWillBeCovered, Idle
    <3>2. ASSUME NEW m \in stateMirror' PROVE m.last <= session /\ (m # Nothing => \E u \in stats : Covers(u, m))
      <4>1. CASE m \in stateMirror
        BY <4>1 DEF SessionsInv, MirrorIsCovered, TotalsAreOfThePast
      <4>2. CASE Covers(new, m)
        <5>1. m \in Totals /\ t \in Totals
          BY <2>f DEF StoresKinds
        <5>2. Covers(t, m)
          BY <5>1, <4>2, <2>c, <2>d, CoversOfCovers
        <5>3. m.last <= session
          BY <5>1, <4>2, <2>d DEF Covers, Totals
        <5> QED BY <5>2, <5>3
      <4> QED BY <4>1, <4>2, <2>f
    <3>3. MirrorIsCovered' /\ TotalsAreOfThePast'
      BY <2>a, <3>2 DEF SessionsInv, MirrorIsCovered, TotalsAreOfThePast
    <3> QED BY <3>1, <3>3 DEF SessionsInv
  <2>3. ResumeInv'
    BY <1>4 DEF RecordInMirror, Rewritten, WithReplaced, CutState, Plus, Totals, Nothing,
       Idle, StoresKinds, Resumes, CutResume, ResumeInv, TableIsPossible, MirrorIsPossible,
       NoneIsPossible, TrueIsShown, MirroredIsInTable, LoadResume, TableResume, history,
       resumeHistory, tables, mirrors
  <2>4. UnlockedIsInTable'
    BY <1>4 DEF RecordInMirror, Rewritten, WithReplaced, CutState, Plus, Totals, Nothing,
       Idle, StoresKinds, UnlockedIsInTable, history, resumeHistory, tables, mirrors
  <2> QED BY <2>1, <2>2, <2>3, <2>4
<1>5. ASSUME NEW a \in Activities, SaveResume(a) PROVE StoresInv'
  <2>1. StoresKinds'
    BY <1>5 DEF SaveResume, Answer, LoadResume, TableResume, StoresKinds, Resumes, Idle,
       CutResume, history, resumeHistory, tables, mirrors
  <2>2. SessionsInv'
    BY <1>5 DEF SaveResume, Answer, LoadResume, TableResume, Idle, StoresKinds, SessionsInv,
       RecordedOnce, MirrorIsCovered, MirrorWillBeCovered, TotalsAreOfThePast, MirrorState,
       history, resumeHistory, tables, mirrors
  <2>3. ResumeInv'
    BY <1>5 DEF SaveResume, Answer, LoadResume, TableResume, Idle, StoresKinds, Resumes,
       CutResume, ResumeInv, TableIsPossible, MirrorIsPossible, NoneIsPossible, TrueIsShown,
       MirroredIsInTable, history, resumeHistory, tables, mirrors
  <2>4. UnlockedIsInTable'
    BY <1>5 DEF SaveResume, Answer, LoadResume, TableResume, Idle, StoresKinds,
       UnlockedIsInTable, history, resumeHistory, tables, mirrors
  <2> QED BY <2>1, <2>2, <2>3, <2>4
<1>6. CASE SaveResumeMirror
  <2>a. PICK r \in Rewritten(resumeMirror, writing[2], {CutResume}, None) :
             resumeMirror' = r[1] /\ Answer(r[2], writing[2])
    BY <1>6 DEF SaveResumeMirror
  <2>b. /\ writing[2] \in Activities /\ resume = writing[2] /\ r[2] \in BOOLEAN
        /\ resumeMirror' \in {writing[2], resumeMirror, CutResume, None}
        /\ r[2] => resumeMirror' \in {writing[2], CutResume}
    BY <1>6, <2>a, RewrittenIs DEF SaveResumeMirror, ResumeInv, MirroredIsInTable
  <2>c. /\ writing' = Idle /\ answer' \in {"true", "false"}
        /\ possible' \in {{writing[2]}, possible \union {writing[2]}}
        /\ answer' = "true" => possible' = {writing[2]} /\ r[2]
        /\ answer' = "false" => possible' = possible \union {writing[2]}
    BY <2>a, <2>b DEF Answer
  <2>d. UNCHANGED <<playing, session, sessions, stats, resume, achievements, stateMirror,
                    achievementMirror, spoiled, shownBefore, unlocked>>
    BY <1>6 DEF SaveResumeMirror, tables
  <2>e. writing'[1] = "idle"
    BY <2>c DEF Idle
  <2>1. StoresKinds'
    BY <2>b, <2>c, <2>d DEF StoresKinds, Resumes
  <2>2. SessionsInv'
    BY <1>6, <2>d, <2>e DEF SaveResumeMirror, SessionsInv, RecordedOnce, MirrorIsCovered,
       MirrorWillBeCovered, TotalsAreOfThePast
  <2>3. ResumeInv'
    BY <2>b, <2>c, <2>d, <2>e DEF ResumeInv, TableIsPossible, MirrorIsPossible, NoneIsPossible,
       TrueIsShown, MirroredIsInTable, LoadResume, TableResume
  <2>4. UnlockedIsInTable'
    BY <2>d, <2>e DEF UnlockedIsInTable
  <2> QED BY <2>1, <2>2, <2>3, <2>4
<1>7. CASE ClearResume
  <2>1. StoresKinds'
    BY <1>7 DEF ClearResume, Answer, LoadResume, TableResume, StoresKinds, Resumes, Idle,
       CutResume, history, resumeHistory, tables, mirrors
  <2>2. SessionsInv'
    BY <1>7 DEF ClearResume, Answer, LoadResume, TableResume, Idle, StoresKinds, SessionsInv,
       RecordedOnce, MirrorIsCovered, MirrorWillBeCovered, TotalsAreOfThePast, MirrorState,
       history, resumeHistory, tables, mirrors
  <2>3. ResumeInv'
    BY <1>7 DEF ClearResume, Answer, LoadResume, TableResume, Idle, StoresKinds, Resumes,
       CutResume, ResumeInv, TableIsPossible, MirrorIsPossible, NoneIsPossible, TrueIsShown,
       MirroredIsInTable, history, resumeHistory, tables, mirrors
  <2>4. UnlockedIsInTable'
    BY <1>7 DEF ClearResume, Answer, LoadResume, TableResume, Idle, StoresKinds,
       UnlockedIsInTable, history, resumeHistory, tables, mirrors
  <2> QED BY <2>1, <2>2, <2>3, <2>4
<1>8. CASE ClearResumeMirror
  <2>a. PICK r \in Removed(resumeMirror) : resumeMirror' = r[1] /\ Answer(r[2], None)
    BY <1>8 DEF ClearResumeMirror
  <2>b. /\ resume = None /\ None \in possible /\ r[2] \in BOOLEAN
        /\ resumeMirror' \in {resumeMirror, None}
        /\ r[2] => resumeMirror' = None
    BY <1>8, <2>a, RemovedIs DEF ClearResumeMirror, ResumeInv, MirroredIsInTable
  <2>c. /\ writing' = Idle /\ answer' \in {"true", "false"}
        /\ possible' \in {{None}, possible \union {None}}
        /\ answer' = "true" => possible' = {None} /\ r[2]
        /\ answer' = "false" => possible' = possible \union {None}
    BY <2>a, <2>b DEF Answer
  <2>d. UNCHANGED <<playing, session, sessions, stats, resume, achievements, stateMirror,
                    achievementMirror, spoiled, shownBefore, unlocked>>
    BY <1>8 DEF ClearResumeMirror, tables
  <2>e. writing'[1] = "idle"
    BY <2>c DEF Idle
  <2>1. StoresKinds'
    BY <2>b, <2>c, <2>d DEF StoresKinds, Resumes
  <2>2. SessionsInv'
    BY <1>8, <2>d, <2>e DEF ClearResumeMirror, SessionsInv, RecordedOnce, MirrorIsCovered,
       MirrorWillBeCovered, TotalsAreOfThePast
  <2>3. ResumeInv'
    BY <2>b, <2>c, <2>d, <2>e DEF ResumeInv, TableIsPossible, MirrorIsPossible, NoneIsPossible,
       TrueIsShown, MirroredIsInTable, LoadResume, TableResume
  <2>4. UnlockedIsInTable'
    BY <2>d, <2>e DEF UnlockedIsInTable
  <2> QED BY <2>1, <2>2, <2>3, <2>4
<1>9. ASSUME NEW a \in Achievements, Unlock(a) PROVE StoresInv'
  <2>1. StoresKinds'
    BY <1>9 DEF Unlock, UpsertAchievement, Refused, StoresKinds, Resumes, Idle, CutResume,
       history, resumeHistory, tables, mirrors
  <2>2. SessionsInv'
    BY <1>9 DEF Unlock, UpsertAchievement, Refused, Idle, StoresKinds, SessionsInv,
       RecordedOnce, MirrorIsCovered, MirrorWillBeCovered, TotalsAreOfThePast, MirrorState,
       history, resumeHistory, tables, mirrors
  <2>3. ResumeInv'
    BY <1>9 DEF Unlock, UpsertAchievement, Refused, Idle, StoresKinds, Resumes, CutResume,
       ResumeInv, TableIsPossible, MirrorIsPossible, NoneIsPossible, TrueIsShown,
       MirroredIsInTable, LoadResume, TableResume, history, resumeHistory, tables, mirrors
  <2>4. UnlockedIsInTable'
    BY <1>9 DEF Unlock, UpsertAchievement, Refused, Idle, StoresKinds, UnlockedIsInTable,
       history, resumeHistory, tables, mirrors
  <2> QED BY <2>1, <2>2, <2>3, <2>4
<1>10. CASE AppendToMirror
  <2>1. StoresKinds'
    BY <1>10 DEF AppendToMirror, StoresKinds, Resumes, Idle, CutResume, history,
       resumeHistory, tables, mirrors
  <2>2. SessionsInv'
    BY <1>10 DEF AppendToMirror, Idle, StoresKinds, SessionsInv, RecordedOnce,
       MirrorIsCovered, MirrorWillBeCovered, TotalsAreOfThePast, MirrorState, history,
       resumeHistory, tables, mirrors
  <2>3. ResumeInv'
    BY <1>10 DEF AppendToMirror, Idle, StoresKinds, Resumes, CutResume, ResumeInv,
       TableIsPossible, MirrorIsPossible, NoneIsPossible, TrueIsShown, MirroredIsInTable,
       LoadResume, TableResume, history, resumeHistory, tables, mirrors
  <2>4. UnlockedIsInTable'
    BY <1>10 DEF AppendToMirror, Idle, StoresKinds, UnlockedIsInTable, history, resumeHistory,
       tables, mirrors
  <2> QED BY <2>1, <2>2, <2>3, <2>4
<1>11. CASE StoresEnd
  <2>1. StoresKinds'
    BY <1>11 DEF StoresEnd, StoresKinds, Resumes, Idle, CutResume, history, resumeHistory,
       tables, mirrors
  <2>2. SessionsInv'
    BY <1>11 DEF StoresEnd, Idle, StoresKinds, SessionsInv, RecordedOnce, MirrorIsCovered,
       MirrorWillBeCovered, TotalsAreOfThePast, MirrorState, history, resumeHistory, tables,
       mirrors
  <2>3. ResumeInv'
    BY <1>11 DEF StoresEnd, Idle, StoresKinds, Resumes, CutResume, ResumeInv, TableIsPossible,
       MirrorIsPossible, NoneIsPossible, TrueIsShown, MirroredIsInTable, LoadResume,
       TableResume, history, resumeHistory, tables, mirrors
  <2>4. UnlockedIsInTable'
    BY <1>11 DEF StoresEnd, Idle, StoresKinds, UnlockedIsInTable, history, resumeHistory,
       tables, mirrors
  <2> QED BY <2>1, <2>2, <2>3, <2>4
<1>12. CASE UNCHANGED storesVars
  BY <1>12 DEF storesVars, StoresKinds, SessionsInv, RecordedOnce, MirrorIsCovered,
       MirrorWillBeCovered, TotalsAreOfThePast, MirrorState, ResumeInv, TableIsPossible,
       MirrorIsPossible, NoneIsPossible, TrueIsShown, MirroredIsInTable, LoadResume,
       TableResume, UnlockedIsInTable, history, resumeHistory, tables, mirrors
<1> QED
  BY <1>1, <1>2, <1>3, <1>4, <1>5, <1>6, <1>7, <1>8, <1>9, <1>10, <1>11, <1>12 DEF
       StoresNext

LEMMA StoresInitEstablishes == ASSUME StoresConstantsOK PROVE StoresInit => StoresInv
<1> SUFFICES ASSUME StoresInit PROVE StoresInv
  OBVIOUS
<1> USE DEF StoresConstantsOK, StoresInit
<1>1. writing[1] = "idle"
  BY DEF Idle
<1>2. StoresKinds
  <2>1. /\ sessions \subseteq 1..session /\ stats \subseteq Totals /\ stateMirror \subseteq Totals
        /\ \A t, u \in stats : t = u
        /\ \A t, u \in stateMirror : t = u
    OBVIOUS
  <2>2. /\ resume \in Resumes /\ resumeMirror \in Resumes /\ shownBefore \in Resumes
        /\ possible \subseteq Resumes
    BY DEF Resumes
  <2>3. playing \in BOOLEAN
    OBVIOUS
  <2>4. session = 0 /\ MaxSessions \in Nat
    OBVIOUS
  <2>5. /\ achievements \subseteq Achievements /\ achievementMirror \subseteq Achievements
        /\ spoiled \subseteq Achievements /\ unlocked \subseteq Achievements
    OBVIOUS
  <2> HIDE DEF StoresInit
  <2>6. writing = Idle /\ answer = "none"
    BY DEF StoresInit
  <2> QED BY <2>1, <2>2, <2>3, <2>5, <2>6, <2>4 DEF StoresKinds
<1>3. SessionsInv
  BY <1>1 DEF SessionsInv, RecordedOnce, MirrorIsCovered, MirrorWillBeCovered, TotalsAreOfThePast
<1>4. ResumeInv
  BY <1>1 DEF ResumeInv, TableIsPossible, MirrorIsPossible, NoneIsPossible, TrueIsShown,
     MirroredIsInTable
<1>5. UnlockedIsInTable
  BY <1>1 DEF UnlockedIsInTable
<1> QED BY <1>2, <1>3, <1>4, <1>5 DEF StoresInv

\* The properties say what is shown, from the tables or from the mirrors.
LEMMA StoresInvCovers == ASSUME StoresInv PROVE MirrorIsNotAhead
<1> SUFFICES ASSUME NEW read \in BOOLEAN, NEW shown \in LoadState(read), shown # Nothing
             PROVE  \E t \in stats : Covers(t, shown)
  BY DEF MirrorIsNotAhead, Covers
<1>1. CASE shown \in stats
  BY <1>1, NothingIsBehind DEF StoresInv, StoresKinds
<1>2. CASE shown \in stateMirror
  BY <1>2 DEF StoresInv, SessionsInv, MirrorIsCovered
<1> QED BY <1>1, <1>2 DEF LoadState, TableState, MirrorState
LEMMA StoresInvKeeps == ASSUME StoresInv PROVE GameRecordsAreKept
<1>1. ResumeIsKept
  BY DEF StoresInv, StoresKinds, ResumeInv, TableIsPossible, MirrorIsPossible, NoneIsPossible,
     TrueIsShown, ResumeIsKept, LoadResume, TableResume
<1>2. UnlockIsKept
  BY DEF StoresInv, UnlockedIsInTable, UnlockIsKept, LoadAchievements, TableAchievements
<1> QED BY <1>1, <1>2 DEF GameRecordsAreKept
LEMMA StoresInvTypes == ASSUME StoresConstantsOK, StoresInv PROVE StoresTypeOK
<1>1. ASSUME NEW S, \A t, u \in S : t = u PROVE Cardinality(S) <= 1
  <2>1. CASE S = {}
    BY <2>1, FS_EmptySet
  <2>2. CASE S # {}
    <3>1. PICK t \in S : S = {t}
      BY <1>1, <2>2
    <3> QED BY <3>1, FS_Singleton
  <2> QED BY <2>1, <2>2
<1>2. sessions \subseteq 1..MaxSessions
  BY DEF StoresConstantsOK, StoresInv, StoresKinds
<1> QED
  BY <1>1, <1>2 DEF StoresConstantsOK, StoresInv, StoresKinds, StoresTypeOK

\* What the stores rest on, in every reachable state.
LEMMA StoresStaySound == ASSUME StoresConstantsOK PROVE StoresSpec => []StoresInv
BY StoresInitEstablishes, NextKeepsStoresInv, PTL DEF StoresSpec

\* Tables, mirrors and histories keep their kinds.
THEOREM StoresTypes == ASSUME StoresConstantsOK PROVE StoresSpec => []StoresTypeOK
<1>1. StoresInv => StoresTypeOK
  BY StoresInvTypes
<1> QED BY <1>1, StoresStaySound, PTL

\* The mirror of the playtime is never ahead of its table, over any number of sessions,
\* failures and deaths.
THEOREM MirrorNeverLeads == ASSUME StoresConstantsOK PROVE StoresSpec => []MirrorIsNotAhead
<1>1. StoresInv => MirrorIsNotAhead
  BY StoresInvCovers
<1> QED BY <1>1, StoresStaySound, PTL

\* The Resume and the achievements a game was told are kept are shown.
THEOREM RecordsStay == ASSUME StoresConstantsOK PROVE StoresSpec => []GameRecordsAreKept
<1>1. StoresInv => GameRecordsAreKept
  BY StoresInvKeeps
<1> QED BY <1>1, StoresStaySound, PTL

-----------------------------------------------------------------------------
(* The identity of the player.                                             *)

IdentityKinds ==
    /\ file \in Nat \union {NoIdentity, Damaged} /\ temp \in Nat \union {NoIdentity, Damaged}
    /\ ids \in Nat /\ known \in Nat \union {NoIdentity} /\ contested \subseteq Consoles
    /\ at \in [Consoles -> {"off", "looking", "making", "renaming", "ready", "refused"}]
    /\ own \in [Consoles -> Nat \union {NoIdentity}]

\* Before an identity is known a console that is not contested starts alone, what it renames is its
\* own, and there is no identity it could find unless another makes one.
StartsAlone ==
    known = NoIdentity =>
        \A c \in Consoles \ contested : Starting(c) => StartingBeside(c) = {}
RenamesItsOwn ==
    \A c \in Consoles \ contested : at[c] = "renaming" => own[c] \in Nat /\ temp = own[c]
UnknownIsMade == known = NoIdentity /\ file \in Nat => BeingMade
\* Once it is known nobody makes another, and those who are not contested have it.
KnownIsStored == known # NoIdentity => file \in {known, Damaged} /\ ~BeingMade
ReadyIsKnown ==
    \A c \in Consoles \ contested : at[c] = "ready" => own[c] = known /\ known # NoIdentity
IdentityInv ==
    /\ IdentityKinds
    /\ StartsAlone /\ RenamesItsOwn /\ UnknownIsMade /\ KnownIsStored /\ ReadyIsKnown

LEMMA IdentityInitEstablishes == ASSUME IdentityConstantsOK PROVE IdentityInit => IdentityInv
  BY DEF IdentityConstantsOK, IdentityInit, IdentityInv, IdentityKinds, StartsAlone, Starting,
     RenamesItsOwn, UnknownIsMade, KnownIsStored, ReadyIsKnown

\* Starts disturb each other only where both are contested.
LEMMA NextKeepsIdentityInv ==
    ASSUME IdentityConstantsOK, IdentityInv, [IdentityNext]_identityVars PROVE IdentityInv'
<1> USE DEF IdentityConstantsOK
<1> DEFINE Told == StartsAlone /\ RenamesItsOwn /\ UnknownIsMade /\ KnownIsStored /\ ReadyIsKnown
<1>1. CASE DamageIdentity
  <2>1. IdentityKinds'
    BY <1>1 DEF DamageIdentity, IdentityInv, IdentityKinds
  <2>2. Told'
    BY <1>1 DEF DamageIdentity, IdentityInv, IdentityKinds, StartsAlone, Starting, StartingBeside,
       RenamesItsOwn, UnknownIsMade, KnownIsStored, ReadyIsKnown, BeingMade
  <2> QED BY <2>1, <2>2 DEF IdentityInv
<1>2. ASSUME NEW c \in Consoles, Initialize(c) PROVE IdentityInv'
  <2>1. IdentityKinds'
    BY <1>2 DEF Initialize, Goes, RefuseStart, StartingBeside, IdentityInv, IdentityKinds
  <2>2. Told'
    BY <1>2 DEF Initialize, Goes, RefuseStart, IdentityInv, IdentityKinds, StartsAlone, Starting,
       StartingBeside, RenamesItsOwn, UnknownIsMade, KnownIsStored, ReadyIsKnown, BeingMade
  <2> QED BY <2>1, <2>2 DEF IdentityInv
<1>3. ASSUME NEW c \in Consoles, Look(c) PROVE IdentityInv'
  <2>1. IdentityKinds'
    BY <1>3 DEF Look, LookFails, StartingBeside, Goes, Has, RefuseStart, FindsDamage, IdentityInv,
       IdentityKinds
  <2>2. CASE LookFails(c) /\ UNCHANGED <<file, temp, ids>>
    BY <1>3, <2>1, <2>2 DEF Look, LookFails, Goes, IdentityInv, IdentityKinds, StartsAlone, Starting,
       StartingBeside, RenamesItsOwn, UnknownIsMade, KnownIsStored, ReadyIsKnown, BeingMade
  <2>3. CASE ~LookFails(c)
    BY <1>3, <2>1, <2>3 DEF Look, Goes, Has, RefuseStart, FindsDamage, IdentityInv, IdentityKinds,
       StartsAlone, Starting, StartingBeside, RenamesItsOwn, UnknownIsMade, KnownIsStored,
       ReadyIsKnown, BeingMade
  <2> QED BY <1>3, <2>2, <2>3 DEF Look
<1>4. ASSUME NEW c \in Consoles, Make(c) PROVE IdentityInv'
  <2>1. IdentityKinds'
    BY <1>4 DEF Make, Settles, Goes, RefuseStart, IdentityInv, IdentityKinds
  <2>2. Told'
    BY <1>4 DEF Make, Settles, Goes, RefuseStart, IdentityInv, IdentityKinds, StartsAlone, Starting,
       StartingBeside, RenamesItsOwn, UnknownIsMade, KnownIsStored, ReadyIsKnown, BeingMade
  <2> QED BY <2>1, <2>2 DEF IdentityInv
<1>5. ASSUME NEW c \in Consoles, RenameIdentity(c) PROVE IdentityInv'
  <2>1. IdentityKinds'
    BY <1>5 DEF RenameIdentity, Settles, Goes, Has, RefuseStart, IdentityInv, IdentityKinds
  <2>2. Told'
    BY <1>5 DEF RenameIdentity, Settles, Goes, Has, RefuseStart, IdentityInv, IdentityKinds,
       StartsAlone, Starting, StartingBeside, RenamesItsOwn, UnknownIsMade, KnownIsStored,
       ReadyIsKnown, BeingMade
  <2> QED BY <2>1, <2>2 DEF IdentityInv
<1>6. ASSUME NEW c \in Consoles, End(c) PROVE IdentityInv'
  <2>1. IdentityKinds'
    BY <1>6 DEF End, Settles, Goes, IdentityInv, IdentityKinds
  <2>2. Told'
    BY <1>6 DEF End, Settles, Goes, IdentityInv, IdentityKinds, StartsAlone, Starting,
       StartingBeside, RenamesItsOwn, UnknownIsMade, KnownIsStored, ReadyIsKnown, BeingMade
  <2> QED BY <2>1, <2>2 DEF IdentityInv
<1>7. CASE UNCHANGED identityVars
  BY <1>7 DEF identityVars, IdentityInv, IdentityKinds, StartsAlone, Starting, StartingBeside,
     RenamesItsOwn, UnknownIsMade, KnownIsStored, ReadyIsKnown, BeingMade
<1> QED
  BY <1>1, <1>2, <1>3, <1>4, <1>5, <1>6, <1>7 DEF IdentityNext

LEMMA IdentityInvKeeps == IdentityInv => IdentityIsKept
BY DEF IdentityInv, KnownIsStored, ReadyIsKnown, IdentityIsKept

\* A player keeps one identity, for any number of consoles and starts, at the same time or not; the
\* exceptions are the contested consoles of IdentityIsKept.
THEOREM IdentityStays == ASSUME IdentityConstantsOK PROVE IdentitySpec => []IdentityIsKept
BY IdentityInitEstablishes, NextKeepsIdentityInv, IdentityInvKeeps, PTL DEF IdentitySpec

-----------------------------------------------------------------------------
(* The setup and the settings.                                             *)

\* The rows and lines there are, one by one.
PartKinds(p) ==
    /\ p = [k \in Keys |-> p[k]]
    /\ p["profile"] \in (Names \ {""}) \union {Missing}
    /\ p["reduced_motion"] \in BOOLEAN \union {Missing}
    /\ p["volume"] \in Volumes \union {Missing}
BootStates ==
    [completed : BOOLEAN, name : Names, confirmed : SUBSET Checks, volume : Volumes \union {Missing}]
SettingsKinds ==
    /\ misread \in BOOLEAN
    /\ mode \in {"off", "wizard", "applyLoad", "apply", "appLoad", "app", "quit"}
    /\ step \in 1..6
    /\ draft \in BootStates
    /\ settings \in Settings
    /\ save \in Keys \union {"none", "mirror"}
    /\ boot \in BootStates
    /\ PartKinds(db) /\ \A lines \in ini : PartKinds(lines)
    /\ told \subseteq Settings

\* Save goes from row to row, so that behind it the rows are the settings.
RowIsWritten(k) == db[k] = settings[k]
SavedSoFar ==
    /\ save \in {"reduced_motion", "volume", "mirror"} => RowIsWritten("profile")
    /\ save \in {"volume", "mirror"} => RowIsWritten("reduced_motion")
    /\ save = "mirror" => RowIsWritten("volume")
\* Between saves what was confirmed are the rows; while settings that may differ are
\* saved nothing counts as confirmed.
ToldIsStored == \A s \in told : \A k \in Keys : db[k] = s[k]
ToldIsInMemory == mode \in {"app", "quit"} => \A s \in told : settings = s
SavingIsUntold == save # "none" /\ mode # "quit" => told = {}
SavesInside == save # "none" => mode \in {"applyLoad", "apply", "appLoad", "app", "quit"}
SaveInv == SavedSoFar /\ SavesInside
ToldInv == ToldIsStored /\ ToldIsInMemory /\ SavingIsUntold
SettingsInv == SettingsKinds /\ SaveInv /\ ToldInv
\* Settings are known by their three values.
LEMMA SettingsByKey ==
    ASSUME NEW s \in Settings
    PROVE  /\ s["profile"] \in Names \ {""} /\ s["reduced_motion"] \in BOOLEAN /\ s["volume"] \in Volumes
           /\ s = [k \in Keys |-> s[k]]
           /\ \A t \in Settings : (\A k \in Keys : s[k] = t[k]) => s = t
<1>1. \A t \in Settings :
        /\ t["profile"] \in Names \ {""} /\ t["reduced_motion"] \in BOOLEAN /\ t["volume"] \in Volumes
        /\ DOMAIN t = Keys /\ t = [k \in DOMAIN t |-> t[k]]
  BY DEF Settings, Keys
<1>2. \A t \in Settings : t = [k \in Keys |-> t[k]]
  BY <1>1
<1>3. ASSUME NEW t \in Settings, \A k \in Keys : s[k] = t[k] PROVE s = t
  <2>1. [k \in Keys |-> s[k]] = [k \in Keys |-> t[k]]
    BY <1>3
  <2> QED BY <1>2, <2>1
<1> QED BY <1>1, <1>2, <1>3
LEMMA SettingsFromKeys ==
    ASSUME NEW s, s = [k \in Keys |-> s[k]], s["profile"] \in Names \ {""},
           s["reduced_motion"] \in BOOLEAN, s["volume"] \in Volumes
    PROVE  s \in Settings
<1> DEFINE r == [profile |-> s["profile"], reduced_motion |-> s["reduced_motion"], volume |-> s["volume"]]
<1>1. r = [k \in Keys |-> s[k]]
  BY DEF Keys
<1>2. r \in Settings
  BY DEF Settings
<1> QED BY <1>1, <1>2
LEMMA DefaultsAreSettings == DefaultSettings \in Settings
BY VolumesAssumption DEF DefaultSettings, Settings, Names

LEMMA WithDefaultsIsSettings ==
    ASSUME NEW p, PartKinds(p)
    PROVE  /\ WithDefaults(p) \in Settings
           /\ \A k \in Keys : p[k] # Missing => WithDefaults(p)[k] = p[k]
<1>1. WithDefaults(p) = [k \in Keys |-> WithDefaults(p)[k]]
  BY DEF WithDefaults
<1>2. \A k \in Keys : WithDefaults(p)[k] = IF p[k] = Missing THEN DefaultSettings[k] ELSE p[k]
  BY DEF WithDefaults
<1>3. /\ WithDefaults(p)["profile"] \in Names \ {""}
      /\ WithDefaults(p)["reduced_motion"] \in BOOLEAN
      /\ WithDefaults(p)["volume"] \in Volumes
  BY <1>2, DefaultsAreSettings, SettingsByKey DEF PartKinds, Keys
<1> QED BY <1>1, <1>2, <1>3, SettingsFromKeys

\* Lines of a file that ends early are those of the settings, or missing.
LEMMA PartOfSettings ==
    ASSUME NEW s \in Settings, NEW have,
           NEW p, p = [k \in Keys |-> IF k \in have THEN s[k] ELSE Missing]
    PROVE  PartKinds(p)
BY SettingsByKey DEF PartKinds, Keys
LEMMA WholeIsPart == ASSUME NEW s \in Settings PROVE PartKinds(s)
BY SettingsByKey DEF PartKinds
LEMMA PartialIsKinds ==
    ASSUME MissingIsNoValue, NEW p, PartKinds(p) PROVE p \in PartialSettings
<1> DEFINE s == WithDefaults(p)
           have == {k \in Keys : p[k] # Missing}
<1>1. s \in Settings /\ \A k \in Keys : p[k] # Missing => s[k] = p[k]
  BY WithDefaultsIsSettings
<1>2. p = [k \in Keys |-> IF k \in have THEN s[k] ELSE Missing]
  BY <1>1 DEF PartKinds
<1>3. p \in PartOf(s)
  BY <1>2 DEF PartOf
<1> QED BY <1>1, <1>3 DEF PartialSettings

\* Everything the wizard and its file make of a state is a state.
LEMMA BootStateIs ==
    ASSUME NEW b \in BootStates
    PROVE  /\ NoBoot \in BootStates /\ Normalize(b) \in BootStates
           /\ \A c \in BOOLEAN : [b EXCEPT !.completed = c] \in BootStates
           /\ \A n \in Names : [b EXCEPT !.name = n] \in BootStates
           /\ \A v \in Volumes : [b EXCEPT !.volume = v] \in BootStates
           /\ \A v \in Checks : [b EXCEPT !.confirmed = @ \union {v}] \in BootStates
           /\ b.name \in Names /\ b.volume \in Volumes \union {Missing} /\ b.completed \in BOOLEAN
<1>1. NoBoot \in BootStates
  BY DEF NoBoot, BootStates, Names
<1>2. Normalize(b) \in BootStates
  BY DEF Normalize, RequirementsSatisfied, BootStates
<1>3. /\ \A c \in BOOLEAN : [b EXCEPT !.completed = c] \in BootStates
      /\ \A n \in Names : [b EXCEPT !.name = n] \in BootStates
      /\ \A v \in Volumes : [b EXCEPT !.volume = v] \in BootStates
      /\ \A v \in Checks : [b EXCEPT !.confirmed = @ \union {v}] \in BootStates
  BY DEF BootStates
<1>4. b.name \in Names /\ b.volume \in Volumes \union {Missing} /\ b.completed \in BOOLEAN
  BY DEF BootStates
<1> QED BY <1>1, <1>2, <1>3, <1>4
LEMMA CutBootIs == ASSUME NEW b \in BootStates, NEW c \in CutBoot(b) PROVE c \in BootStates
<1>1. ASSUME NEW have \in {{}, {"controller"}, {"controller", "display"}, Checks}
      PROVE  [b EXCEPT !.confirmed = have, !.volume = Missing] \in BootStates
  BY DEF BootStates, Checks
<1>2. [NoBoot EXCEPT !.completed = b.completed] \in BootStates /\ NoBoot \in BootStates
  BY BootStateIs
<1> QED BY <1>1, <1>2 DEF CutBoot
LEMMA DoneIs ==
    ASSUME NEW d \in BootStates
    PROVE  Done(d) \in BootStates /\ SpaceTyped(Done(d)) \in BootStates
<1>1. \A n \in Names : WithSpace(n) \in Names
  BY DEF WithSpace, Names, Indented
<1>2. "Player" \in Names /\ {"controller", "display", "audio"} \subseteq Checks
  BY DEF Names, Checks
<1>3. Done(d) \in BootStates
  BY <1>2, BootStateIs DEF Done
<1>4. SpaceTyped(Done(d)) \in BootStates
  BY <1>1, <1>3, BootStateIs DEF SpaceTyped
<1> QED BY <1>3, <1>4

LEMMA ReplacedIs ==
    ASSUME NEW old, NEW new, NEW cut, NEW none, NEW r \in Replaced(old, new, cut, none)
    PROVE  /\ r[2] \in BOOLEAN
           /\ r[2] => r[1] \in {new} \union cut
           /\ ~r[2] => r[1] \in {old, none}
<1>1. ASSUME r \in cut \X {TRUE} PROVE r[2] = TRUE /\ r[1] \in cut
  BY <1>1
<1>2. ASSUME r = <<new, TRUE>> PROVE r[2] = TRUE /\ r[1] = new
  BY <1>2
<1>3. ASSUME NEW d \in {old, none}, r = <<d, FALSE>> PROVE r[2] = FALSE /\ r[1] = d
  BY <1>3
<1> QED BY <1>1, <1>2, <1>3 DEF Replaced

\* When Save returns, what is confirmed is what was saved, and otherwise nothing new.
LEMMA ReturnsIs ==
    ASSUME NEW ok \in BOOLEAN, Returns(ok), SettingsInv, save # "none"
    PROVE  /\ save' = "none" /\ mode' \in {"off", "apply", "appLoad", "app"}
           /\ settings' \in {settings, DefaultSettings}
           /\ \/ told' = told
              \/ told' = {settings} /\ ok
           /\ mode' = "app" => settings' = settings /\ (told' = {} \/ told' = {settings})
<1>1. /\ mode \in {"applyLoad", "apply", "appLoad", "app", "quit"}
      /\ mode # "quit" => told = {}
  BY DEF SettingsInv, SaveInv, SavesInside, ToldInv, SavingIsUntold
<1>2. CASE mode = "quit" \/ (mode = "apply" /\ ~ok)
  BY <1>1, <1>2 DEF Returns, ConsoleEnds
<1>3. CASE ~(mode = "quit" \/ (mode = "apply" /\ ~ok))
  BY <1>1, <1>3 DEF Returns, Loaded
<1> QED BY <1>2, <1>3

LEMMA NextKeepsSettingsInv ==
    ASSUME MissingIsNoValue, "read" \notin Faults, SettingsInv, [Next]_vars
    PROVE  SettingsInv'
<1> USE VolumesAssumption DEF SettingsInv
<1>1. CASE Start
  <2>1. SettingsKinds'
    <3>1. BootReads \subseteq BootStates
      BY BootStateIs DEF BootReads, SettingsKinds
    <3>2. PICK read \in BootReads, state \in BootReads :
            \/ /\ mode' = "wizard" /\ step' = 1 /\ misread' = (read # boot)
               /\ draft' = [Normalize(state) EXCEPT !.volume = IF @ = Missing THEN 80 ELSE @]
            \/ mode' = "appLoad" /\ UNCHANGED <<step, draft, misread>>
      BY <1>1 DEF Start
    <3>3. Normalize(state) \in BootStates
      BY <3>1, BootStateIs
    <3>4. draft' \in BootStates
      BY <3>2, <3>3, BootStateIs DEF SettingsKinds
    <3>5. misread' \in BOOLEAN
      BY <3>2 DEF SettingsKinds
    <3> QED BY <1>1, <3>2, <3>4, <3>5 DEF Start, SettingsKinds, disk
  <2>2. SaveInv'
    BY <1>1 DEF Start, IsRequired, Normalize, Keys, SettingsKinds, SaveInv, SavedSoFar,
       SavesInside, RowIsWritten, disk
  <2>3. ToldInv'
    BY <1>1 DEF Start, IsRequired, Normalize, Keys, SettingsKinds, SavesInside, SaveInv,
       ToldInv, ToldIsStored, ToldIsInMemory, SavingIsUntold, disk
  <2> QED BY <2>1, <2>2, <2>3
<1>2. CASE Back
  <2>1. SettingsKinds'
    <3>1. misread' \in BOOLEAN /\ draft' \in BootStates
      BY <1>2, BootStateIs DEF Back, WizardGone, SettingsKinds
    <3> QED BY <1>2, <3>1 DEF Back, WizardGone, SettingsKinds, disk
  <2>2. SaveInv'
    BY <1>2 DEF Back, WizardGone, NoBoot, Keys, SettingsKinds, SaveInv, SavedSoFar,
       SavesInside, RowIsWritten, disk
  <2>3. ToldInv'
    BY <1>2 DEF Back, WizardGone, NoBoot, Keys, SettingsKinds, SavesInside, SaveInv, ToldInv,
       ToldIsStored, ToldIsInMemory, SavingIsUntold, disk
  <2> QED BY <2>1, <2>2, <2>3
<1>3. CASE Close
  <2>1. SettingsKinds'
    <3>1. misread' \in BOOLEAN /\ draft' \in BootStates
      BY <1>3, BootStateIs DEF Close, WizardGone, SettingsKinds
    <3> QED BY <1>3, <3>1 DEF Close, WizardGone, SettingsKinds, disk
  <2>2. SaveInv'
    BY <1>3 DEF Close, WizardGone, NoBoot, Keys, SettingsKinds, SaveInv, SavedSoFar,
       SavesInside, RowIsWritten, disk
  <2>3. ToldInv'
    BY <1>3 DEF Close, WizardGone, NoBoot, Keys, SettingsKinds, SavesInside, SaveInv, ToldInv,
       ToldIsStored, ToldIsInMemory, SavingIsUntold, disk
  <2> QED BY <2>1, <2>2, <2>3
<1>4. CASE Edit
  <2>1. SettingsKinds'
    <3>1. draft' \in BootStates
      <4>1. PICK name \in Names : draft' = [draft EXCEPT !.name = name]
        BY <1>4 DEF Edit, Names
      <4> QED BY <4>1, BootStateIs DEF SettingsKinds
    <3> QED BY <1>4, <3>1 DEF Edit, SettingsKinds, disk
  <2>2. SaveInv'
    BY <1>4 DEF Edit, Indented, Keys, SettingsKinds, SaveInv, SavedSoFar, SavesInside,
       RowIsWritten, disk
  <2>3. ToldInv'
    BY <1>4 DEF Edit, Indented, Keys, SettingsKinds, SavesInside, SaveInv, ToldInv,
       ToldIsStored, ToldIsInMemory, SavingIsUntold, disk
  <2> QED BY <2>1, <2>2, <2>3
<1>5. CASE SetStartingVolume
  <2>1. SettingsKinds'
    <3>1. draft' \in BootStates
      BY <1>5, BootStateIs DEF SetStartingVolume, SettingsKinds
    <3> QED BY <1>5, <3>1 DEF SetStartingVolume, SettingsKinds, disk
  <2>2. SaveInv'
    BY <1>5 DEF SetStartingVolume, Keys, SettingsKinds, SaveInv, SavedSoFar, SavesInside,
       RowIsWritten, disk
  <2>3. ToldInv'
    BY <1>5 DEF SetStartingVolume, Keys, SettingsKinds, SavesInside, SaveInv, ToldInv,
       ToldIsStored, ToldIsInMemory, SavingIsUntold, disk
  <2> QED BY <2>1, <2>2, <2>3
<1>6. CASE Complete
  <2> DEFINE state == Normalize([draft EXCEPT !.completed = TRUE])
  <2>a. state \in BootStates /\ NoBoot \in BootStates
    BY BootStateIs DEF SettingsKinds
  <2>b. PICK r \in Replaced(boot, state, CutBoot(state), NoBoot) :
             /\ boot' = r[1]
             /\ \/ r[2] /\ mode' = "applyLoad" /\ WizardGone
                \/ ~r[2] /\ UNCHANGED <<mode, step, draft, misread>>
    BY <1>6 DEF Complete
  <2> HIDE DEF state
  <2>c. r[2] \in BOOLEAN /\ boot' \in BootStates /\ (~r[2] => boot' \in {boot, NoBoot})
    BY <2>a, <2>b, ReplacedIs, CutBootIs DEF SettingsKinds
  <2>d. mode = "wizard" /\ UNCHANGED <<settings, save, db, ini, told>>
    BY <1>6 DEF Complete
  <2>1. SettingsKinds'
    <3>1. misread' \in BOOLEAN
      BY <2>b DEF WizardGone, SettingsKinds
    <3> QED BY <2>a, <2>b, <2>c, <2>d, <3>1 DEF WizardGone, SettingsKinds
  <2>2. SaveInv'
    BY <2>b, <2>d DEF SaveInv, SavedSoFar, SavesInside, RowIsWritten
  <2>3. ToldInv'
    BY <2>b, <2>d DEF ToldInv, ToldIsStored, ToldIsInMemory, SavingIsUntold
  <2> QED BY <2>1, <2>2, <2>3
<1>7. CASE ApplyFirstBoot
  <2>1. SettingsKinds'
    <3>0. BootReads \subseteq BootStates
      BY BootStateIs DEF BootReads, SettingsKinds
    <3>1. settings' \in Settings
      <4>1. PICK b \in BootReads :
              settings' = [settings EXCEPT !.profile = IF b.name = "" THEN "Player" ELSE b.name,
                                           !.volume = IF b.volume = Missing THEN 80 ELSE b.volume]
        BY <1>7 DEF ApplyFirstBoot
      <4>2. b.name \in Names /\ b.volume \in Volumes \union {Missing}
        BY <3>0 DEF BootStates
      <4> QED BY <4>1, <4>2 DEF SettingsKinds, Settings, Names
    <3> QED BY <1>7, <3>1 DEF ApplyFirstBoot, SettingsKinds, Keys, disk
  <2>2. SaveInv'
    BY <1>7 DEF ApplyFirstBoot, Keys, SettingsKinds, SaveInv, SavedSoFar, SavesInside,
       RowIsWritten, disk
  <2>3. ToldInv'
    BY <1>7 DEF ApplyFirstBoot, Keys, SettingsKinds, SavesInside, SaveInv, ToldInv,
       ToldIsStored, ToldIsInMemory, SavingIsUntold, disk
  <2> QED BY <2>1, <2>2, <2>3
<1>8. ASSUME NEW space \in BOOLEAN, Advance(space) PROVE SettingsInv'
  <2>1. SettingsKinds'
    <3>1. step' \in 1..6
      <4>1. step # 6
        BY <1>8 DEF Advance, Steps
      <4> QED BY <1>8, <4>1 DEF Advance, SettingsKinds
    <3>2. draft' \in BootStates
      BY <1>8, DoneIs DEF Advance, SettingsKinds
    <3> QED BY <1>8, <3>1, <3>2 DEF Advance, SettingsKinds, disk
  <2>2. SaveInv'
    BY <1>8 DEF Advance, SpaceTyped, Done, WithSpace, Steps, Checks, Keys, SettingsKinds,
       SaveInv, SavedSoFar, SavesInside, RowIsWritten, disk
  <2>3. ToldInv'
    BY <1>8 DEF Advance, SpaceTyped, Done, WithSpace, Steps, Checks, Keys, SettingsKinds,
       SavesInside, SaveInv, ToldInv, ToldIsStored, ToldIsInMemory, SavingIsUntold, disk
  <2> QED BY <2>1, <2>2, <2>3
<1>9. CASE Load
  <2>a. Rows(Keys) = db
    BY DEF Rows, SettingsKinds, PartKinds
  <2>b. /\ mode \in {"applyLoad", "appLoad"} /\ save = "none"
        /\ LoadCanonical(db) \/ LoadLegacy(db) \/ LoadNothing(db)
        /\ UNCHANGED <<step, draft, boot, db, ini, misread, wanted, told>>
    BY <1>9, <2>a DEF Load, disk
  <2>c. settings' \in Settings
    BY <2>b, WithDefaultsIsSettings, DefaultsAreSettings
       DEF LoadCanonical, LoadLegacy, LoadNothing, SettingsKinds
  <2>d. ASSUME NEW s \in told
        PROVE  s \in Settings /\ HasCanonicalState(db) /\ WithDefaults(db) = s
    <3>1. s \in Settings /\ \A k \in Keys : db[k] = s[k] /\ s[k] # Missing
      <4>1. s \in Settings /\ \A k \in Keys : db[k] = s[k]
        BY DEF SettingsKinds, ToldInv, ToldIsStored
      <4>2. /\ s["profile"] # Missing /\ s["reduced_motion"] # Missing
            /\ s["volume"] # Missing
        BY <4>1, SettingsByKey DEF MissingIsNoValue
      <4> QED BY <4>1, <4>2 DEF Keys
    <3>2. WithDefaults(db) \in Settings /\ \A k \in Keys : WithDefaults(db)[k] = s[k]
      BY <3>1, WithDefaultsIsSettings DEF SettingsKinds
    <3>3. HasCanonicalState(db)
      BY <3>1 DEF HasCanonicalState, Keys
    <3> QED BY <3>1, <3>2, <3>3, SettingsByKey
  <2>e. \/ /\ mode' \in {"apply", "app"} /\ save' = "none"
           /\ \A s \in told : settings' = s
        \/ mode' = mode /\ save' = "profile" /\ told = {}
    BY <2>b, <2>d DEF LoadCanonical, LoadLegacy, LoadNothing, Loaded
  <2>1. SettingsKinds'
    BY <2>b, <2>c, <2>e DEF SettingsKinds, Keys
  <2>2. SaveInv'
    BY <2>b, <2>e DEF SaveInv, SavedSoFar, SavesInside
  <2>3. ToldInv'
    BY <2>b, <2>e DEF ToldInv, ToldIsStored, ToldIsInMemory, SavingIsUntold
  <2> QED BY <2>1, <2>2, <2>3
<1>10. CASE WriteMirror
  <2>a. PICK r \in Replaced(ini, {settings}, {{lines} : lines \in CutIni(settings)}, {}) :
             ini' = r[1] /\ Returns(r[2])
    BY <1>10 DEF WriteMirror
  <2>b. /\ save = "mirror" /\ UNCHANGED <<step, draft, boot, db, misread, wanted>>
        /\ \A k \in Keys : db[k] = settings[k]
    BY <1>10 DEF WriteMirror, SaveInv, SavedSoFar, RowIsWritten, Keys
  <2>c. /\ r[2] \in BOOLEAN
        /\ ini' \in {ini, {settings}, {}} \union {{lines} : lines \in CutIni(settings)}
    BY <2>a, ReplacedIs
  <2>d. \A lines \in ini' : PartKinds(lines)
    <3>1. \A p \in CutIni(settings) : PartKinds(p)
      BY PartOfSettings DEF CutIni, SettingsKinds
    <3> QED BY <2>c, <3>1, WholeIsPart DEF SettingsKinds
  <2>e. /\ save' = "none" /\ mode' \in {"off", "apply", "appLoad", "app"}
        /\ settings' \in {settings, DefaultSettings}
        /\ told' = told \/ told' = {settings}
        /\ mode' = "app" => settings' = settings /\ (told' = {} \/ told' = {settings})
    BY <2>a, <2>b, <2>c, ReturnsIs
  <2>1. SettingsKinds'
    BY <2>b, <2>d, <2>e, DefaultsAreSettings DEF SettingsKinds
  <2>2. SaveInv'
    BY <2>e DEF SaveInv, SavedSoFar, SavesInside
  <2>3. ToldInv'
    BY <2>b, <2>e DEF ToldInv, ToldIsStored, ToldIsInMemory, SavingIsUntold
  <2> QED BY <2>1, <2>2, <2>3
<1>11. ASSUME NEW k \in Keys, SetSetting(k) PROVE SettingsInv'
  <2>a. CASE /\ db' = [db EXCEPT ![k] = settings[k]] /\ save' = Following(k)
             /\ UNCHANGED <<mode, settings, told>>
    <3>1. save = k /\ UNCHANGED <<step, draft, boot, ini, misread>>
      BY <1>11 DEF SetSetting
    <3>2. /\ PartKinds(db') /\ db'[k] = settings[k]
          /\ \A j \in Keys \ {k} : db'[j] = db[j]
      BY <2>a, SettingsByKey DEF SettingsKinds, PartKinds, Keys
    <3>3. SettingsKinds'
      BY <2>a, <3>1, <3>2 DEF SettingsKinds, Keys, Following
    <3>4. SaveInv'
      BY <2>a, <3>1, <3>2 DEF SaveInv, SavedSoFar, SavesInside, RowIsWritten, Keys, Following
    <3>5. ToldInv'
      <4>1. \A s \in told : settings = s
        BY <3>1 DEF ToldInv, SavingIsUntold, ToldIsInMemory, Keys
      <4> QED BY <2>a, <3>1, <3>2, <4>1 DEF ToldInv, ToldIsStored, ToldIsInMemory, SavingIsUntold, Keys
    <3> QED BY <3>3, <3>4, <3>5
  <2>b. CASE AfterFailure /\ UNCHANGED db
    <3>1. save = k /\ k \in Keys /\ UNCHANGED <<step, draft, boot, ini, db, misread>>
      BY <1>11, <2>b DEF SetSetting
    <3>2. /\ save' = "none" /\ mode' \in {"off", "apply", "appLoad", "app"}
          /\ settings' \in {settings, DefaultSettings} /\ told' = told
          /\ mode' = "app" => settings' = settings /\ (told' = {} \/ told' = {settings})
      BY <2>b, <3>1, ReturnsIs DEF AfterFailure, Keys
    <3>3. SettingsKinds'
      BY <3>1, <3>2, DefaultsAreSettings DEF SettingsKinds
    <3>4. SaveInv'
      BY <3>2 DEF SaveInv, SavedSoFar, SavesInside
    <3>5. ToldInv'
      BY <3>1, <3>2 DEF ToldInv, ToldIsStored, ToldIsInMemory, SavingIsUntold
    <3> QED BY <3>3, <3>4, <3>5
  <2> QED BY <1>11, <2>a, <2>b DEF SetSetting
<1>12. CASE ChangeSetting
  <2>1. SettingsKinds'
    <3>1. settings' \in Settings
      BY <1>12 DEF ChangeSetting, SettingsKinds, Settings
    <3> QED BY <1>12, <3>1 DEF ChangeSetting, SettingsKinds, Keys, disk
  <2>2. SaveInv'
    BY <1>12 DEF ChangeSetting, Keys, SettingsKinds, SaveInv, SavedSoFar, SavesInside,
       RowIsWritten, disk
  <2>3. ToldInv'
    BY <1>12 DEF ChangeSetting, Keys, SettingsKinds, SavesInside, SaveInv, ToldInv,
       ToldIsStored, ToldIsInMemory, SavingIsUntold, disk
  <2> QED BY <2>1, <2>2, <2>3
<1>13. CASE Quit
  <2>1. SettingsKinds'
    BY <1>13 DEF Quit, SettingsKinds, Keys, Names, disk
  <2>2. SaveInv'
    BY <1>13 DEF Quit, Keys, SettingsKinds, SaveInv, SavedSoFar, SavesInside, RowIsWritten,
       disk
  <2>3. ToldInv'
    BY <1>13 DEF Quit, Keys, SettingsKinds, SavesInside, SaveInv, ToldInv, ToldIsStored,
       ToldIsInMemory, SavingIsUntold, disk
  <2> QED BY <2>1, <2>2, <2>3
<1>14. CASE ConsoleDies
  <2>1. SettingsKinds'
    <3>1. misread' \in BOOLEAN /\ draft' \in BootStates
      <4>1. NoBoot \in BootStates
        BY BootStateIs DEF NoBoot, Names, SettingsKinds
      <4> QED BY <1>14, <4>1 DEF ConsoleDies, WizardGone, SettingsKinds
    <3> QED
      BY <1>14, <3>1, DefaultsAreSettings
         DEF ConsoleDies, ConsoleEnds, WizardGone, SettingsKinds, disk
  <2>2. SaveInv'
    BY <1>14, DefaultsAreSettings DEF ConsoleDies, WizardGone, NoBoot, ConsoleEnds, Keys,
       SettingsKinds, SaveInv, SavedSoFar, SavesInside, RowIsWritten, disk
  <2>3. ToldInv'
    BY <1>14, DefaultsAreSettings DEF ConsoleDies, WizardGone, NoBoot, ConsoleEnds, Keys,
       SettingsKinds, SavesInside, SaveInv, ToldInv, ToldIsStored, ToldIsInMemory,
       SavingIsUntold, disk
  <2> QED BY <2>1, <2>2, <2>3
<1>15. CASE UNCHANGED vars
  BY <1>15 DEF vars, memory, SettingsKinds, SaveInv, SavedSoFar, SavesInside, RowIsWritten,
       ToldInv, ToldIsStored, ToldIsInMemory, SavingIsUntold, disk
<1> QED
  BY <1>1, <1>2, <1>3, <1>4, <1>5, <1>6, <1>7, <1>8, <1>9, <1>10, <1>11, <1>12, <1>13,
       <1>14, <1>15 DEF Next

LEMMA SettingsInitEstablishes == Init => SettingsInv
<1> SUFFICES ASSUME Init PROVE SettingsInv
  OBVIOUS
<1>1. NoBoot \in BootStates
  BY DEF NoBoot, BootStates, Names
<1>2. boot \in BootStates
  <2> DEFINE done == [completed |-> TRUE, name |-> "Player", confirmed |-> Checks, volume |-> 80]
  <2>1. done \in BootStates
    BY VolumesAssumption DEF BootStates, Names
  <2> QED BY <1>1, <2>1 DEF Init
<1>3. PartKinds(db) /\ \A lines \in ini : PartKinds(lines)
  BY WholeIsPart DEF Init, NoSettings, PartKinds, Keys
<1>4. SettingsKinds
  <2>1. misread \in BOOLEAN
    BY DEF Init
  <2> QED BY <1>1, <1>2, <1>3, <2>1, DefaultsAreSettings DEF Init, SettingsKinds
<1>5. SaveInv /\ ToldInv
  BY DEF Init, SaveInv, SavedSoFar, SavesInside, ToldInv, ToldIsStored, ToldIsInMemory,
     SavingIsUntold
<1> QED BY <1>4, <1>5 DEF SettingsInv
LEMMA SettingsInvLoads == SettingsInv => ConfirmedIsLoaded
BY DEF SettingsInv, ToldInv, ToldIsInMemory, ConfirmedIsLoaded
LEMMA SettingsInvTypes == ASSUME MissingIsNoValue PROVE SettingsInv => TypeOK
BY PartialIsKinds DEF SettingsInv, SettingsKinds, BootStates, TypeOK

\* The wizard runs for a setup that is not finished or was not read, and nothing else writes the
\* file of the setup.
WizardIsRequired == mode = "wizard" => ~Finished \/ misread
LEMMA SetupStep ==
    ASSUME WizardIsRequired, [Next]_vars
    PROVE  /\ WizardIsRequired'
           /\ Finished /\ mode' = "wizard" => misread'
           /\ Finished => Finished' \/ (misread /\ Steps[step] = "Complete")
<1>1. CASE Complete
  <2> DEFINE state == Normalize([draft EXCEPT !.completed = TRUE])
  <2>1. PICK r \in Replaced(boot, state, CutBoot(state), NoBoot) :
             boot' = r[1] /\ (mode' = "applyLoad" \/ (~r[2] /\ misread' = misread))
    BY <1>1 DEF Complete
  <2> HIDE DEF state
  <2>2. mode' = "applyLoad" \/ (boot' \in {boot, NoBoot} /\ misread' = misread)
    BY <2>1, ReplacedIs
  <2>3. mode = "wizard" /\ Steps[step] = "Complete" /\ ~Normalize(NoBoot).completed
    BY <1>1 DEF Complete, Normalize, NoBoot
  <2> QED BY <2>2, <2>3 DEF WizardIsRequired, Finished
<1>2. CASE Start
  BY <1>2 DEF Start, WizardIsRequired, IsRequired, Finished, disk
<1>3. CASE Load
  BY <1>3 DEF Load, LoadCanonical, LoadLegacy, LoadNothing, Loaded, WizardIsRequired, Finished, disk
<1>4. CASE WriteMirror \/ \E k \in Keys : SetSetting(k)
  <2>1. boot' = boot /\ misread' = misread /\ (UNCHANGED mode \/ \E ok : Returns(ok))
    BY <1>4 DEF WriteMirror, SetSetting, AfterFailure
  <2>2. ASSUME NEW ok, Returns(ok) PROVE mode' # "wizard"
    BY <2>2 DEF Returns, ConsoleEnds, Loaded
  <2> QED BY <2>1, <2>2 DEF WizardIsRequired, Finished
<1>5. CASE Back \/ Close \/ Edit \/ SetStartingVolume \/ \E space \in BOOLEAN : Advance(space)
  BY <1>5 DEF Back, Close, Edit, SetStartingVolume, Advance, WizardIsRequired, Finished, disk
<1>6. CASE ApplyFirstBoot \/ ChangeSetting \/ Quit \/ ConsoleDies
  BY <1>6 DEF ApplyFirstBoot, ChangeSetting, Quit, ConsoleDies, ConsoleEnds, WizardIsRequired,
     Finished, disk
<1>7. CASE UNCHANGED vars
  BY <1>7 DEF vars, memory, disk, WizardIsRequired, Finished
<1> QED BY <1>1, <1>2, <1>3, <1>4, <1>5, <1>6, <1>7 DEF Next

\* A finished setup is asked for again only where its file could not be read, and is lost only by
\* going through that wizard to its end, whichever reads and writes fail.
THEOREM SetupStays == Spec => SetupSticks
<1>1. Init => WizardIsRequired
  BY DEF Init, WizardIsRequired
<1>2. WizardIsRequired /\ [Next]_vars =>
        /\ WizardIsRequired'
        /\ [/\ Finished /\ mode' = "wizard" => misread'
            /\ Finished => Finished' \/ (misread /\ Steps[step] = "Complete")]_vars
  BY SetupStep
<1> QED BY <1>1, <1>2, PTL DEF Spec, SetupSticks

\* Where rows can be read, settings and what was confirmed of them stay sound.
LEMMA SettingsStaySound ==
    ASSUME MissingIsNoValue, "read" \notin Faults PROVE Spec => []SettingsInv
BY SettingsInitEstablishes, NextKeepsSettingsInv, PTL DEF Spec

\* The variables of setup and settings keep their kinds.
THEOREM SettingsTypes == ASSUME MissingIsNoValue, "read" \notin Faults PROVE Spec => []TypeOK
BY SettingsStaySound, SettingsInvTypes, PTL

\* The settings of which the player was told that they are kept are those the console loads.
THEOREM SettingsStay ==
    ASSUME MissingIsNoValue, "read" \notin Faults PROVE Spec => []ConfirmedIsLoaded
BY SettingsStaySound, SettingsInvLoads, PTL

-----------------------------------------------------------------------------
(* The composition.                                                        *)

\* Every part of the composition behaves as it does alone.
THEOREM PartsBehave == PersistenceSpec => Spec /\ StoresSpec /\ ImportSpec /\ IdentitySpec
<1>1. PersistenceInit => Init /\ StoresInit /\ ImportInit /\ IdentityInit
  BY DEF PersistenceInit
<1>2. [PersistenceNext]_<<part, vars, storesVars, importVars, identityVars>> =>
        [Next]_vars /\ [StoresNext]_storesVars /\ [ImportNext]_importVars /\ [IdentityNext]_identityVars
  BY DEF PersistenceNext, SettingsStep, StoresStep, ImportStep, IdentityStep
<1> QED BY <1>1, <1>2, PTL DEF PersistenceSpec, Spec, StoresSpec, ImportSpec, IdentitySpec

\* What the player or a game was told is kept is there: the Resume, the achievements, the
\* settings, the identity.  Rows that cannot be read are excepted, as they are for the settings.
THEOREM ConfirmedStays ==
    ASSUME StoresConstantsOK, IdentityConstantsOK, MissingIsNoValue, "read" \notin Faults
    PROVE  PersistenceSpec => []ConfirmedIsKept
BY PartsBehave, RecordsStay, SettingsStay, IdentityStays, PTL DEF ConfirmedIsKept
=============================================================================
