---------------------------- MODULE GameImport ----------------------------
(***************************************************************************)
(* The installation of one game in the library: GameImportService of       *)
(* src/src/GameImportService.cpp, called by the shell or through           *)
(* ProductionPackagePlatform::Execute.  Three directories hold copies of   *)
(* the package: the installed one, Library/.staging/<id> and               *)
(* Library/.repair-backup/<id>.  Every call of the file system may fail,   *)
(* remove_all and copy may stop half-way, and the console may die between  *)
(* any two calls; the directories stay as they are.                        *)
(*                                                                         *)
(* Operations run one at a time on the UI thread.  Packages are           *)
(* independent of each other: all paths end in the package id.             *)
(***************************************************************************)
CONSTANT Versions   \* the versions of the game that can be imported

VARIABLES
    pc,         \* where the operation in progress stands
    op,         \* the operation: its kind, its caller and the version of its source
    installed,  \* Library/<id>
    staging,    \* Library/.staging/<id>
    backup,     \* Library/.repair-backup/<id>
    outcome,    \* what the last operation told its caller
    stage,      \* result.stage of ProductionPackagePlatform
    before      \* history: the installed directory when the last operation began

directories == <<installed, staging, backup>>
importVars == <<pc, op, directories, outcome, stage, before>>

\* A directory holds a version.  It is partial after an interrupted copy or removal,
\* copied until its integrity manifest is written, and verifies only when sealed.
Conditions == {"partial", "copied", "sealed", "damaged"}
NoDirectory == [version |-> "none", is |-> "none"]
Directory == {NoDirectory} \union [version : Versions, is : Conditions]
Exists(d) == d # NoDirectory
Become(d, condition) == [d EXCEPT !.is = condition]

Operations == [kind : {"import", "repair"}, by : {"shell", "platform"}, version : Versions]
Stages == {"none", "VerifyTrust", "StageAndCommit", "VerifyInstalledPackage", "Ready"}

\* The messages of ImportResult.error, as far as they say what became of the game;
\* "late" is the platform's refusal of a package that is already committed.
Outcomes == {"none", "success", "rejected", "unchanged", "removed", "activation_restored",
             "stranded", "verification_restored", "lost", "late"}
Places == {"idle", "clean", "copy", "check", "seal", "drop", "decide", "finalize", "verifynew",
           "removenew", "prepare", "clear", "setaside", "activate", "rollback", "discard",
           "verify", "removebad", "restore", "forget", "recheck"}

Goto(place) == pc' = place

\* remove_all: the directory is gone, or the call failed at once or in the middle.
Removals(d) == {NoDirectory, d} \union {Become(e, "partial") : e \in {d} \ {NoDirectory}}

\* PackageIntegrityVerifier::Verify; a mutant does not look.
VerifiesAnyway(d) == TRUE
Verifies(d) == d.is = "sealed"

\* BuildInventory and Equivalent: the copy has the files and digests of its source.
InventoryAgrees(d) == d.is \in {"copied", "sealed"}

\* WriteIntegrityManifest.
Sealed(d) == Become(d, "sealed")

\* The operation is over; the platform looks at a committed package once more.
EndWith(what) ==
    /\ outcome' = what
    /\ IF what = "success" /\ op.by = "platform"
       THEN Goto("recheck") /\ stage' = "VerifyInstalledPackage"
       ELSE Goto("idle") /\ UNCHANGED stage

-----------------------------------------------------------------------------
(* stagePackage.                                                           *)

\* The request, the manifest, the trust or the inventory of the source is refused.
Refuse ==
    /\ pc = "idle"
    /\ op' \in Operations
    /\ stage' \in IF op'.by = "shell" THEN {"none"} ELSE {"none", "VerifyTrust", "StageAndCommit"}
    /\ outcome' = "rejected"
    /\ before' = installed
    /\ UNCHANGED <<pc, directories>>

Begin ==
    /\ pc = "idle"
    /\ op' \in Operations
    /\ stage' = IF op'.by = "shell" THEN "none" ELSE "StageAndCommit"
    /\ outcome' = "none"
    /\ before' = installed
    /\ Goto("clean")
    /\ UNCHANGED directories

\* What an earlier operation left is removed, a failure to do so ignored.
CleanStaging ==
    /\ pc = "clean"
    /\ staging' \in Removals(staging)
    /\ \/ Goto("copy") /\ UNCHANGED <<outcome, stage>>
       \/ EndWith("unchanged")
    /\ UNCHANGED <<op, installed, backup, before>>

\* What copy leaves: also without an error it may differ from the inventory, when
\* the source changes or old files are in the way.
Copies(v) == [version : {v}, is : {"copied", "partial"}]

CopySource ==
    /\ pc = "copy"
    /\ staging' \in Copies(op.version)
    /\ Goto("check") \/ Goto("drop")
    /\ UNCHANGED <<op, installed, backup, outcome, stage, before>>

\* Both inventories agree and the staged manifest names the package.
CheckStaging ==
    /\ pc = "check"
    /\ \/ InventoryAgrees(staging) /\ Goto("seal")
       \/ Goto("drop")
    /\ UNCHANGED <<op, directories, outcome, stage, before>>

SealStaging ==
    /\ pc = "seal"
    /\ \/ staging' = Sealed(staging) /\ Goto("decide")
       \/ Goto("drop") /\ UNCHANGED staging
    /\ UNCHANGED <<op, installed, backup, outcome, stage, before>>

\* An operation that has not touched the installed game removes its staging copy.
DropStaging ==
    /\ pc = "drop"
    /\ staging' \in Removals(staging)
    /\ EndWith("unchanged")
    /\ UNCHANGED <<op, installed, backup, before>>

-----------------------------------------------------------------------------
(* ImportFolder and RepairFolder.                                          *)

\* A game that is already there is replaced; a repair needs one.
Decide ==
    /\ pc = "decide"
    /\ \/ Exists(installed) /\ Goto("prepare")
       \/ ~Exists(installed) /\ op.kind = "import" /\ Goto("finalize")
       \/ ~Exists(installed) /\ op.kind = "repair" /\ Goto("drop")
    /\ UNCHANGED <<op, directories, outcome, stage, before>>

Finalize ==
    /\ pc = "finalize"
    /\ \/ /\ ~Exists(installed)
          /\ installed' = staging /\ staging' = NoDirectory
          /\ Goto("verifynew")
       \/ Goto("drop") /\ UNCHANGED <<installed, staging>>
    /\ UNCHANGED <<op, backup, outcome, stage, before>>

\* The verification fails when the copy is not whole or cannot be read.
VerifyNew ==
    /\ pc = "verifynew"
    /\ \/ Verifies(installed) /\ EndWith("success")
       \/ Goto("removenew") /\ UNCHANGED <<outcome, stage>>
    /\ UNCHANGED <<op, directories, before>>

RemoveNew ==
    /\ pc = "removenew"
    /\ installed' \in Removals(installed)
    /\ EndWith("removed")
    /\ UNCHANGED <<op, staging, backup, before>>

-----------------------------------------------------------------------------
(* activateReplacement.                                                    *)

PrepareBackup ==
    /\ pc = "prepare"
    /\ Goto("clear") \/ Goto("drop")
    /\ UNCHANGED <<op, directories, outcome, stage, before>>

ClearBackup ==
    /\ pc = "clear"
    /\ backup' \in Removals(backup)
    /\ Goto("setaside")
    /\ UNCHANGED <<op, installed, staging, outcome, stage, before>>

SetAside ==
    /\ pc = "setaside"
    /\ \/ /\ ~Exists(backup)
          /\ backup' = installed /\ installed' = NoDirectory
          /\ Goto("activate")
       \/ Goto("drop") /\ UNCHANGED <<installed, backup>>
    /\ UNCHANGED <<op, staging, outcome, stage, before>>

Activate ==
    /\ pc = "activate"
    /\ \/ /\ installed' = staging /\ staging' = NoDirectory
          /\ Goto("verify")
       \/ Goto("rollback") /\ UNCHANGED <<installed, staging>>
    /\ UNCHANGED <<op, backup, outcome, stage, before>>

\* The rename back, whose error code the next call overwrites.
Rollback ==
    /\ pc = "rollback"
    /\ \/ installed' = backup /\ backup' = NoDirectory
       \/ UNCHANGED <<installed, backup>>
    /\ Goto("discard")
    /\ UNCHANGED <<op, staging, outcome, stage, before>>

\* The message follows the error code, which is now that of this removal.
DiscardStaging ==
    /\ pc = "discard"
    /\ staging' \in Removals(staging)
    /\ EndWith(IF Exists(staging') THEN "stranded" ELSE "activation_restored")
    /\ UNCHANGED <<op, installed, backup, before>>

VerifyReplacement ==
    /\ pc = "verify"
    /\ \/ Verifies(installed) /\ Goto("forget")
       \/ Goto("removebad")
    /\ UNCHANGED <<op, directories, outcome, stage, before>>

RemoveBad ==
    /\ pc = "removebad"
    /\ installed' \in Removals(installed)
    /\ Goto("restore")
    /\ UNCHANGED <<op, staging, backup, outcome, stage, before>>

\* The message after the rename back; a mutant does not look at its error code.
AlwaysRestored(moved) == "verification_restored"
RestoreOutcome(moved) == IF moved THEN "verification_restored" ELSE "lost"

Restore ==
    /\ pc = "restore"
    /\ \/ /\ ~Exists(installed)
          /\ installed' = backup /\ backup' = NoDirectory
          /\ EndWith(RestoreOutcome(TRUE))
       \/ /\ EndWith(RestoreOutcome(FALSE))
          /\ UNCHANGED <<installed, backup>>
    /\ UNCHANGED <<op, staging, before>>

ForgetBackup ==
    /\ pc = "forget"
    /\ backup' \in Removals(backup)
    /\ EndWith("success")
    /\ UNCHANGED <<op, installed, staging, before>>

-----------------------------------------------------------------------------
(* ProductionPackagePlatform::Execute, and the world outside.              *)

\* The committed package is verified again and its manifest compared.
Recheck ==
    /\ pc = "recheck"
    /\ Goto("idle")
    /\ \/ Verifies(installed) /\ stage' = "Ready" /\ UNCHANGED outcome
       \/ outcome' = "late" /\ UNCHANGED stage
    /\ UNCHANGED <<op, directories, before>>

\* The disk, a virus scanner or the player changes a file of the installed game.
Damage ==
    /\ installed.is = "sealed"
    /\ pc \in {"idle", "verify", "verifynew"}
    /\ installed' = Become(installed, "damaged")
    /\ IF pc = "idle"
       THEN before' = installed' /\ outcome' = "none" /\ stage' = "none"
       ELSE UNCHANGED <<before, outcome, stage>>
    /\ UNCHANGED <<pc, op, staging, backup>>

\* The console dies: a copy or removal in progress may be half done.
Crash ==
    /\ pc # "idle"
    /\ Goto("idle")
    /\ outcome' = "none" /\ stage' = "none"
    /\ staging' \in CASE pc \in {"clean", "drop", "discard"} -> Removals(staging)
                      [] pc = "copy" -> {staging} \union Copies(op.version)
                      [] OTHER -> {staging}
    /\ installed' \in IF pc \in {"removenew", "removebad"} THEN Removals(installed)
                      ELSE {installed}
    /\ backup' \in IF pc \in {"clear", "forget"} THEN Removals(backup) ELSE {backup}
    /\ UNCHANGED <<op, before>>

-----------------------------------------------------------------------------
ImportInit ==
    /\ pc = "idle"
    /\ op \in Operations
    /\ installed = NoDirectory /\ staging = NoDirectory /\ backup = NoDirectory
    /\ outcome = "none" /\ stage = "none" /\ before = NoDirectory

Stage == Refuse \/ Begin \/ CleanStaging \/ CopySource \/ CheckStaging \/ SealStaging \/ DropStaging
Install == Decide \/ Finalize \/ VerifyNew \/ RemoveNew
Replace ==
    \/ PrepareBackup \/ ClearBackup \/ SetAside \/ Activate \/ Rollback \/ DiscardStaging
    \/ VerifyReplacement \/ RemoveBad \/ Restore \/ ForgetBackup

ImportNext == Stage \/ Install \/ Replace \/ Recheck \/ Damage \/ Crash
ImportSpec == ImportInit /\ [][ImportNext]_importVars

-----------------------------------------------------------------------------
(* Properties.                                                             *)

\* Every variable stays in its range.
ImportTypeOK ==
    /\ pc \in Places
    /\ op \in Operations
    /\ {installed, staging, backup, before} \subseteq Directory
    /\ outcome \in Outcomes
    /\ stage \in Stages

\* Whatever fails and whenever the console dies, a game that was whole when an
\* operation began is still whole: where it was, replaced, or in the rollback storage.
RollbackIsPossible ==
    before.is = "sealed" => installed.is = "sealed" \/ backup = before

\* An operation that reports success, or Ready, has left the requested version whole.
SuccessIsVerified ==
    outcome = "success" \/ stage = "Ready" =>
        installed.is = "sealed" /\ installed.version = op.version

\* After a refusal, a failure before the activation or a failed verification that
\* reports a restored installation the game is what it was.
FailureLeavesTheGame ==
    outcome \in {"rejected", "unchanged", "verification_restored"} => installed = before

\* After a failed activation, whichever of its two messages the caller got, nothing of the new
\* version is in the library and the game is what it was in one place: the library or the rollback
\* storage, which of them the message does not tell (see ActivationMessageIsTrue).  A game that
\* could not be restored after its verification is in the rollback storage, and a new one that is
\* reported as invalid replaced nothing.
FailureKeepsTheGame ==
    /\ outcome \in {"activation_restored", "stranded"} =>
         \/ installed = before /\ ~Exists(backup)
         \/ ~Exists(installed) /\ backup = before
    /\ outcome = "lost" => backup = before
    /\ outcome = "removed" => before = NoDirectory

\* What a caller can rely on after each message of an import or a repair.
OutcomeIsReliable == SuccessIsVerified /\ FailureLeavesTheGame /\ FailureKeepsTheGame

\* What the messages of a failed activation say is so: restored, or still in the
\* rollback storage (GameImportService.cpp:126-128).
ActivationMessageIsTrue ==
    /\ outcome = "activation_restored" => installed = before
    /\ outcome = "stranded" => backup = before

\* Between operations a whole game is never missing from the library: importing is
\* atomic, also when the console dies in it (docs/ARCHITECTURE.md:101).
ActivationIsAtomic == pc = "idle" /\ before.is = "sealed" => installed.is = "sealed"
=============================================================================
