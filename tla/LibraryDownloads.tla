-------------------------- MODULE LibraryDownloads --------------------------
(***************************************************************************)
(* The library, its downloads and its updates:                             *)
(* src/src/v5/LibraryDownloadAuthority.cpp.  A page starts the download of *)
(* what the library offers to install, or of an update plan that           *)
(* UpdateAuthority accepts; whatever moves the bytes reports states and    *)
(* counts in any order; and the library is told of the version that is     *)
(* installed when its download is ready.  The page and the mover of bytes  *)
(* are not in the repository.                                              *)
(*                                                                         *)
(* Left out: favourites, the order of the entries, texts of failures.      *)
(***************************************************************************)
EXTENDS Integers

CONSTANTS
    Contents, Managed,      \* managed content is updated by the service only
    Versions,               \* positive numbers; 0 is an empty version
    Jobs, NoJob,
    TotalBytes

InstallStates == {"NotInstalled", "Installing", "Installed", "UpdateAvailable", "RepairRequired", "Unavailable"}
DownloadStates == {"Queued", "Downloading", "Paused", "Verifying", "Staging", "Ready", "Failed", "Cancelled"}

Entry == [installState : InstallStates, installedVersion : Versions \cup {0}, cloudReady : BOOLEAN]
Job == [content : Contents, version : Versions, completed : 0 .. TotalBytes, state : DownloadStates]
Plan == [content : Contents, installed : Versions \cup {0}, target : Versions \cup {0},
         authority : {"None", "LocalPackage", "ZeroService"}]

\* What is required of the constants.
LibraryConstantsOK == Versions \subseteq Nat \ {0} /\ TotalBytes \in Nat \ {0} /\ NoJob \notin Job

VARIABLES
    entries,        \* entries_ of the library
    jobs,           \* jobs_ of the downloads
    verified        \* history: the jobs whose bytes were verified since they last failed

libraryVars == <<entries, jobs, verified>>

-----------------------------------------------------------------------------
(* The library.                                                            *)

HoldsAVersion(state) == state \in {"Installed", "UpdateAvailable", "RepairRequired"}

ValidEntry(e) == HoldsAVersion(e.installState) => e.installedVersion # 0

Upsert ==
    \E c \in Contents, e \in Entry :
        /\ ValidEntry(e)
        /\ entries' = [entries EXCEPT ![c] = e]
        /\ UNCHANGED <<jobs, verified>>

PrimaryAction(e) ==
    CASE e.installState = "NotInstalled" -> IF e.cloudReady THEN "PlayCloud" ELSE "Install"
      [] e.installState = "Installed" -> "PlayLocal"
      [] e.installState = "UpdateAvailable" -> "Update"
      [] e.installState = "RepairRequired" -> "Repair"
      [] OTHER -> "None"

Validate(e, plan) ==
    /\ plan.authority # "None"
    /\ plan.content \in Managed => plan.authority = "ZeroService"
    /\ e.installState \in {"UpdateAvailable", "RepairRequired"}
    /\ 0 \notin {plan.installed, plan.target}
    /\ plan.installed = e.installedVersion /\ plan.target # plan.installed

-----------------------------------------------------------------------------
(* The downloads.                                                          *)

Successors(from) ==
    CASE from = "Queued" -> {"Downloading", "Cancelled", "Failed"}
      [] from = "Downloading" -> {"Paused", "Verifying", "Cancelled", "Failed"}
      [] from = "Paused" -> {"Downloading", "Cancelled", "Failed"}
      [] from = "Verifying" -> {"Staging", "Failed"}
      [] from = "Staging" -> {"Ready", "Failed"}
      [] from = "Failed" -> {"Queued"}
      [] OTHER -> {}

Allowed(from, to) == from = to \/ to \in Successors(from)

\* A mutant takes any count for the bytes of a job that is to be verified.
AnyProgress(job, next, bytes) == job.completed <= bytes /\ bytes <= TotalBytes

Progress(job, next, bytes) ==
    /\ job.completed <= bytes /\ bytes <= TotalBytes
    /\ next \in {"Verifying", "Ready"} => bytes = TotalBytes

\* A job has a name that no job had, and starts from the beginning whatever its caller filled in.
Enqueue(j, c, v) ==
    /\ jobs[j] = NoJob
    /\ jobs' = [jobs EXCEPT ![j] = [content |-> c, version |-> v, completed |-> 0, state |-> "Queued"]]
    /\ UNCHANGED <<entries, verified>>

\* The page starts what the library offers: an installation, or a plan that is accepted.
Request ==
    \E j \in Jobs, c \in Contents, v \in Versions :
        /\ \/ PrimaryAction(entries[c]) = "Install"
           \/ \E plan \in Plan : plan.content = c /\ plan.target = v /\ Validate(entries[c], plan)
        /\ Enqueue(j, c, v)

Transition ==
    \E j \in Jobs, next \in DownloadStates, bytes \in 0 .. TotalBytes :
        /\ jobs[j] # NoJob
        /\ Allowed(jobs[j].state, next) /\ Progress(jobs[j], next, bytes)
        /\ jobs' = [jobs EXCEPT ![j].state = next, ![j].completed = bytes]
        /\ verified' = CASE jobs[j].state = "Verifying" /\ next = "Staging" -> verified \cup {j}
                         [] next = "Failed" -> verified \ {j}
                         [] OTHER -> verified
        /\ UNCHANGED entries

\* The page tells the library of the version that is ready, if the library still waits for it.
Installed ==
    \E j \in Jobs :
        /\ jobs[j] # NoJob /\ jobs[j].state = "Ready"
        /\ PrimaryAction(entries[jobs[j].content]) \in {"Install", "Update", "Repair"}
        /\ entries' = [entries EXCEPT ![jobs[j].content] =
              [@ EXCEPT !.installState = "Installed", !.installedVersion = jobs[j].version]]
        /\ UNCHANGED <<jobs, verified>>

\* Content without an entry offers as little as content that is not available.
LibraryInit ==
    /\ entries = [c \in Contents |-> [installState |-> "Unavailable", installedVersion |-> 0, cloudReady |-> FALSE]]
    /\ jobs = [j \in Jobs |-> NoJob]
    /\ verified = {}

LibraryNext == Upsert \/ Request \/ Transition \/ Installed
LibrarySpec == LibraryInit /\ [][LibraryNext]_libraryVars

-----------------------------------------------------------------------------
LibraryTypeOK ==
    /\ entries \in [Contents -> Entry]
    /\ jobs \in [Jobs -> Job \cup {NoJob}]
    /\ verified \subseteq Jobs

\* A download that is ready has all its bytes, and they were verified after the last time it
\* failed: no order of reports, failures, retries and pauses gets a job past the verification.
ReadyIsWhole ==
    \A j \in Jobs : jobs[j] # NoJob =>
        /\ jobs[j].state \in {"Verifying", "Staging", "Ready"} => jobs[j].completed = TotalBytes
        /\ jobs[j].state \in {"Staging", "Ready"} => j \in verified

\* What can be played locally has a version.
PlayableHasVersion ==
    \A c \in Contents : PrimaryAction(entries[c]) = "PlayLocal" => entries[c].installedVersion # 0

LibraryIsSound == ReadyIsWhole /\ PlayableHasVersion

\* A job that failed starts again with no bytes.  Not so: Transition keeps the count, so bytes
\* that failed the verification are verified again and never fetched again.
RetryStartsOver ==
    \A j \in Jobs : jobs[j] # NoJob /\ jobs[j].state = "Queued" => jobs[j].completed = 0
=============================================================================
