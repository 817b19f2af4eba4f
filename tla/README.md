# ZERO Virtual Console: formal model

TLA+ modules, TLC runs and TLAPS proofs kept beside the ZERO Virtual Console, a Windows "console"
shell that launches native games in a supervised session. Paths are those of the repository
(`src/...`). Everything here is translated from the code; documents are quoted only where the code
disagrees with them.

## 1. The system

One UI thread owns nearly everything. A second thread, one per session, serves the named pipe of the
running game. The game is another process; its SDK has two threads of its own beside the game's.

```
 App (UI thread, one Poll per frame)
  |  Launch / Poll / Terminate / SetOverlayVisible
  v
 ProductionRuntime ----------> RuntimeAuthority ---------> NativeRuntimeProcessHost
  ^  session table, mirror,     snapshot_: Starting,        |            |
  |  crash reports, Resume,     Running, Exited, Failed     v            v
  |  achievements                                     RuntimeSession  RuntimeIpcServer
  +---- callbacks on the pipe thread <-------------------------------+   | named pipe
                                                      Job Object         v
                                                      + game process <-> ZeroSdk client
```

| Part | State it keeps | Operations | What makes it correct |
|---|---|---|---|
| RuntimeSession (`src/src/RuntimeSession*.cpp`) | process, thread and job handles, state, record file | prepare (storage, job, suspended process, assignment), resume, abort, poll, terminate | the game runs only inside the job; a session that is over leaves no process and no handle, a console that dies none but one it had created and not yet assigned; one final record |
| RuntimeIpcServer (`src/src/RuntimeIpcServer.cpp`) | stop, authenticated, ready flags, last activity, published pipe handle, server thread | StartSecure, Stop, SendOverlayFocus, server loop, message handling | Stop returns and leaves nothing; no closed handle is used; callbacks only for authenticated and permitted messages; flags of this session only |
| ProductionRuntime (`src/src/v5/ProductionRuntime.cpp`) | state, outcome, active package and grant, READY time, recorded flags | Launch, Poll (READY, deadline, watchdog, end), Terminate, READY / Resume / achievement callbacks | one verdict per session, one record per session, under the right package, and no end unnoticed |
| RuntimeAuthority, NativeRuntimeProcessHost (`src/src/v5/`) | lifecycle snapshot, started flag, launch Resume | Start, Poll, Terminate | every layer agrees on whether a session is active; a failed start is undone |
| CrashSupervisor, CrashReportStore, MiniDumpWriter | reported sessions, report files | Observe, Save | at most one report per session, none for a clean end |
| SDK client (`src/sdk/ZeroSdk.cpp`) | pipe, connected and stop flags, pending requests | Initialize, requests, receiver with reconnect, heartbeat, Shutdown | a request that succeeds was served, no request is forgotten, a handle that is replaced was closed, Shutdown returns |
| Database and stores (`PlatformDatabase*`, `PlatformStateStore`, `ResumeStore`, `AchievementStore`, `DomainRepositories`, `ResumeCoordinator`) | SQLite tables, JSON mirrors | Record, Save, Load, Unlock | the mirror never runs ahead of the table; what was confirmed is shown, also from the mirror |
| Game import and package platform (`GameImportService`, `ProductionPackagePlatform`, `PackagePipeline`) | staging, library and backup directories | ImportFolder, RepairFolder, Verify | a failed import or repair leaves the game that was there; a success is whole and verified; an interrupted one loses nothing |
| Wire protocol (`src/include/ZeroProtocol.h`) | nothing but the stream of the pipe | Encode, Decode, WriteMessage, ReadMessage | what is read are the messages that were written, whole and in order |
| PlatformKernel (`src/include/v5`) before RuntimeAuthority | launch descriptor | RequestLaunch | what runs is what was allowed, for that content, with no more capabilities than were asked for |
| Package verification and trust (`PackageSecurity`, `PackageIntegrityVerifier`, `PackageTrust`, `CngPublisherTrustProvider`) | files, integrity manifest, signature, trusted keys | Verify, Evaluate, LaunchAllowed | what is launched as a publisher's has the files that the publisher signed |
| Library and downloads (`v5/LibraryDownloadAuthority`) | entries, download jobs, update plans | Upsert, Enqueue, Transition, Validate | a download that is ready is whole and verified |
| Commerce and Zero ID (`v5/CommerceDomain`, `v5/ZeroIdAuthority`) | session of the account, quote | sign in and out, refresh, CreateQuote, Complete | what is charged is the exact sum of a quote for that account, in time |
| Cloud, social, achievements, captures, devices (`v5/*Domain`) | in-memory tables fed by a service | Apply, Decide, Start, Stop, ValidateJoin | records that come in any order leave sound tables; no save is lost unasked |
| ShellKernel, ProductionShellIntegration (`src/src/v5`) | active page, way back, availability of pages | Navigate, Back, Dispatch, SetAvailable | no sequence leads to a page that the shell cannot draw |
| App (`App*.cpp`), ShellUxState, the `*Experience.h` headers | page, tab, selections, modal questions, folder picker, launch screen, overlay | frame: Poll, launch screen update, input; key messages; refreshes | the launch screen follows the outcome of the runtime; pages, selections and what is open over them agree; the row with the focus is on the screen |
| Input, InputCore | controller slots, held buttons | arbitration, edges, repeat | one controller leads, a reconnected controller does not press anything |
| First boot and settings (`FirstBootWizard`, `FirstBootService`, `Settings`, `main`) | wizard step and fields, boot file, settings rows and `settings.ini` | Advance, Back, Complete, Load with migration, Save, HandleSettingsInput | a completed setup is asked for again only when its file cannot be read, and is applied; a confirmed setting is loaded again; the table wins over its mirror |
| Identity of the player (`LocalIdentityProvider.cpp`) | `local.id` and a temporary file | Initialize | a player keeps one identity, whatever start fails or ends |
| Captures, registry, manifest parsing | files | listing, deletion, validation | sequential; functions of files |

What is hard here: two threads of the console share the flags of the pipe server and of the
coordinator; Launch lets the game run before it has stored whose session it is; Stop joins a thread
that may be in a blocking call; the operating system may fail any call of a launch ladder; the
console, the game and its connection may each die at any moment; and several final outcomes (exit,
crash, deadline, watchdog, user) race for the one verdict of a session. The SDK has a receiver, a
heartbeat and the game's own threads around one pipe that breaks and comes back. Almost everything that
is kept is kept twice, as a row and as a file, without a transaction over both. The shell addresses games and captures
by their position in lists that are read again under it, and its folder picker runs ticks and keys inside a call. The V5
domains trust nothing they are sent, but what they hold ages while the service and the account move on. `PROJECT.json` lists each
hazard at its line with the properties that cover it.

Of the V5 classes the console itself runs ProductionRuntime, RuntimeAuthority, NativeRuntimeProcessHost,
CrashSupervisor, ResumeCoordinator and ProductionPackagePlatform; `App` owns a ProductionShellIntegration that it does not call
yet (`App.h:67`), and the other domains are exercised by the programs in `src/tools/` only. They are modelled as what their
interfaces offer to a shell that uses them.

## 2. Modules

| Module | Models |
|---|---|
| `RuntimeSession` | the supervisor, the process tree and the console's death |
| `RuntimeIpcServer` | the pipe server: UI thread, server threads, client |
| `GameSession` | abstract: what the shell is promised of its sessions |
| `ProductionRuntime` | coordinator, authority, host, pipe thread, game, clock; implements `GameSession` |
| `ZeroSdk` | the SDK client: main, receiver, heartbeat and calling threads over its connections |
| `LaunchUx` | launch screen and overlay over the runtime that `GameSession` promises |
| `PlayerSettings` | first boot, settings rows and file, the start of the console |
| `GameImport` | import and repair of one game: the three directories, every failing call, the console's death |
| `PlatformStores` | sessions, Resume and achievements of one game: tables and mirror files |
| `LocalIdentity` | the identity file and the consoles that make and read it |
| `Persistence` | the four modules before, composed: what the console keeps on disk |
| `InputCore` | ownership among the controllers, stick latches, direction, repetition, button edges |
| `ShellPages` | pages, tabs, selections, captures and their questions, folder picker, over the launch states |
| `ListView` | a list that scrolls: captures, friends, store, achievements |
| `ShellKernel` | navigation of the V5 shell over any list of controllers |
| `LaunchChain` | RequestLaunch and RuntimeAuthority: from the wish to the running session |
| `PackageGate` | inventory, integrity manifest, signature, keys; who may be installed and launched |
| `LibraryDownloads` | library entries, download jobs, updates |
| `Checkout` | Zero ID session, quotes, amounts that wrap around, charges |
| `CloudDomain`, `SocialDomain`, `AccountRecords` | saves and streams; friends, party, joins; achievements, devices, captures |
| `Wire` | frames on the pipe: several writers, one reader, a stream that breaks anywhere |
| `MC*` | instances for TLC; constants and bounds are in the `.cfg` files |

The proofs are in modules of their own, which extend what they are about:

| Module | Theorems about |
|---|---|
| `RuntimeSessionProofs`, `RuntimeIpcServerProofs`, `ProductionRuntimeProofs`, `ZeroSdkProofs`, `LaunchUxProofs` | the module of that name; the third also the refinement of `GameSession` |
| `PersistenceProofs` | `GameImport`, `PlatformStores`, `LocalIdentity`, `PlayerSettings` and their composition |
| `ShellProofs` | `ListView`, `ShellKernel`, `InputCore`, `ShellPages` |
| `DomainProofs` | `LibraryDownloads`, `LaunchChain`, `PackageGate`, `CloudDomain`, `SocialDomain`, `Checkout`, `AccountRecords`, `Wire` |

### RuntimeSession

`state`, `handles` and `record` are `state_`, `process_`/`job_` and the phase in the session's JSON
file; `step` is the place inside `PrepareLaunchWithSession`, which is cut at each call that touches
the system so that the console can die between them. `main` and `child` are the lives of the game's
process and of anything it started, `contained` whether the process was assigned to the job, `orphan`
a history variable that remembers a process lost by a later launch. Each action is one of the
operations with its failing branches: a failed `AssignProcessToJobObject` terminates the process,
writes the record and closes the handles in the same step, as the code does. The effect of closing or
terminating a job is taken from Windows: with KILL_ON_JOB_CLOSE everything assigned to it ends. A
record write leaves the new phase, the old file, or (both renames failed) none.

### RuntimeIpcServer

Threads are numbered by the `StartSecure` that created them; each owns at most one pipe instance.
`pc[t]` follows `ServerLoop` from one shared access to the next, `owner` follows `Stop` and
`StartSecure` on the UI thread, the sections under `pipeMutex_` are single steps. `pipe[t]` is what
Windows promises of a blocking byte-mode instance: a client may connect from its creation on,
`DisconnectNamedPipe` makes blocked calls return, and a `ConnectNamedPipe` that begins on a
disconnected instance listens again. What the client has written is still readable after it has left.
Messages are kinds: `bad` stands for a known kind with the wrong number of fields, `garbage` for a frame
that does not decode.

Assumed of the platform: a write does not block (the buffers hold a whole frame), and reads and writes
of two threads on one synchronous handle are independent.

### ProductionRuntime

The UI thread's operations are cut where the pipe thread can see the difference: after
`authority_->Start` has resumed the game, between the assignments of `Launch`, at the reads of
`ready_` and `readyAt_` in `Poll`, after the dump of a game that is given up, and at each join of the pipe thread. `activeSession` stands for the
session id of `activeGrant_`, `readyAt` for the session during which `readyAt_` was stamped, `late` and
`silent` for the two comparisons with the clock. The session table, its mirror, the crash reports and
the last Resume or achievement write are sets and a record. Every store operation may fail. A callback
that reads `activePackageId_` while `Launch` assigns it sees the old or the new package.

`RuntimeSession` and `RuntimeIpcServer` enter through what their own modules show of them: a game that
is prepared does not run (`Containment`, `CreateSuspended`), when `Stop` returns no callback is left
(`StopIsQuiescent`), READY belongs to the session started last (`ReadyIsOwn`).

`GameSession` is the abstract specification: one session at a time, starting, perhaps playing, ended
once with a verdict and at that moment perhaps recorded. `KeepsPromise` is the refinement: the phase is
read from `outcome` (and from the step of `Launch` that has not yet stored it), the session and package
from the stored identity, the history from the session table.

### ZeroSdk

Connections are numbered as they are opened; `link[n]` is what has become of one, `hnd` the handle the
main thread or the receiver works on, which is not always the one in `pipe` (`pipe_`). A section under a mutex is one step.
`at` follows `Initialize`, `Shutdown`, `ReceiverLoop`, `TryReconnect` and `HeartbeatLoop` from one shared
access to the next, `caller` follows `SendRequest` from taking an id to the answer or the end of its
five seconds. The runtime answers what it has read, in order, and may break a connection at any moment.
`SerialHandle` says whether the system runs one call at a time on a handle opened without
`FILE_FLAG_OVERLAPPED`, as Windows does. `sdk_live` has TRUE, since that is when calls can wait; `sdk` has FALSE, where a call
may overlap a blocked read, which allows more behaviours for safety. What the serialisation costs is in section 5.
`RuntimeIpcServer`, whose handle is opened the same way, assumes FALSE for its notices.

### GameImport

`installed`, `staging` and `backup` are the three directories of one package id, each with the version it
holds and how much of it is there: a copy or a removal may stop half-way, a sealed directory is one whose integrity
manifest was written, `damaged` is one that does not verify. `pc` follows `ImportFolder`, `RepairFolder`
and the shared activation from one file system call to the next. `by` tells the shell's calls from those of
`ProductionPackagePlatform::Execute`, which verifies the installed package once more. `before` is the
installed directory when the operation began.

### LaunchUx

The variables are those of `App`; `phase`, `session` and `package` stand for the runtime, which moves as
`GameSession` lets it (that `ProductionRuntime` does so is checked by the run `runtime` and proved by `Refinement`): READY at any
moment, as `onReady` on the pipe thread, an end only in Poll or by the player. `step` cuts
`Tick` after the animation, before the dump of an overdue start, after Poll and after UpdateLaunchUx; `stuck` is a tick that
waits for ever in `RuntimeIpcServer::Stop`. `f1` is a key press that is still to be handled as a
message and as the state of the key, `linked` and `told` are the game's end of the overlay notices.

### PlatformStores and PlayerSettings

Both have the rows of the database and the lines of a file side by side. A table is written by one transaction that may fail;
a file is written aside and renamed, its writing is not checked, so that what replaces the old one may end
early (`CutState`, `CutBoot`, `CutIni`). `op` in `PlatformStores` is the place between the two writes.
`PlayerSettings` follows the wizard page by page because the pages decide what is stored; names are
told apart as far as the code does. `Faults` names what may go wrong in a run: with `boot_read` any read of `first_boot.ini`, of
which a start makes up to three, may find nothing, and `misread` remembers that the wizard runs for that reason. The passing run leaves
out only `read` (of rows), with which the migration overwrites newer rows (section 5). `Persistence` puts them beside `GameImport` and
`LocalIdentity`, with which they share neither files nor memory.

### InputCore

One step is one call of `Update` with a sample of every slot and the arrow keys that are held. `previous`, `analog`,
`active` and `repeating` are the members of the class, the two time stamps are ages counted up to the first delay.
`hold` is a history of the direction held: how long, its pulses and the time between them.

### ShellPages and ListView

A handler of `App` is a composition of steps over the record `shell`, as the code calls one member function after the
other; a tick hands all buttons that went down since the last one to `HandleInput`. `pickers` is the stack of folder pickers:
`IFileDialog::Show` runs a message loop, so ticks and keys go on below it, and the handler that opened it
finishes when it closes. Captures and games come and go on disk at any time and become known with the next refresh. The list
windows of four pages are one module, `ListView`, because they clamp the same three numbers. Three of them are lists that change with
a refresh, which clamps; the achievements (`reread`) are read anew at each draw and input, from a table or a mirror that may be shorter,
and only a move clamps them. `counted` is the number of rows that the last clamp was told of.

### LaunchChain, PackageGate, LibraryDownloads, ShellKernel

`LaunchChain` starts with RequestLaunch, whose services answer anything (the launch authority may name any package in the descriptor),
holds the descriptor while the account may change, and ends with the session that RuntimeAuthority starts; `granted` and `identity` are those of its snapshot.
`PackageGate` abstracts hashing to equality of files and signing to the pair of a key and an inventory; the text of
`zero.integrity.sha256` and the files are separate, because the import writes the first anew. `Launchable` is a launch during which
nothing changes: the code reads files and text, then the text once more, and starts the executable later. `LibraryDownloads` has the
states of `Transition` as the code lists them, and a mover of bytes that reports anything in any order. `ShellKernel` takes any list of
controllers, one of them missing or doubled among them.

### Checkout, CloudDomain, SocialDomain, AccountRecords

The service is an adversary within its types: records arrive late, twice or never and answers need not fit. Amounts are integers
modulo `2^Width`. Histories (`charges`, `wanted`, `allocated`, `joined`, `sent`) remember what the service did, so that a
property can compare it with what the console believes.

### Wire and LocalIdentity

In `Wire` a frame is a sequence of cells, written one by one under the mutex of its end and read by length; the connection
ends between any two. What is proved of it (`FramesArriveWhole`) is the reason why `RuntimeIpcServer` and `ZeroSdk` may take a message for one step. `LocalIdentity` cuts
`LoadOrCreateId` at its looks at the disk, so that two consoles may start at once. `known` is the identity on disk since nobody
makes one any more, and given up when a look fails; `contested` are the consoles that run since another start made one beside them.

## 3. Runs

| Run | Bounds | Shows |
|---|---|---|
| `session` | 3 launches | containment, no orphans, final record sticks, under every failure; a console that dies leaves at most the suspended process it had not assigned yet |
| `ipc` | 2 server threads, 1 unread frame | handle safety, quiescent Stop, nothing unauthorised, flags of this session; a lost client can come back; Stop returns outside the window below |
| `ipc_stop` (violation) | 1 thread, 1 frame | Stop that meets the thread before `ConnectNamedPipe` never returns |
| `runtime` | 2 packages, 2 sessions | the layers and the three stores agree, the verdict sticks, the refinement of `GameSession` |
| `runtime_live` | 1 package, 2 sessions | every launch resolves, every exit and every silence is noticed, unless a Stop never returns |
| `sdk` | 2 callers with 1 request each, 1 session, 1 connection, 2 delays | within a session, a success is an answer to that request (`AckMeansServed`); no waiter is forgotten |
| `sdk_live` | 1 caller, 2 sessions, 2 connections | no handle is lost by reconnecting or shutting down; a stopped client is quiet; on a serial handle requests, Initialize and Shutdown return, unless a write or a close is behind a read that never ends |
| `persistence` | settings: volumes 75 and 80, all faults but reads of rows; stores: 2 sessions, 2 activities, 2 achievements; import: 2 versions; identity: 2 consoles, 3 identities | what was confirmed is kept, a finished setup is not asked for again by a start that can read it, mirrors are never ahead, rollback stays possible, callers of the import can rely on its messages as far as `OutcomeIsReliable` says; an identity stays, also after consoles that started at once |
| `launch` | 2 packages, 2 sessions | launch screen and overlay belong to the session there is; no starting screen stays, unless a Stop never returns |
| `input` | 2 controllers, 7 samples, delay 3, cadence 2, frames of 1 or 2 | no press of a held button, paced repetition |
| `pages` | 1 game, 2 captures of which 1 is a video, 1 picker, 2 buttons a tick | pages, tabs, selections and modals agree; the capture that is deleted is the one that was asked about, if no refresh came between |
| `domains` | per part, in `MCDomains`: 2 jobs, 3 lists of controllers, lists of up to 5 rows in a window of 2, 2 players and 2 games, 3 saves on 2 devices, amounts of 2 bits, 3 records sent, packages of 1 file, frames of up to 8 cells by 2 writers | the properties of the V5 domains, the lists, the package gate and the frames |

Why the bounds are enough. The state a session inherits is that of its predecessor only, so two
sessions (or server threads) show every effect of one on the next, and a third launch of the
supervisor covers a launch after a failed one after one that ran. In `ipc` one frame is served while
another, from before a disconnect perhaps, waits to be read; frames are served in order and one at a time, and the
proofs hold for any number. Two packages are the fewest that can be
confused, two callers the fewest that can share an answer, two versions the fewest of which a rollback can
restore the wrong one; two connections let a handle be lost behind its successor. The requests of two callers
and the second connection are in different runs, because the reconnection treats all waiting requests
alike (`FailAllPending`). Volumes 75 and 80 are the default and one other. Symmetry is used over callers and versions, which are
only compared, and never in a run with a temporal property. `MCPersistence` has a VIEW that drops the history of
the player's wishes, which none of its properties reads, and `settings.ini` once the table has rows, since it is not looked at
again while rows can be read.

`persistence` and `domains` each hold parts that share no state (composed in `Persistence` and in `MCDomains`): the first choice of a
behaviour is its `part`, and from then on only
that part moves. Checking them together is checking them one after the other; nothing is lost by it, since no
action of one reads a variable of another. Several properties are conjunctions of named parts, each of which the module states with its own comment:
`NothingIsLeft`, `KeepsServing`, `EndIsNoticed`, `CallsReturn`, `OutcomeIsReliable`, `NavigationIsSound`, `LibraryIsSound`, `RecordsAreTrue`, and
`ConfirmedIsKept` of the parts `GameRecordsAreKept`, `ConfirmedIsLoaded` and `IdentityIsKept`.

In `domains`, 2 bits hold every way for a product or a sum to wrap around, two devices and three saves let one save pass by
another, a window of 2 over 5 rows has both edges and a middle, one file of two contents tells every pair of
inventory and text apart that the code tells apart, and one of the frames is exactly as long as a frame may be. Two
buttons at once in `pages` show the order in which `HandleInput` looks at them; a picker under a picker, which the code also
allows, adds no state to the pages and is left out of the run.

`CHECK_DEADLOCK FALSE` is set where the bounded system really stops: when the launches, starts or sessions are used up, or
the console is dead and the game gone.

Fairness. `RuntimeIpcServer`: the UI thread inside Stop and the server threads go on, and callbacks
return; nothing is assumed of the game, and nobody need ever call Stop. `ProductionRuntime`: the UI
thread goes on polling every frame (`App::Tick`) and completes a Launch, callbacks return, and the
startup deadline comes. Nothing is assumed of the game, and not that the join of `Stop` inside Poll or Terminate ends, since
`ipc_stop` refutes it: `LaunchResolves` and `EndIsNoticed` say `[]InStop` for that exception. `ZeroSdk`: each thread goes on, a wait with a time
limit ends, a blocked call whose handle is closed or cancelled returns, and a request that waits for the handle gets it when
a read ends, because it holds `connectionMutex_`, which the receiver takes before it reads again (`ZeroSdk.cpp:280`); nothing is
assumed of the runtime, which may fall silent for ever.
`LaunchUx`: the timer ticks and key messages are handled for as long as the UI thread is not in a Stop that never returns, and
the startup deadline comes. The other modules have no liveness: their operations are
sequences of calls that return, or wait for a person or a service.

## 4. Proofs

Every safety invariant, every action property without fairness and the refinement that a passing run checks is also a theorem:
the run shows it on its instance, the theorem for every value of the constants. The theorems have one form.
An inductive invariant is stated as a conjunction of named parts; one lemma proves it of the initial states, one lemma or step
per action that it is kept; the property is read off it. Where constants must be
bounded, a named condition (`ShopConstantsOK`, `PagesConstantsOK` and so on, in the module that declares them) is the
hypothesis of the theorem, and the MC module has it as an ASSUME. What follows says per module which invariant is needed, and why.

**`RuntimeSessionProofs`** (`Containment`, `NothingIsLeft`, `FinalRecordSticks`, any number of launches).
`Containment` and `NoOrphans` are not inductive: that a failed assignment kills what it
created, and what a dead console can leave, depends on which handles are open at each
step of the ladder. `IInv` says, per step, which handles are open, which life
the main process may have and whether it is contained (`Ladder`), that of a dead console at most the process
that it had created suspended and not assigned is left (`Ended`), and that no process was lost. `FinalRecordSticks` needs in addition that a final record is on disk only
when the session is over or between a failing call and its return (`RecordInv`).

**`RuntimeIpcServerProofs`** (`PublishedHandleIsOpen`, `StopIsQuiescent`, `OnlyAuthorized`, `ReadyIsOwn`, and that the
join of Stop never waits for a message of the game; any number of starts and frames). That the published handle is
open, and that a returned Stop has left nothing, depends on where the only
running server thread stands. `IInv` says that a start has joined the thread before it (`OnlyLatestRuns`), what each place of a
thread means for its pipe instance and the published handle (`PipeFollowsThread`), when the stop flag is set
(`StopIsKnown`), and what the flags may say there (`AuthenticIsGreeted`, `CallbackIsServed`, `ReadyIsOfStart`).

**`ProductionRuntimeProofs`** (`LayersAgree`, `RecordsAgree`, `WritesBoundAfterLaunch`, `VerdictSticks` and the refinement
`KeepsPromise` of `GameSession`; any packages, any number of sessions). The invariant relates the place of the UI thread to everything else: whether
host and pipe server are up, told to stop, or down (`Layers`), whose session the stored identity is (`Identity`), which
rows, mirrors and reports may exist by then (`Stores`), and what the outcome and the time of READY may say (`Outcome`). That a session is
recorded once, and with its own verdict, needs that the stores hold sessions that are over only (`Over`); that a write is bound to
its package, that the identity is stored once Launch has returned. The refinement is proved action by action: each is a step of
`GameSession` or leaves its variables alone.

**`ZeroSdkProofs`** (any callers, requests, connections and attempts). `NothingIsLeft` holds for any number of sessions; its invariant says, per
place of the main thread and the receiver, which handle each holds and which threads there are. `AckMeansServed` and
`NoWaiterIsForgotten` have the hypothesis `OneSession`: request ids begin again with each Initialize, and with a second session
the first of the two is false (section 5). Within a session an id is of one caller (`Fresh`, `Pending`), and wherever an answer is on its way, what
it says is true of the call that it will be matched to (`Matched`).

**`LaunchUxProofs`** (`ScreensFollowSession`, any packages and number of sessions). The screen learns of a change only by comparing the outcome with the
one it has seen last. The invariant therefore says per place in the tick what that last one may be (`StartingIsOfLaunch`,
`EndIsNews`), that a starting screen may be of a game that has become playable since, never of one that has ended (`StartingIsCurrent`), and that an overlay over a game that has ended is taken away before anybody can act (`OverlayIsOfGame`).

**`PersistenceProofs`**.
- `GameImport` (`RollbackIsPossible`, `OutcomeIsReliable`, any set of versions): that a failure leaves the game depends on where its whole
  copy is at each step: before the first rename it is `installed`, between the renames `backup`, after the second both, and while
  rolling back `backup` again. After a failed activation it is in one of the two, and the property says no more, because the message
  does not (`ActivationMessageIsTrue`, section 5). `staging` holds the version of the operation in the condition the step has given it.
- `PlatformStores` (`MirrorIsNotAhead`, `GameRecordsAreKept`): the mirror is covered by the table, and the mirror that is about to be written
  will be (`MirrorWillBeCovered`); the Resume of table and mirror is one that may be the game's, whichever of its two writes failed.
- `LocalIdentity` (`IdentityIsKept`, any number of consoles, at once or not): before an identity is known a console that is not contested
  starts alone and renames its own; once it is known it is on disk and nobody makes another. Contested consoles are excepted until they end.
- `PlayerSettings` (`SetupSticks`, `ConfirmedIsLoaded`): what the player was told is kept is in the table and in memory, and a save that is
  under way has written the rows before the one it is at (`SavedSoFar`). `SetupSticks` follows step by step: the wizard of a finished setup
  runs only with `misread`, and only its last page writes the file. The hypothesis `"read" \notin Faults` is the one the run has, because with it `CanonicalWins` fails (section 5).
- `Persistence` (`ConfirmedIsKept`): a behaviour of the composition is one of each part, so the four follow together.

**`ShellProofs`**.
- `ListView` (`FocusIsVisible`): one lemma about `Clamp` carries it, by linear arithmetic over window, offset and selection: the selected
  row was on a screen of as many rows as the last clamp was told of, so it still is unless there are fewer now.
- `ShellKernel` (`NavigationIsSound`, `RefusalStays`): pages become active only when available, and only integrated ones ever are.
- `InputCore` (`RepeatsArePaced`, `PressIsFresh`, any controllers and cadence): the pace is kept twice, by the clocks of the class and by the history
  of the hold, and the two agree for as long as nobody else takes over (`ClocksAgree`).
- `ShellPages` (`PagesAgree`, `DeletesTheChosen`): the invariant is a predicate of the record `shell`, kept by each step of which the
  handlers are composed. Beyond the agreement it says that achievements are opened from a page without a tab, that the modal of a capture has a
  list under it, and that the capture a question is about is the selected one.

**`DomainProofs`**.
- `LibraryDownloads` (`LibraryIsSound`): per state of a job, how many bytes it has and whether they were verified since its last failure.
- `LaunchChain` (`RunsWhatWasAllowed`): the descriptor that is held agrees with itself, account, content and source, at any time, and
  an active runtime has the identity, grant and process of the request it was started with.
- `PackageGate` (`LaunchesAreGenuine`): no invariant of the files holds while anybody writes to them; what is inductive is that a signature
  of a known key is over an inventory this key has signed (`IsSigned`). The rest follows in one state from `Equivalent`.
- `CloudDomain` (`NothingIsLostUnasked`): inductive with its types; the lemma that carries it says what a decision may replace that neither a
  player nor a policy has made (`UndecidedIsAlone`).
- `SocialDomain` (`SocialIsSound`): a party that passes has the account of the console once, by counting (`SelfIsOnce`); a join is compared with
  the party there is at that moment.
- `Checkout` (`ChargesAreExact`, and `AccountSticks`): a quote that is held was computed by `CreateQuote`, without a product or a
  sum that wraps around; that a charge is exact is by induction over the lines of the quote.
- `AccountRecords` (`RecordsAreTrue`): all that the console holds was sent, each piece by some record; the score is within what was
  earned because an unlock is known by its account and achievement alone, which is a statement about sums over finite sets.
- `Wire` (`MessagesArriveWhole`): the pipe and the cells that its holder has not written yet are the rest of the frame that is being read
  and the frames after it (`InStep`). `Grows` and `Follows` cut the stream at any place; decoding what encoding makes of a
  message gives back this message and no other.

Quotes, sums and frames have any length, so their lemmas are inductions. The library's induction theorems cannot be used for it, because they
take the statement as an operator. Here the statement is a set of numbers: a set that holds 0 and with each number
the next holds all (`SetInduction`), which follows from the least number of a set (`LeastExists`), and that from the library's statement
that `<` is well-founded on the naturals. `RunExists` gives in the same way the values of a loop, `SizeInduction` a
statement about all finite sets.

## 5. Disagreements met

One of them is a run, `ipc_stop`: the UI thread can wait for ever in the join of Stop, and
`PROJECT.json` quotes the sentence it refutes. The others are properties stated in the modules that TLC refutes
when they are put in the place of the properties of the named configuration, with the constants given here. `AckMeansServed`
passes within the bounds of section 3, which leave out what breaks it: a second Initialize under a caller
that still holds an id.

| Property, configuration | What the code does, and what speaks against it |
|---|---|
| `CrashIsDistinguished`, `MCRuntimeSession` | `Terminate` ends a game that had already crashed as an ordinary exit (`RuntimeSession.cpp:431`); `docs/RUNTIME_V2.md:16` distinguishes the two |
| `NothingOutlivesConsole`, `MCRuntimeSession` | a console that dies between creating the process and assigning it to the job leaves it, suspended, for ever (`RuntimeSessionLifecycle.cpp:211`; `docs/RUNTIME_V2.md:14`) |
| `WritesBoundToPackage`, `MCProductionRuntime` | a write served before Launch has stored its package goes to the package of the session before (`ProductionRuntime.cpp:196`; `docs/RUNTIME_V3.md:61`) |
| `CleanExitIsSaved`, `MCProductionRuntime` | a clean exit whose record failed is shown as saved and not tried again (`ProductionRuntime.cpp:260`; `AppLaunchRecovery.cpp:28`) |
| `StatusIsTrue`, `MCZeroSdkLive` | a heartbeat that failed on the old connection clears `connected_` of the new one (`ZeroSdk.cpp:315`, `426`) |
| `AckMeansServed`, `MCZeroSdk` with 2 sessions and 2 connections | request ids start again at 1 while a caller still holds one, so one request can be told of another's success (`ZeroSdk.cpp:220`; `docs/RUNTIME_V4_1_PROTOCOL.md:26`) |
| `RequestReturns`, `ShutdownReturns`, `MCZeroSdkLive` | a request, or the close in Shutdown, waits behind the blocked read of the receiver, for ever when the runtime says nothing more (`ZeroSdk.cpp:239`, `208`; `ZeroSdk.cpp:205`); that nothing else holds them up is `CallsReturn` |
| `ActivationMessageIsTrue`, `MCPersistence` | a failed rollback is reported as a restored installation, and a successful one as failed when the staging directory cannot be removed (`GameImportService.cpp:125`) |
| `ActivationIsAtomic`, `MCPersistence` | a death between the two renames takes the game out of the library (`GameImportService.cpp:121`; `docs/ARCHITECTURE.md:101`) |
| `EndNamesTheGame`, `FailureIsNamed`, `MCLaunchUx` | the screen names another game, or the outcome of the session before (`App.cpp:553`, `AppLaunchRecovery.cpp:28`) |
| `KeyIsHandledOnce`, `GameKnowsOverlay`, `MCLaunchUx` | one F1 press is handled as a message and as a key state (`App.cpp:631`); the closing of the overlay is not told again after a reconnection (`RuntimeIpcServer.cpp:140`) |
| `SetupIsApplied`, `MigrationIsSafe`, `MCPersistence` without the VIEW | a setup is marked complete before it is applied (`main.cpp:28`); a migration whose second row fails hides the old settings (`Settings.cpp:27`, `52`) |
| `CanonicalWins`, `MCPersistence` without the VIEW, with `"read"` among the faults and `Legacy = FALSE` | a start that cannot read the table writes the older file over it (`Settings.cpp:53`, `68`) |
| `SetupRunsOnce`, `MCPersistence` without the VIEW | a name of blanks is accepted by the wizard and refused by the next start (`FirstBootWizard.cpp:312`; `docs/FIRST_BOOT_UI.md:11`); so does a start that cannot open the file ask again, and when the save of that wizard fails the first setup may be lost (`FirstBootService.cpp:14`, `63`) |
| `RefusalChangesNothing` of `PlatformStores` | a Resume whose mirror fails is refused and shown all the same (`ResumeStore.cpp:91`) |
| `RepeatsAreAlwaysPaced`, `OwnerInUseStays`, `MCInputCore` | a change of owner repeats a held direction at once; a stick between its thresholds counts as idle (`InputCore.cpp:106`, `11`; `docs/INPUT_FINALIZATION.md:15`) |
| `BackLeavesAchievements` of `ShellPages` | achievements opened from the overlay over the achievements page return to themselves (`App.cpp:373`, `AppAchievements.cpp:28`; `docs/RUNTIME_V4_1_RC_GATE.md:36`) |
| `QuestionStands` of `ShellPages` | F5 forgets which capture the question on the screen was about (`App.cpp:606`) |
| `OverlayTakesInput` of `ShellPages` | under the overlay a question about a capture still takes the buttons (`App.cpp:340`, `346`) |
| `ImportSelects` of `ShellPages` with `MaxGames = 2` | after an import the last game by title is selected, not the one imported (`App.cpp:531`) |
| `OnePicker` of `ShellPages` with `MaxPickers = 2` | a tick under the folder picker opens another (`App.cpp:504`) |
| `BackIsNotUndone` of `ShellKernel` | Back between two contextual pages leads to and fro and never Home (`v5/ShellKernel.cpp:73`) |
| `ChargesTheHolder`, `ChargedOnce`, `FailedIsFree` of `Checkout`, the second with `MaxCharges = 2` | a quote is checked against the account it names itself, a lost answer leaves it open to be charged again, and a charge with an answer that is refused counts as a failure (`v5/CommerceDomain.cpp:130`, `135`, `144`) |
| `RunsForItsAccount`, `AllowedIsSignedIn` of `LaunchChain` | the account of the identity is not compared with that of the launch, nor with who is signed in by then (`v5/RuntimeAuthority.cpp:17`) |
| `RetryStartsOver` of `LibraryDownloads` | a job that failed its verification is queued again with all its bytes (`v5/LibraryDownloadAuthority.cpp:129`) |
| `FocusIsAlwaysVisible` of `ListView` | the achievements are read again at each draw without a clamp, and the mirror that stands in for the table may be shorter (`AppAchievements.cpp:67`, `AppPages.cpp:237`; `v5/ProductionRuntime.cpp:356`) |
| `RevokedStaysRevoked` of `AccountRecords` | records of devices carry no order, so an older one that comes late replaces a revocation (`v5/CaptureDeviceDomain.cpp:74`) |
| `NothingIsLeaked` of `CloudDomain` | an allocation that Start refuses is never given back (`v5/CloudDomain.cpp:92`) |
| `CopyKeepsTrust` of `PackageGate` | the import writes the integrity manifest anew, so a signature over a text in another form is lost (`docs/ARCHITECTURE.md:76`, `docs/PACKAGE_TRUST.md:28`) |
| `LimitIsOfFiles` of `PackageGate` with 2 files and `MaxListed = 1` | a package within the limit of files can have an integrity manifest beyond the limit of 1 MiB, and then cannot be installed (`PackageIntegrityVerifier.cpp:75`; `docs/PACKAGE_SECURITY.md:15`) |
| `ShownIsStored` of `LocalIdentity` | of two consoles that start for the first time at once one shows an identity that the file does not have, until it ends (`LocalIdentityProvider.cpp:51`, `71`); a look that fails makes another identity |

Two further properties hold and are not run, because each run lists what nothing else says: `AccountSticks` of `Checkout` and
`RefusalStays` of `ShellKernel`. They are proved (`AccountsStick`, `RefusalsStay`).

Where the table names no configuration, it is that of the MC module that extends the module.

## 6. Only model-checked, and not modelled

Liveness is model-checked only, since fairness and ENABLED are outside the prover's reach: `KeepsServing`, `LaunchResolves` and
`EndIsNoticed`, `CallsReturn`, and `LaunchResolves` of `LaunchUx`. All other properties of the passing runs are theorems as well.
Only within bounds are also the refuted properties of section 5: a counterexample needs no proof.

Not modelled, with the reason:

- `CatalogEntitlementAuthority`, `DiscoverDomain`, `DomainRepositories`: they check, filter or hand on one answer and keep nothing.
- `PackageManifestParser`, `ManifestValidator`, `StrictJson.h`: a parser; a model would repeat it character by character.
- cryptography and hashing: equality of what is signed and hashed stands for them.
- drawing (`AppPages.cpp`, the animations), wording, the bootstrap file, dumps, the diagnostic texts.
- `RuntimeV3`, `RuntimeV4`: excluded from the production target (`docs/V5_CUTOVER_STATUS.md:24`).
- `RuntimeCore.h`, `PackagePipeline.h`: nothing in production uses them.
- `src/tools/`: the programs that test the rest.

What is left out of a component that is `partly` modelled is in its note in `PROJECT.json`.

## 7. Plan

Done: the session core, the SDK client and the frames, what is kept on disk, the shell with its pages, lists and navigation, the
launch chain, the package gate and the domains, each checked, and their safety proved. Next, in this order:

1. A composition of `ZeroSdk` with `RuntimeIpcServer` over `Wire`: READY and acknowledgements end to end, instead of
   the environment each module has now; its proof would use the invariants of the three.
2. `ShellKernel` composed with `ShellPages`, once `App` calls it.
