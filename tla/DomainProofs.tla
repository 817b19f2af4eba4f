---------------------------- MODULE DomainProofs ----------------------------
(***************************************************************************)
(* The authorities of the V5 core, each on its own: the library and its    *)
(* downloads, the launch of an owned game, the trust of a package, saves   *)
(* in the cloud, friends and parties, the amounts of a checkout, the       *)
(* records of an account, the frames on the pipe.                          *)
(***************************************************************************)
EXTENDS Checkout, LibraryDownloads, LaunchChain, PackageGate, CloudDomain, SocialDomain,
    AccountRecords, Wire, FunctionTheorems, FiniteSetTheorems, SequenceTheorems,
    NaturalsInduction, WellFoundedInduction, TLAPS

(***************************************************************************)
(* Proofs about LibraryDownloads, for every set of contents, versions and  *)
(* jobs and every size of a download.  A job that is ready has passed      *)
(* Verifying with all its bytes since it last failed: the invariant says   *)
(* so of each state on the way, and follows the table of transitions.      *)
(***************************************************************************)
\* An entry that holds a version names it.
EntriesHaveVersions == \A c \in Contents : ValidEntry(entries[c])

LibraryInv == LibraryTypeOK /\ ReadyIsWhole /\ EntriesHaveVersions

-----------------------------------------------------------------------------
\* At first there is no job.
LEMMA InitLibraryInv == LibraryConstantsOK /\ LibraryInit => LibraryInv
PROOF
  <1> SUFFICES ASSUME LibraryConstantsOK, LibraryInit PROVE LibraryInv OBVIOUS
  <1>1. entries \in [Contents -> Entry]
    BY DEF LibraryInit, Entry, InstallStates
  <1>2. EntriesHaveVersions
    BY DEF LibraryInit, EntriesHaveVersions, ValidEntry, HoldsAVersion
  <1>3. jobs \in [Jobs -> Job \cup {NoJob}] /\ verified \subseteq Jobs /\ ReadyIsWhole
    BY DEF LibraryInit, ReadyIsWhole
  <1> QED BY <1>1, <1>2, <1>3 DEF LibraryInv, LibraryTypeOK

\* The library takes no entry of a version that it does not name.
LEMMA UpsertKeepsLibraryInv == ASSUME LibraryInv, Upsert PROVE LibraryInv'
PROOF
  <1>1. PICK c \in Contents, e \in Entry :
          ValidEntry(e) /\ entries' = [entries EXCEPT ![c] = e] /\ UNCHANGED <<jobs, verified>>
    BY DEF Upsert
  <1>2. entries' \in [Contents -> Entry] /\ EntriesHaveVersions'
    BY <1>1 DEF LibraryInv, LibraryTypeOK, EntriesHaveVersions, ValidEntry, HoldsAVersion
  <1> QED BY <1>1, <1>2 DEF LibraryInv, LibraryTypeOK, ReadyIsWhole

\* A new job has not been verified and need not be.
LEMMA RequestKeepsLibraryInv == ASSUME LibraryConstantsOK, LibraryInv, Request PROVE LibraryInv'
PROOF
  <1>1. PICK j \in Jobs, c \in Contents, v \in Versions : Enqueue(j, c, v)
    BY DEF Request
  <1> DEFINE job == [content |-> c, version |-> v, completed |-> 0, state |-> "Queued"]
  <1>2. jobs' = [jobs EXCEPT ![j] = job] /\ UNCHANGED <<entries, verified>>
    BY <1>1 DEF Enqueue
  <1>3. 0 \in 0 .. TotalBytes
    BY DEF LibraryConstantsOK
  <1>4. job \in Job
    BY <1>3 DEF Job, DownloadStates
  <1>5. jobs' \in [Jobs -> Job \cup {NoJob}]
    BY <1>2, <1>4 DEF LibraryInv, LibraryTypeOK
  <1>6. ReadyIsWhole'
    BY <1>2 DEF LibraryInv, LibraryTypeOK, ReadyIsWhole
  <1> QED BY <1>2, <1>5, <1>6 DEF LibraryInv, LibraryTypeOK, EntriesHaveVersions, ValidEntry, HoldsAVersion

\* The states that follow a state, and the bytes that they need.
LEMMA TransitionKeepsLibraryInv == ASSUME LibraryConstantsOK, LibraryInv, Transition PROVE LibraryInv'
PROOF
  <1>1. PICK j \in Jobs, next \in DownloadStates, bytes \in 0 .. TotalBytes :
          /\ jobs[j] # NoJob
          /\ Allowed(jobs[j].state, next) /\ Progress(jobs[j], next, bytes)
          /\ jobs' = [jobs EXCEPT ![j].state = next, ![j].completed = bytes]
          /\ verified' = CASE jobs[j].state = "Verifying" /\ next = "Staging" -> verified \cup {j}
                           [] next = "Failed" -> verified \ {j}
                           [] OTHER -> verified
          /\ UNCHANGED entries
    BY DEF Transition
  <1> DEFINE from == jobs[j].state
             job == [jobs[j] EXCEPT !.state = next, !.completed = bytes]
  <1>2. jobs[j] \in Job /\ from \in DownloadStates /\ jobs[j].completed \in 0 .. TotalBytes
    BY <1>1 DEF LibraryInv, LibraryTypeOK, Job
  <1>3. job \in Job /\ job.state = next /\ job.completed = bytes
    BY <1>1, <1>2 DEF Job
  <1>4. jobs' = [jobs EXCEPT ![j] = job]
    BY <1>1
  <1>5. jobs' \in [Jobs -> Job \cup {NoJob}]
    BY <1>3, <1>4 DEF LibraryInv, LibraryTypeOK
  <1>6. /\ verified' \subseteq Jobs
        /\ next # "Failed" => verified \subseteq verified'
        /\ next = "Failed" => verified' = verified \ {j}
        /\ from = "Verifying" /\ next = "Staging" => j \in verified'
    BY <1>1 DEF LibraryInv, LibraryTypeOK
  <1>7. /\ next = "Verifying" => from \in {"Downloading", "Verifying"}
        /\ next = "Staging" => from \in {"Verifying", "Staging"}
        /\ next = "Ready" => from \in {"Staging", "Ready"}
    BY <1>1, <1>2 DEF Allowed, Successors, DownloadStates
  <1>8. next \in {"Verifying", "Ready"} => bytes = TotalBytes
    BY <1>1 DEF Progress
  <1>9. next = "Staging" => bytes = TotalBytes
    <2> SUFFICES ASSUME next = "Staging" PROVE bytes = TotalBytes OBVIOUS
    <2>1. jobs[j].completed = TotalBytes
      BY <1>1, <1>7 DEF LibraryInv, ReadyIsWhole
    <2>2. jobs[j].completed <= bytes /\ bytes <= TotalBytes
      BY <1>1 DEF Progress
    <2>3. TotalBytes \in Nat /\ bytes \in Int
      BY DEF LibraryConstantsOK
    <2> QED BY <2>1, <2>2, <2>3
  <1>10. next \in {"Staging", "Ready"} => j \in verified'
    BY <1>1, <1>6, <1>7 DEF LibraryInv, ReadyIsWhole
  <1>11. ReadyIsWhole'
    <2> SUFFICES ASSUME NEW i \in Jobs, jobs'[i] # NoJob
                 PROVE  /\ jobs'[i].state \in {"Verifying", "Staging", "Ready"} => jobs'[i].completed = TotalBytes
                        /\ jobs'[i].state \in {"Staging", "Ready"} => i \in verified'
      BY DEF ReadyIsWhole
    <2>1. CASE i = j
      <3>1. jobs'[i] = job
        BY <1>4, <2>1 DEF LibraryInv, LibraryTypeOK
      <3> QED BY <1>3, <1>8, <1>9, <1>10, <2>1, <3>1
    <2>2. CASE i # j
      <3>1. jobs'[i] = jobs[i]
        BY <1>4, <2>2 DEF LibraryInv, LibraryTypeOK
      <3>2. i \in verified <=> i \in verified'
        BY <1>1, <2>2
      <3> QED BY <3>1, <3>2 DEF LibraryInv, ReadyIsWhole
    <2> QED BY <2>1, <2>2
  <1> QED BY <1>1, <1>5, <1>6, <1>11 DEF LibraryInv, LibraryTypeOK, EntriesHaveVersions, ValidEntry, HoldsAVersion

\* What is installed has the version of its job.
LEMMA InstalledKeepsLibraryInv == ASSUME LibraryConstantsOK, LibraryInv, Installed PROVE LibraryInv'
PROOF
  <1>1. PICK j \in Jobs :
          /\ jobs[j] # NoJob
          /\ entries' = [entries EXCEPT ![jobs[j].content] =
                [@ EXCEPT !.installState = "Installed", !.installedVersion = jobs[j].version]]
          /\ UNCHANGED <<jobs, verified>>
    BY DEF Installed
  <1>2. jobs[j] \in Job
    BY <1>1 DEF LibraryInv, LibraryTypeOK
  <1>3. jobs[j].content \in Contents /\ jobs[j].version \in Versions /\ jobs[j].version # 0
    BY <1>2 DEF Job, LibraryConstantsOK
  <1> DEFINE c == jobs[j].content
             e == [entries[c] EXCEPT !.installState = "Installed", !.installedVersion = jobs[j].version]
  <1>4. entries[c] \in Entry
    BY <1>3 DEF LibraryInv, LibraryTypeOK
  <1>5. e \in Entry /\ ValidEntry(e)
    BY <1>3, <1>4 DEF Entry, InstallStates, ValidEntry
  <1>6. entries' = [entries EXCEPT ![c] = e]
    BY <1>1
  <1>7. entries' \in [Contents -> Entry] /\ EntriesHaveVersions'
    BY <1>3, <1>5, <1>6 DEF LibraryInv, LibraryTypeOK, EntriesHaveVersions, ValidEntry, HoldsAVersion
  <1> QED BY <1>1, <1>7 DEF LibraryInv, LibraryTypeOK, ReadyIsWhole

-----------------------------------------------------------------------------
\* Every step keeps what the argument rests on.
LEMMA NextKeepsLibraryInv == LibraryConstantsOK /\ LibraryInv /\ [LibraryNext]_libraryVars => LibraryInv'
PROOF
  <1> SUFFICES ASSUME LibraryConstantsOK, LibraryInv, [LibraryNext]_libraryVars PROVE LibraryInv' OBVIOUS
  <1>1. CASE UNCHANGED libraryVars
    BY <1>1 DEF libraryVars, LibraryInv, LibraryTypeOK, ReadyIsWhole, EntriesHaveVersions, ValidEntry, HoldsAVersion
  <1> QED BY <1>1, UpsertKeepsLibraryInv, RequestKeepsLibraryInv, TransitionKeepsLibraryInv, InstalledKeepsLibraryInv DEF LibraryNext

\* What the library can play has a version, and what is ready was verified.
LEMMA LibraryInvIsEnough == LibraryInv => LibraryIsSound
PROOF
  <1> SUFFICES ASSUME LibraryInv PROVE LibraryIsSound OBVIOUS
  <1>1. ASSUME NEW c \in Contents, PrimaryAction(entries[c]) = "PlayLocal"
        PROVE  entries[c].installedVersion # 0
    <2>1. entries[c].installState \in InstallStates
      BY DEF LibraryInv, LibraryTypeOK, Entry
    <2>2. entries[c].installState = "Installed"
      BY <1>1, <2>1 DEF PrimaryAction, InstallStates
    <2> QED BY <2>2 DEF LibraryInv, EntriesHaveVersions, ValidEntry, HoldsAVersion
  <1> QED BY <1>1 DEF LibraryInv, LibraryIsSound, PlayableHasVersion

-----------------------------------------------------------------------------
\* No order of reports, failures, retries and pauses gets a download past the verification of
\* all its bytes, and nothing without a version can be played, for any number of downloads of
\* any size.
THEOREM DownloadsAreVerified ==
    ASSUME LibraryConstantsOK PROVE LibrarySpec => []LibraryIsSound
PROOF
  <1>1. LibraryInit => LibraryInv
    BY InitLibraryInv
  <1>2. LibraryInv /\ [LibraryNext]_libraryVars => LibraryInv'
    BY NextKeepsLibraryInv
  <1> QED BY <1>1, <1>2, LibraryInvIsEnough, PTL DEF LibrarySpec

\* Entries and jobs stay records of the library, for any sets of them.
THEOREM LibraryTypes == ASSUME LibraryConstantsOK PROVE LibrarySpec => []LibraryTypeOK
PROOF
  <1>1. LibraryInit => LibraryInv
    BY InitLibraryInv
  <1>2. LibraryInv /\ [LibraryNext]_libraryVars => LibraryInv'
    BY NextKeepsLibraryInv
  <1>3. LibraryInv => LibraryTypeOK
    BY DEF LibraryInv
  <1> QED BY <1>1, <1>2, <1>3, PTL DEF LibrarySpec

(***************************************************************************)
(* Proofs about LaunchChain, for every set of accounts, contents and       *)
(* capabilities.  The launch that the shell holds was checked when it was  *)
(* allowed; the session keeps the launch that it was started with, and     *)
(* nothing but Begin gives the host a process.                             *)
(***************************************************************************)
\* Whoever holds a launch holds one that was checked.
DescriptorIsChecked == descriptor # None => Agrees(descriptor)

ChainInv == DescriptorIsChecked /\ RunsWhatWasAllowed

-----------------------------------------------------------------------------
\* A launch that is allowed agrees with its entitlement.
LEMMA RequestKeepsChainInv ==
    ASSUME ChainInv, NEW content \in Games, RequestLaunch(content) PROVE ChainInv'
PROOF
  <1>1. UNCHANGED chainSession
    BY DEF RequestLaunch, Refuse
  <1>2. RunsWhatWasAllowed'
    BY <1>1 DEF chainSession, ChainInv, RunsWhatWasAllowed, Agrees
  <1>3. CASE UNCHANGED descriptor
    BY <1>2, <1>3 DEF ChainInv, DescriptorIsChecked, Agrees
  <1>4. CASE \E grant \in Entitlements, package \in Packages :
               /\ Refusal(content, grant) = "None"
               /\ descriptor' = [package |-> package, content |-> content,
                                 account |-> account, grant |-> grant]
    <2>1. PICK grant \in Entitlements, package \in Packages :
               /\ Refusal(content, grant) = "None"
               /\ descriptor' = [package |-> package, content |-> content,
                                 account |-> account, grant |-> grant]
      BY <1>4
    <2>2. /\ grant.account = account /\ grant.content = content
          /\ grant.source = RequiredAuthority(content)
      BY <2>1 DEF Refusal
    <2>3. Agrees(descriptor')
      BY <2>1, <2>2 DEF Agrees
    <2> QED BY <1>2, <2>3 DEF ChainInv, DescriptorIsChecked, Agrees
  <1>5. UNCHANGED descriptor \/ \E grant \in Entitlements, package \in Packages :
               /\ Refusal(content, grant) = "None"
               /\ descriptor' = [package |-> package, content |-> content,
                                 account |-> account, grant |-> grant]
    BY DEF RequestLaunch, Refuse
  <1> QED BY <1>3, <1>4, <1>5

\* A session starts with the launch that the shell holds, and with no session beside it.
LEMMA StartKeepsChainInv ==
    ASSUME ChainConstantsOK, ChainInv, NEW request \in Requests, Start(request) PROVE ChainInv'
PROOF
  <1>1. CASE UNCHANGED <<account, descriptor, chainSession>>
    BY <1>1 DEF chainSession, ChainInv, DescriptorIsChecked, RunsWhatWasAllowed, Agrees
  <1>2. CASE \E grant \in [identity : Identities, capabilities : SUBSET Capabilities] :
               GrantIsSubset(request, grant) /\ Begin(request, grant)
    <2>1. PICK grant \in [identity : Identities, capabilities : SUBSET Capabilities] :
               GrantIsSubset(request, grant) /\ Begin(request, grant)
      BY <1>2
    <2>2. /\ descriptor # None /\ ~Conflicts /\ request.identity.package = descriptor.package
      BY <2>1 DEF Start, Begin, Deny, chainSession, Conflicts
    <2>3. host = None /\ Agrees(descriptor)
      BY <2>2 DEF Conflicts, Active, ChainInv, DescriptorIsChecked, RunsWhatWasAllowed
    <2>4. request.identity # None
      BY DEF Requests, ChainConstantsOK
    <2>5. /\ identity' = request.identity /\ UNCHANGED <<account, descriptor>>
          /\ started'.launch = descriptor /\ started'.request = request
      BY <2>1 DEF Begin
    <2>6. CASE /\ runtime' = "Running" /\ host' = request.identity /\ granted' = grant.capabilities
      <3>1. grant.capabilities \subseteq request.capabilities
        BY <2>1 DEF GrantIsSubset
      <3>2. RunsWhatWasAllowed'
        BY <2>2, <2>3, <2>4, <2>5, <2>6, <3>1 DEF RunsWhatWasAllowed, Active, Agrees
      <3> QED BY <2>3, <2>5, <3>2 DEF ChainInv, DescriptorIsChecked, Agrees
    <2>7. CASE runtime' = "Failed" /\ UNCHANGED host
      <3>1. RunsWhatWasAllowed'
        BY <2>3, <2>7 DEF RunsWhatWasAllowed, Active
      <3> QED BY <2>3, <2>5, <3>1 DEF ChainInv, DescriptorIsChecked, Agrees
    <2> QED BY <2>1, <2>6, <2>7 DEF Begin
  <1> QED BY <1>1, <1>2 DEF Start, Deny

\* Every step keeps what the argument rests on.
LEMMA NextKeepsChainInv == ChainConstantsOK /\ ChainInv /\ [ChainNext]_chain => ChainInv'
PROOF
  <1> SUFFICES ASSUME ChainConstantsOK, ChainInv, [ChainNext]_chain PROVE ChainInv' OBVIOUS
  <1>1. CASE SessionBegins \/ SessionEnds
    BY <1>1 DEF SessionBegins, SessionEnds, chainSession, ChainInv, DescriptorIsChecked, RunsWhatWasAllowed, Agrees
  <1>2. CASE Poll
    <2>1. /\ runtime \in Active /\ host' = (IF runtime' \in Active THEN host ELSE None)
          /\ UNCHANGED <<account, descriptor, identity, granted, failure, started>>
      BY <1>2 DEF Poll
    <2> QED BY <2>1 DEF ChainInv, DescriptorIsChecked, RunsWhatWasAllowed, Agrees
  <1>3. CASE Terminate
    <2>1. /\ runtime' \notin Active /\ host' = None
          /\ UNCHANGED <<account, descriptor, identity, granted, failure, started>>
      BY <1>3 DEF Terminate, Active
    <2> QED BY <2>1 DEF ChainInv, DescriptorIsChecked, RunsWhatWasAllowed, Agrees
  <1>4. CASE UNCHANGED chain
    BY <1>4 DEF chain, chainSession, ChainInv, DescriptorIsChecked, RunsWhatWasAllowed, Agrees
  <1> QED BY <1>1, <1>2, <1>3, <1>4, RequestKeepsChainInv, StartKeepsChainInv DEF ChainNext

\* At first nothing is allowed and nothing runs.
LEMMA InitChainInv == ChainInit => ChainInv
PROOF
  BY DEF ChainInit, ChainInv, DescriptorIsChecked, RunsWhatWasAllowed, Active

-----------------------------------------------------------------------------
\* Whatever the services answer and whoever signs in and out, a process runs only while the
\* authority says so, for the identity of its session, the package of an allowed launch and no
\* more capabilities than were asked for.
THEOREM OnlyAllowedGamesRun == ASSUME ChainConstantsOK PROVE ChainSpec => []RunsWhatWasAllowed
PROOF
  <1>1. ChainInv /\ [ChainNext]_chain => ChainInv'
    BY NextKeepsChainInv
  <1>2. ChainInv => RunsWhatWasAllowed
    BY DEF ChainInv
  <1> QED BY <1>1, <1>2, InitChainInv, PTL DEF ChainSpec

(***************************************************************************)
(* Proofs about PackageGate, for every set of files, digests and keys and  *)
(* every limit.  That what is launched as a publisher's is what the        *)
(* publisher signed rests on one fact about each package: its signature,   *)
(* if it is one, is of a text that somebody wrote of files he signed.      *)
(* Whatever changes files and texts leaves the signature alone.            *)
(***************************************************************************)
\* The signature of a package is one that was made.
IsSigned(package) ==
    package.signature.kind = "valid" =>
        <<package.signature.key, package.signature.text.lists>> \in signed

GateInv == GateTypeOK /\ IsSigned(source) /\ IsSigned(installed)

-----------------------------------------------------------------------------
\* What is written of the files is a text, and a copy is a package.
LEMMA CopyIsPackage ==
    ASSUME NEW p \in PackageRecords
    PROVE  /\ CopyOf(p) \in PackageRecords
           /\ CopyOf(p).signature = p.signature
PROOF
  <1>1. WriteIntegrity(p.files) \in Texts
    BY DEF WriteIntegrity, Texts, Forms, PackageRecords
  <1> QED BY <1>1 DEF CopyOf, PackageRecords

\* Whatever happens to the files and the text of a package, its signature stays.
LEMMA TouchedIsPackage ==
    ASSUME NEW p \in PackageRecords, NEW q \in Touched(p)
    PROVE  q \in PackageRecords /\ q.signature = p.signature
PROOF
  <1>1. CASE \E f \in Files, d \in Digests \cup {Absent} : q = [p EXCEPT !.files[f] = d]
    <2>1. PICK f \in Files, d \in Digests \cup {Absent} : q = [p EXCEPT !.files[f] = d]
      BY <1>1
    <2>2. [p.files EXCEPT ![f] = d] \in Inventories
      BY DEF PackageRecords, Inventories
    <2> QED BY <2>1, <2>2 DEF PackageRecords
  <1>2. CASE \E f \in FilesOf(p.text.lists), d \in Digests : q = [p EXCEPT !.text.lists[f] = d]
    <2>1. PICK f \in FilesOf(p.text.lists), d \in Digests : q = [p EXCEPT !.text.lists[f] = d]
      BY <1>2
    <2>2. p.text \in [lists : Inventories, form : Forms]
      BY <2>1 DEF FilesOf, PackageRecords, Texts, NoText
    <2>3. [p.text EXCEPT !.lists[f] = d] \in [lists : Inventories, form : Forms]
      BY <2>1, <2>2 DEF Inventories, FilesOf
    <2> QED BY <2>1, <2>3 DEF PackageRecords, Texts
  <1>3. CASE q = [p EXCEPT !.text = NoText]
    BY <1>3 DEF PackageRecords, Texts
  <1> QED BY <1>1, <1>2, <1>3 DEF Touched

-----------------------------------------------------------------------------
\* At first there is no package and no signature.
LEMMA InitGateInv == GateInit => GateInv
PROOF
  <1> SUFFICES ASSUME GateInit PROVE GateInv OBVIOUS
  <1>1. NoPackage \in PackageRecords
    BY DEF NoPackage, PackageRecords, Inventories, NoText, Texts
  <1>2. IsSigned(source) /\ IsSigned(installed)
    BY DEF GateInit, IsSigned, NoPackage, NoSignature
  <1> QED BY <1>1, <1>2 DEF GateInit, GateInv, GateTypeOK

\* A publisher signs what he writes.
LEMMA PublishKeepsGateInv == ASSUME GateInv, Publish PROVE GateInv'
PROOF
  <1>1. PICK c \in Inventories, form \in Forms \cup {"none"} :
          LET text == IF form = "none" THEN NoText ELSE [lists |-> c, form |-> form]
              With(signature) == source' = [files |-> c, text |-> text, signature |-> signature]
          IN  /\ \/ \E s \in {NoSignature, [kind |-> "malformed"], [kind |-> "unsupported"]} :
                       With(s) /\ UNCHANGED signed
                 \/ \E k \in Keys :
                       /\ text # NoText /\ Cardinality(signed) < MaxSigned
                       /\ With([kind |-> "valid", key |-> k, text |-> text])
                       /\ signed' = signed \cup {<<k, c>>}
              /\ UNCHANGED <<installed, trusted>>
    BY DEF Publish
  <1> DEFINE text == IF form = "none" THEN NoText ELSE [lists |-> c, form |-> form]
  <1>2. text \in Texts
    BY DEF Texts, NoText, Forms
  <1>3. CASE \E s \in {NoSignature, [kind |-> "malformed"], [kind |-> "unsupported"]} :
                /\ source' = [files |-> c, text |-> text, signature |-> s]
                /\ UNCHANGED signed
    <2>1. PICK s \in {NoSignature, [kind |-> "malformed"], [kind |-> "unsupported"]} :
                /\ source' = [files |-> c, text |-> text, signature |-> s]
                /\ UNCHANGED signed
      BY <1>3
    <2>2. s \in Signatures \cup {NoSignature} /\ s.kind # "valid"
      BY <2>1 DEF Signatures, NoSignature
    <2>3. source' \in PackageRecords /\ source'.signature.kind # "valid"
      BY <1>2, <2>1, <2>2 DEF PackageRecords
    <2> QED BY <1>1, <2>1, <2>3 DEF GateInv, GateTypeOK, IsSigned
  <1>4. CASE \E k \in Keys :
                /\ text # NoText
                /\ source' = [files |-> c, text |-> text,
                              signature |-> [kind |-> "valid", key |-> k, text |-> text]]
                /\ signed' = signed \cup {<<k, c>>}
    <2>1. PICK k \in Keys :
                /\ text # NoText
                /\ source' = [files |-> c, text |-> text,
                              signature |-> [kind |-> "valid", key |-> k, text |-> text]]
                /\ signed' = signed \cup {<<k, c>>}
      BY <1>4
    <2>2. text.lists = c
      BY <2>1
    <2>3. [kind |-> "valid", key |-> k, text |-> text] \in Signatures
      BY <1>2 DEF Signatures
    <2>4. source' \in PackageRecords
      BY <1>2, <2>1, <2>3 DEF PackageRecords
    <2>5. IsSigned(source)'
      BY <2>1, <2>2 DEF IsSigned
    <2>6. IsSigned(installed)'
      BY <1>1, <2>1 DEF GateInv, IsSigned
    <2> QED BY <1>1, <2>1, <2>4, <2>5, <2>6 DEF GateInv, GateTypeOK
  <1> QED BY <1>1, <1>3, <1>4

\* A copy has the signature of its source.
LEMMA ImportKeepsGateInv == ASSUME GateInv, Import PROVE GateInv'
PROOF
  <1>1. installed' = CopyOf(source) /\ UNCHANGED <<source, trusted, signed>>
    BY DEF Import
  <1>2. installed' \in PackageRecords /\ installed'.signature = source.signature
    BY <1>1, CopyIsPackage DEF GateInv, GateTypeOK
  <1> QED BY <1>1, <1>2 DEF GateInv, GateTypeOK, IsSigned

\* Other programs sign nothing.
LEMMA FilesChangeKeepsGateInv == ASSUME GateInv, FilesChange PROVE GateInv'
PROOF
  <1>1. CASE source' \in Touched(source) /\ UNCHANGED installed
    <2>1. source' \in PackageRecords /\ source'.signature = source.signature
      BY <1>1, TouchedIsPackage DEF GateInv, GateTypeOK
    <2> QED BY <1>1, <2>1 DEF FilesChange, GateInv, GateTypeOK, IsSigned
  <1>2. CASE installed' \in Touched(installed) /\ UNCHANGED source
    <2>1. installed' \in PackageRecords /\ installed'.signature = installed.signature
      BY <1>2, TouchedIsPackage DEF GateInv, GateTypeOK
    <2> QED BY <1>2, <2>1 DEF FilesChange, GateInv, GateTypeOK, IsSigned
  <1> QED BY <1>1, <1>2 DEF FilesChange

\* Every step keeps what the argument rests on.
LEMMA NextKeepsGateInv == GateInv /\ [GateNext]_gateVars => GateInv'
PROOF
  <1> SUFFICES ASSUME GateInv, [GateNext]_gateVars PROVE GateInv' OBVIOUS
  <1>1. CASE KeysChange
    BY <1>1 DEF KeysChange, GateInv, GateTypeOK, IsSigned
  <1>2. CASE UNCHANGED gateVars
    BY <1>2 DEF gateVars, GateInv, GateTypeOK, IsSigned
  <1> QED BY <1>1, <1>2, PublishKeepsGateInv, ImportKeepsGateInv, FilesChangeKeepsGateInv DEF GateNext

-----------------------------------------------------------------------------
\* The evaluation trusts no more than a signature of the text that is there.
LEMMA TrustedIsSigned ==
    ASSUME NEW p \in PackageRecords, TrustState(p) = "TrustedPublisher"
    PROVE  p.signature.kind = "valid" /\ p.signature.text = p.text
PROOF
  <1> DEFINE s == p.signature
  <1>1. /\ s.kind \notin {"none", "malformed", "unsupported"}
        /\ Signs(s, p.text)
    BY DEF TrustState, PublisherState
  <1>2. s.kind \in {"none", "malformed", "unsupported", "valid"}
    BY DEF PackageRecords, Signatures, NoSignature
  <1> QED BY <1>1, <1>2 DEF Signs

\* The invariant makes launches genuine.
LEMMA GateInvIsEnough == GateInv => LaunchesAreGenuine
PROOF
  <1> SUFFICES ASSUME GateInv PROVE LaunchesAreGenuine OBVIOUS
  <1>1. Launchable("RequireTrustedPublisher") => TrustState(installed) = "TrustedPublisher"
    BY DEF Launchable, LaunchAllowed
  <1>2. ASSUME NEW policy \in Policies, Launchable(policy),
               TrustState(installed) = "TrustedPublisher"
        PROVE  <<installed.signature.key, installed.files>> \in signed
    <2>1. installed.text.lists = installed.files
      BY <1>2 DEF Launchable, Verify, Equivalent
    <2>2. installed.signature.kind = "valid" /\ installed.signature.text = installed.text
      BY <1>2, TrustedIsSigned DEF GateInv, GateTypeOK
    <2> QED BY <2>1, <2>2 DEF GateInv, IsSigned
  <1> QED BY <1>1, <1>2 DEF LaunchesAreGenuine

-----------------------------------------------------------------------------
\* Packages, keys and signatures keep their kinds.
THEOREM GateTypes == GateSpec => []GateTypeOK
PROOF
  <1>1. GateInv => GateTypeOK BY DEF GateInv
  <1> QED BY <1>1, InitGateInv, NextKeepsGateInv, PTL DEF GateSpec

\* A game that is launched as one of a trusted publisher has the very files that were signed,
\* whatever is published, imported, changed and trusted in whatever order.
THEOREM GamesAreGenuine == GateSpec => []LaunchesAreGenuine
PROOF
  BY InitGateInv, NextKeepsGateInv, GateInvIsEnough, PTL DEF GateSpec

(***************************************************************************)
(* Proofs about CloudDomain, for every number of devices, saves, and names *)
(* of versions, of which any two saves may have the same.  A save that     *)
(* goes up takes the place of one in the cloud only where somebody has     *)
(* decided, and so does one that comes down.                               *)
(***************************************************************************)
\* The saves that there may be.
SaveRecords == [content : Nat, versionId : VersionIds]
SavesTypeOK ==
    /\ local \in [Devices -> SaveRecords \cup {NoSave}]
    /\ cloud \in SaveRecords \cup {NoSave}
    /\ made \in Nat

CloudInv == SavesTypeOK /\ NothingIsLostUnasked

-----------------------------------------------------------------------------
\* The content is in the cloud or on a device.
Kept(content) == content \in ContentOf(cloud) \/ \E d \in Devices : content \in ContentOf(local[d])

LEMMA KeptWanted == NothingIsLostUnasked <=> \A content \in wanted : Kept(content)
PROOF
  BY DEF NothingIsLostUnasked, Kept

\* A decision that no policy makes concerns one save only.
LEMMA UndecidedIsAlone ==
    ASSUME CloudConstantsOK, NEW mine, NEW theirs, NEW issued \in BOOLEAN, NEW policy \in ConflictPolicies
    PROVE  /\ Decide(mine, theirs, issued, policy) = "UploadLocal" =>
                  theirs = NoSave \/ policy = "PreferLocal"
           /\ Decide(mine, theirs, issued, policy) = "DownloadCloud" =>
                  mine = NoSave \/ policy = "PreferCloud"
PROOF
  BY DEF Decide, CloudConstantsOK

\* The save of the device takes the place of that in the cloud.
LEMMA UploadKeepsCloudInv ==
    ASSUME CloudInv, NEW d \in Devices, NEW decided \in BOOLEAN,
           decided \/ cloud = NoSave, Upload(d, decided)
    PROVE  CloudInv'
PROOF
  <1>1. cloud' = local[d] /\ UNCHANGED <<local, made>>
    BY DEF Upload
  <1>2. SavesTypeOK'
    BY <1>1 DEF CloudInv, SavesTypeOK
  <1>3. ASSUME NEW content \in wanted' PROVE Kept(content)'
    <2>1. content \in wanted /\ content \notin ContentOf(cloud)
      BY <1>3 DEF Upload, ContentOf
    <2>2. PICK e \in Devices : content \in ContentOf(local[e])
      BY <2>1, KeptWanted DEF CloudInv, Kept
    <2> QED BY <1>1, <2>2 DEF Kept, ContentOf
  <1>4. NothingIsLostUnasked'
    BY <1>3 DEF NothingIsLostUnasked, Kept
  <1> QED BY <1>2, <1>4 DEF CloudInv

\* The save of the cloud takes the place of that on the device.
LEMMA DownloadKeepsCloudInv ==
    ASSUME CloudInv, NEW d \in Devices, NEW decided \in BOOLEAN,
           decided \/ local[d] = NoSave, Download(d, decided)
    PROVE  CloudInv'
PROOF
  <1>1. local' = [local EXCEPT ![d] = cloud] /\ UNCHANGED <<cloud, made>>
    BY DEF Download
  <1>2. SavesTypeOK'
    BY <1>1 DEF CloudInv, SavesTypeOK
  <1>3. ASSUME NEW content \in wanted' PROVE Kept(content)'
    <2>1. content \in wanted /\ content \notin ContentOf(local[d])
      BY <1>3 DEF Download, ContentOf
    <2>2. CASE content \in ContentOf(cloud)
      BY <1>1, <2>2 DEF Kept, ContentOf
    <2>3. CASE \E e \in Devices : content \in ContentOf(local[e])
      <3>1. PICK e \in Devices : content \in ContentOf(local[e])
        BY <2>3
      <3>2. local'[e] = local[e]
        BY <1>1, <2>1, <3>1 DEF CloudInv, SavesTypeOK
      <3> QED BY <3>1, <3>2 DEF Kept, ContentOf
    <2> QED BY <2>1, <2>2, <2>3, KeptWanted DEF CloudInv, Kept
  <1>4. NothingIsLostUnasked'
    BY <1>3 DEF NothingIsLostUnasked, Kept
  <1> QED BY <1>2, <1>4 DEF CloudInv

\* The save that is played on is replaced by its successor.
LEMMA PlayKeepsCloudInv == ASSUME CloudConstantsOK, CloudInv, Play PROVE CloudInv'
PROOF
  <1>1. PICK d \in Devices, v \in VersionIds :
          /\ made' = made + 1
          /\ local' = [local EXCEPT ![d] = [content |-> made', versionId |-> v]]
          /\ wanted' = (wanted \ ContentOf(local[d])) \cup {made'}
          /\ UNCHANGED cloud
    BY DEF Play
  <1>2. made' \in Nat /\ [content |-> made', versionId |-> v] \in SaveRecords
    BY <1>1 DEF CloudInv, SavesTypeOK, SaveRecords
  <1>3. SavesTypeOK'
    BY <1>1, <1>2 DEF CloudInv, SavesTypeOK
  <1>4. local'[d] = [content |-> made', versionId |-> v] /\ local'[d] # NoSave
    BY <1>1, <1>2 DEF CloudInv, SavesTypeOK, CloudConstantsOK, SaveRecords
  <1>5. made' \in ContentOf(local'[d])
    BY <1>4 DEF ContentOf
  <1>6. ASSUME NEW content \in wanted \ ContentOf(local[d]) PROVE Kept(content)'
    <2>1. CASE content \in ContentOf(cloud)
      BY <1>1, <2>1 DEF Kept, ContentOf
    <2>2. CASE \E e \in Devices : content \in ContentOf(local[e])
      <3>1. PICK e \in Devices : content \in ContentOf(local[e])
        BY <2>2
      <3>2. local'[e] = local[e]
        BY <1>1, <1>6, <3>1 DEF CloudInv, SavesTypeOK
      <3> QED BY <3>1, <3>2 DEF Kept, ContentOf
    <2> QED BY <1>6, <2>1, <2>2, KeptWanted DEF CloudInv, Kept
  <1>7. \A content \in wanted' : Kept(content)'
    BY <1>1, <1>5, <1>6 DEF Kept, ContentOf
  <1>8. NothingIsLostUnasked'
    BY <1>7 DEF NothingIsLostUnasked, Kept
  <1> QED BY <1>3, <1>8 DEF CloudInv

\* A device synchronises.
LEMMA SyncKeepsCloudInv ==
    ASSUME CloudConstantsOK, CloudInv, NEW d \in Devices, Sync(d) PROVE CloudInv'
PROOF
  <1>1. CASE UNCHANGED saveVars
    BY <1>1 DEF saveVars, CloudInv, SavesTypeOK, NothingIsLostUnasked, ContentOf
  <1>2. CASE Upload(d, TRUE) \/ Download(d, TRUE)
    BY <1>2, UploadKeepsCloudInv, DownloadKeepsCloudInv
  <1>3. ASSUME NEW policy \in ConflictPolicies, NEW issued \in BOOLEAN,
               Decide(local[d], cloud, issued, policy) = "UploadLocal",
               Upload(d, policy = "PreferLocal")
        PROVE  CloudInv'
    <2>1. cloud = NoSave \/ policy = "PreferLocal"
      BY <1>3, UndecidedIsAlone
    <2> QED BY <1>3, <2>1, UploadKeepsCloudInv
  <1>4. ASSUME NEW policy \in ConflictPolicies, NEW issued \in BOOLEAN,
               Decide(local[d], cloud, issued, policy) = "DownloadCloud",
               Download(d, policy = "PreferCloud")
        PROVE  CloudInv'
    <2>1. local[d] = NoSave \/ policy = "PreferCloud"
      BY <1>4, UndecidedIsAlone
    <2> QED BY <1>4, <2>1, DownloadKeepsCloudInv
  <1> QED BY <1>1, <1>2, <1>3, <1>4 DEF Sync

LEMMA NextKeepsCloudInv == CloudConstantsOK /\ CloudInv /\ [CloudNext]_cloudVars => CloudInv'
PROOF
  <1> SUFFICES ASSUME CloudConstantsOK, CloudInv, [CloudNext]_cloudVars PROVE CloudInv' OBVIOUS
  <1>1. CASE UNCHANGED saveVars
    BY <1>1 DEF saveVars, CloudInv, SavesTypeOK, NothingIsLostUnasked, ContentOf
  <1>2. CASE StartStream \/ StopStream \/ UNCHANGED cloudVars
    BY <1>1, <1>2 DEF StartStream, StopStream, cloudVars, saveVars
  <1> QED BY <1>2, PlayKeepsCloudInv, SyncKeepsCloudInv DEF CloudNext

-----------------------------------------------------------------------------
\* Whichever devices play and synchronise in which order, whatever names their saves have and
\* whatever the service answers, a save that nobody has played on from or decided against is
\* still on a device or in the cloud.
THEOREM SavesAreKept == ASSUME CloudConstantsOK PROVE CloudSpec => []NothingIsLostUnasked
PROOF
  <1>1. CloudInit => CloudInv
    BY DEF CloudInit, CloudInv, SavesTypeOK, NothingIsLostUnasked
  <1>2. CloudInv /\ [CloudNext]_cloudVars => CloudInv'
    BY NextKeepsCloudInv
  <1>3. CloudInv => NothingIsLostUnasked
    BY DEF CloudInv
  <1> QED BY <1>1, <1>2, <1>3, PTL DEF CloudSpec

(***************************************************************************)
(* Proofs about SocialDomain, for every set of people and every size of a  *)
(* party.  The party that is kept has as many accounts as members, so that *)
(* no account is listed twice and the account of the console stands in one *)
(* place; a join is compared with the party there is at that moment.       *)
(***************************************************************************)
SocialInv == SocialTypeOK /\ SocialIsSound

-----------------------------------------------------------------------------
\* A party of as many accounts as members has the account of the console once.
LEMMA SelfIsOnce ==
    ASSUME NEW p \in Party, ValidParty(p), SocialConstantsOK
    PROVE  Cardinality({i \in DOMAIN p.members : p.members[i].account = Self}) = 1
PROOF
  <1> DEFINE members == p.members
             accounts == [i \in DOMAIN members |-> members[i].account]
             mine == {i \in DOMAIN members : members[i].account = Self}
  <1>1. members \in SeqOf(Member, MaxMembers)
    BY DEF Party
  <1>2. PICK n \in Nat : members \in [1 .. n -> Member]
    BY <1>1 DEF SeqOf, SocialConstantsOK
  <1> HIDE DEF members
  <1>3. DOMAIN members = 1 .. n /\ Len(members) = n
    BY <1>2
  <1>4. IsFiniteSet(DOMAIN members) /\ Cardinality(DOMAIN members) = n
    BY <1>2, <1>3, FS_Interval
  <1>5. Cardinality(DOMAIN members) = Cardinality(AccountsOf(members))
    BY <1>3, <1>4 DEF ValidParty, members
  <1>6. accounts \in Surjection(DOMAIN members, AccountsOf(members))
    BY DEF Surjection, AccountsOf
  <1>7. accounts \in Injection(DOMAIN members, AccountsOf(members))
    BY <1>4, <1>5, <1>6, FS_SurjSameCardinalityImpliesInj
  <1>8. PICK i \in DOMAIN members : members[i].account = Self
    BY DEF ValidParty, OneLeader, AccountsOf, members
  <1>9. \A j \in DOMAIN members : members[j].account = Self => j = i
    BY <1>7, <1>8 DEF Injection, IsInjective
  <1>10. mine = {i}
    BY <1>8, <1>9
  <1> QED BY <1>10, FS_Singleton DEF members

\* A record is kept as one that can be joined only of a friend, in a game that is known.
LEMMA NormalizedIsSound ==
    ASSUME NEW r \in FriendRecord
    PROVE  /\ Normalized(r) \in FriendRecord
           /\ Normalized(r).joinable => Normalized(r).relationship = "Friends"
           /\ Normalized(r).relationship = "Blocked" =>
                  Normalized(r).presence = "Offline" /\ Normalized(r).content = NoContent
           /\ Normalized(r).joinable => Normalized(r).content = r.content
PROOF
  <1> DEFINE hidden == IF r.relationship = "Blocked"
                       THEN [r EXCEPT !.joinable = FALSE, !.content = NoContent, !.presence = "Offline"] ELSE r
  <1>1. /\ hidden \in FriendRecord /\ hidden.relationship = r.relationship
        /\ r.relationship = "Blocked" => hidden.presence = "Offline" /\ hidden.content = NoContent
        /\ r.relationship # "Blocked" => hidden = r
    BY DEF FriendRecord, Presences
  <1>2. Normalized(r) = IF hidden.relationship # "Friends" THEN [hidden EXCEPT !.joinable = FALSE] ELSE hidden
    BY DEF Normalized
  <1> HIDE DEF hidden
  <1>3. CASE hidden.relationship # "Friends"
    BY <1>1, <1>2, <1>3 DEF FriendRecord
  <1>4. CASE hidden.relationship = "Friends"
    BY <1>1, <1>2, <1>4
  <1> QED BY <1>3, <1>4

LEMMA FriendKeepsSocialInv == ASSUME SocialInv, ApplyFriendRecord PROVE SocialInv'
PROOF
  <1>1. PICK f \in People, r \in FriendRecord :
          /\ Normalized(r).joinable => r.content # NoContent
          /\ friends' = [friends EXCEPT ![f] = Normalized(r)]
          /\ UNCHANGED <<party, join, joined, clock>>
    BY DEF ApplyFriendRecord
  <1>2. SocialTypeOK'
    BY <1>1, NormalizedIsSound DEF SocialInv, SocialTypeOK
  <1>3. ASSUME NEW g \in People
        PROVE  /\ friends'[g].joinable => friends'[g].relationship = "Friends" /\ friends'[g].content # NoContent
               /\ friends'[g].relationship = "Blocked" =>
                      friends'[g].presence = "Offline" /\ friends'[g].content = NoContent
    <2>1. CASE g = f
      <3>1. friends'[g] = Normalized(r)
        BY <1>1, <2>1 DEF SocialInv, SocialTypeOK
      <3> QED BY <1>1, <3>1, NormalizedIsSound
    <2>2. CASE g # f
      <3>1. friends'[g] = friends[g]
        BY <1>1, <2>2 DEF SocialInv, SocialTypeOK
      <3> QED BY <3>1 DEF SocialInv, SocialIsSound, CachesAreSound
    <2> QED BY <2>1, <2>2
  <1>4. CachesAreSound'
    BY <1>1, <1>3 DEF SocialInv, SocialIsSound, CachesAreSound
  <1> QED BY <1>1, <1>2, <1>4 DEF SocialInv, SocialIsSound, JoinsAreOfMembers

LEMMA PartyKeepsSocialInv == ASSUME SocialConstantsOK, SocialInv, ApplyParty PROVE SocialInv'
PROOF
  <1>1. PICK p \in Party : ValidParty(p) /\ party' = p /\ UNCHANGED <<friends, join, joined, clock>>
    BY DEF ApplyParty
  <1>2. Cardinality({i \in DOMAIN p.members : p.members[i].account = Self}) = 1
    BY <1>1, SelfIsOnce
  <1>3. Cardinality(Leaders(p.members)) = 1
    BY <1>1 DEF ValidParty, OneLeader
  <1>4. CachesAreSound'
    BY <1>1, <1>2, <1>3 DEF SocialInv, SocialIsSound, CachesAreSound
  <1> QED BY <1>1, <1>4 DEF SocialInv, SocialTypeOK, SocialIsSound, JoinsAreOfMembers

\* Who joins is a member of the party there is at that moment.
LEMMA JoinKeepsSocialInv == ASSUME SocialInv, Join PROVE SocialInv'
PROOF
  <1>1. join' = NoJoin /\ UNCHANGED <<friends, party, clock>>
    BY DEF Join
  <1>2. SocialTypeOK' /\ CachesAreSound'
    BY <1>1 DEF NoJoin, SocialInv, SocialTypeOK, SocialIsSound, CachesAreSound
  <1>3. CASE ~ValidateJoin(join, party)
    <2>1. joined' = joined
      BY <1>3 DEF Join
    <2> QED BY <1>2, <2>1 DEF SocialInv, SocialIsSound, JoinsAreOfMembers
  <1>4. CASE ValidateJoin(join, party)
    <2>1. joined' = [by |-> join.account, content |-> join.content, party |-> party,
                     late |-> clock >= join.expires]
      BY <1>4 DEF Join
    <2>2. /\ join.account \in AccountsOf(party.members)
          /\ join.expires > clock
          /\ party.target = NoContent \/ join.content = party.target
      BY <1>4 DEF ValidateJoin, ForTarget
    <2>3. ~(clock >= join.expires)
      BY <2>2 DEF SocialInv, SocialTypeOK
    <2>4. JoinsAreOfMembers'
      BY <2>1, <2>2, <2>3 DEF JoinsAreOfMembers
    <2> QED BY <1>2, <2>4 DEF SocialInv, SocialIsSound
  <1> QED BY <1>3, <1>4

LEMMA NextKeepsSocialInv == SocialConstantsOK /\ SocialInv /\ [SocialNext]_socialVars => SocialInv'
PROOF
  <1> SUFFICES ASSUME SocialConstantsOK, SocialInv, [SocialNext]_socialVars PROVE SocialInv' OBVIOUS
  <1> USE DEF SocialInv, SocialTypeOK, SocialIsSound, CachesAreSound, JoinsAreOfMembers
  <1>1. CASE Authorize
    BY <1>1 DEF Authorize
  <1>2. CASE ClockTick
    BY <1>2 DEF ClockTick
  <1>3. CASE UNCHANGED socialVars
    BY <1>3 DEF socialVars
  <1> QED
    BY <1>1, <1>2, <1>3, FriendKeepsSocialInv, PartyKeepsSocialInv, JoinKeepsSocialInv DEF SocialNext

-----------------------------------------------------------------------------
\* At first there is nobody.
LEMMA InitSocialInv == ASSUME SocialConstantsOK PROVE SocialInit => SocialInv
PROOF
  <1> SUFFICES ASSUME SocialInit PROVE SocialInv OBVIOUS
  <1>1. NoRecord \in FriendRecord
    BY DEF NoRecord, FriendRecord, Relationships, Presences
  <1>2. SocialTypeOK
    BY <1>1 DEF SocialInit, SocialTypeOK, NoJoin
  <1>3. CachesAreSound
    BY DEF SocialInit, CachesAreSound, NoRecord
  <1>4. JoinsAreOfMembers
    BY DEF SocialInit, JoinsAreOfMembers
  <1> QED BY <1>2, <1>3, <1>4 DEF SocialInv, SocialIsSound

\* Whatever records arrive in whatever order, only a friend can be joined, nothing of somebody
\* who is blocked is shown, the party has the account once and one leader, and a join is by a
\* member, in time, for the game of the party at that moment.
THEOREM SocialStaysSound == ASSUME SocialConstantsOK PROVE SocialSpec => []SocialIsSound
PROOF
  <1>1. SocialInit => SocialInv
    BY InitSocialInv
  <1>2. SocialInv /\ [SocialNext]_socialVars => SocialInv'
    BY NextKeepsSocialInv
  <1>3. SocialInv => SocialIsSound
    BY DEF SocialInv
  <1> QED BY <1>1, <1>2, <1>3, PTL DEF SocialSpec

\* Every record that is kept is one of its kind, whatever is sent.
THEOREM SocialTypes == ASSUME SocialConstantsOK PROVE SocialSpec => []SocialTypeOK
PROOF
  <1>1. SocialInit => SocialInv
    BY InitSocialInv
  <1>2. SocialInv /\ [SocialNext]_socialVars => SocialInv'
    BY NextKeepsSocialInv
  <1>3. SocialInv => SocialTypeOK
    BY DEF SocialInv
  <1> QED BY <1>1, <1>2, <1>3, PTL DEF SocialSpec

(***************************************************************************)
(* Proofs about Checkout, for integers of every width, every number of     *)
(* lines and every price.  A sum that has wrapped around is smaller than   *)
(* what was added last, and a product that has does not give its factor    *)
(* back: by induction over the lines the amounts that pass are the exact   *)
(* ones.                                                                   *)
(***************************************************************************)
\* A set of natural numbers that is not empty has a least one.
LEMMA LeastExists ==
    ASSUME NEW T, T \subseteq Nat, T # {} PROVE \E n \in T : \A k \in T : ~(k < n)
PROOF
  <1> DEFINE R == OpToRel(<, Nat)
  <1>1. IsWellFoundedOn(R, Nat)
    BY NatLessThanWellFounded
  <1>2. \A x, y \in Nat : y < x => <<y, x>> \in R
    BY DEF OpToRel
  <1> HIDE DEF R
  <1>3. \E x \in T : \A y \in T : ~(<<y, x>> \in R)
    BY <1>1, WFMin
  <1> QED BY <1>2, <1>3

\* Induction over the natural numbers that a set holds.
LEMMA SetInduction ==
    ASSUME NEW S, 0 \in S, \A n \in Nat : n \in S => n + 1 \in S PROVE Nat \subseteq S
PROOF
  <1> SUFFICES ASSUME Nat \ S # {} PROVE FALSE
    OBVIOUS
  <1>1. PICK n \in Nat \ S : \A k \in Nat \ S : ~(k < n)
    BY LeastExists
  <1>2. n # 0 /\ n - 1 \in Nat
    BY <1>1
  <1>3. n - 1 \in S
    BY <1>1, <1>2
  <1> QED BY <1>1, <1>2, <1>3

\* The function of a recursion over a sequence of steps exists.
IsRun(f, c, n, step) == f = [i \in 0 .. n |-> IF i = 0 THEN c ELSE step[i][f[i - 1]]]

LEMMA RunExists ==
    ASSUME NEW V, NEW c \in V, NEW n \in Nat, NEW step \in [1 .. n -> [V -> V]]
    PROVE  \E f \in [0 .. n -> V] : IsRun(f, c, n, step)
PROOF
  <1> DEFINE Runs(f, k) == /\ f \in [0 .. k -> V] /\ f[0] = c
                           /\ \A i \in 1 .. k : f[i] = step[i][f[i - 1]]
             S == {k \in Nat : k <= n => \E f : Runs(f, k)}
  <1>1. 0 \in S
    <2>1. Runs([i \in 0 .. 0 |-> c], 0)
      OBVIOUS
    <2> QED BY <2>1
  <1>2. ASSUME NEW k \in Nat, k \in S PROVE k + 1 \in S
    <2> SUFFICES ASSUME k + 1 <= n PROVE \E f : Runs(f, k + 1)
      OBVIOUS
    <2>1. PICK f : Runs(f, k)
      BY <1>2
    <2> DEFINE g == [i \in 0 .. k + 1 |-> IF i <= k THEN f[i] ELSE step[k + 1][f[k]]]
    <2>2. f[k] \in V /\ step[k + 1] \in [V -> V]
      BY <2>1
    <2>3. g \in [0 .. k + 1 -> V] /\ g[0] = c
      BY <2>1, <2>2
    <2>4. ASSUME NEW i \in 1 .. k + 1 PROVE g[i] = step[i][g[i - 1]]
      <3>1. CASE i <= k
        BY <2>1, <3>1
      <3>2. CASE i = k + 1
        BY <3>2
      <3> QED BY <3>1, <3>2
    <2> QED BY <2>3, <2>4
  <1>3. n \in S
    <2> HIDE DEF S
    <2> QED BY <1>1, <1>2, SetInduction
  <1>4. PICK f : Runs(f, n)
    BY <1>3
  <1> QED BY <1>4 DEF IsRun

-----------------------------------------------------------------------------
\* The amounts of a quote are of so many bits.
Amount == 0 .. (Limit - 1)

LEMMA WrapIsAmount == ASSUME ShopConstantsOK, NEW n \in Nat PROVE Wrap(n) \in Amount
PROOF
  <1>1. Limit \in Nat \ {0}
    BY DEF ShopConstantsOK
  <1> QED BY <1>1 DEF Wrap, Amount

LEMMA LineKinds ==
    ASSUME ShopConstantsOK, NEW line \in Lines PROVE line.price \in Nat /\ line.quantity \in Nat
PROOF
  <1>1. line.price \in Prices /\ line.quantity \in 0 .. MaxQuantity
    BY DEF Lines
  <1>2. Limit \in Nat /\ Prices \subseteq 0 .. (Limit - 1) /\ MaxQuantity \in Nat
    BY DEF ShopConstantsOK
  <1>3. \A price \in 0 .. (Limit - 1) : price \in Nat
    BY <1>2
  <1>4. \A k \in 0 .. MaxQuantity : k \in Nat
    BY <1>2
  <1> QED BY <1>1, <1>2, <1>3, <1>4

\* A product that gives its factor back has not wrapped around.
LEMMA ProductIsExact ==
    ASSUME ShopConstantsOK, NEW line \in Lines, ValidLine(line)
    PROVE  LineTotal(line) = line.price * line.quantity
PROOF
  <1> DEFINE p == line.price
             k == line.quantity
             r == (p * k) % Limit
  <1>1. Limit \in Nat \ {0} /\ p \in Nat /\ k \in Nat \ {0}
    BY LineKinds DEF ShopConstantsOK, ValidLine
  <1>2. r \div k = p
    BY DEF ValidLine, LineTotal, Wrap
  <1> HIDE DEF p, k
  <1>3. r \in Nat /\ r <= p * k
    <2> DEFINE m == p * k
    <2>1. m \in Nat
      BY <1>1
    <2> HIDE DEF m
    <2>2. m % Limit \in Nat /\ m % Limit <= m
      BY <1>1, <2>1
    <2> QED BY <2>2 DEF m
  <1>4. r >= p * k
    <2> HIDE DEF r
    <2> QED BY <1>1, <1>2, <1>3
  <1>5. r = p * k
    BY <1>1, <1>3, <1>4
  <1> QED BY <1>5 DEF LineTotal, Wrap, p, k

\* A sum that is not below what was added last has not wrapped around.
LEMMA SumIsExact ==
    ASSUME ShopConstantsOK, NEW a \in Amount, NEW b \in Amount, Wrap(a + b) >= b
    PROVE  Wrap(a + b) = a + b
PROOF
  <1>1. Limit \in Nat \ {0}
    BY DEF ShopConstantsOK
  <1> QED BY <1>1 DEF Wrap, Amount

\* What the loop over the lines computes.
LEMMA SubtotalsRun ==
    ASSUME ShopConstantsOK, NEW n \in Nat, NEW lines \in [1 .. n -> Lines]
    PROVE  LET upTo == Subtotals(lines)
           IN  /\ upTo \in [0 .. n -> Amount]
               /\ upTo = [i \in 0 .. n |-> IF i = 0 THEN 0 ELSE Wrap(upTo[i - 1] + LineTotal(lines[i]))]
PROOF
  <1> DEFINE step == [i \in 1 .. n |-> [v \in Amount |-> Wrap(v + LineTotal(lines[i]))]]
             Loop(f) == f = [i \in 0 .. n |-> IF i = 0 THEN 0 ELSE Wrap(f[i - 1] + LineTotal(lines[i]))]
  <1>1. Len(lines) = n
    OBVIOUS
  <1>2. 0 \in Amount /\ \A v \in Amount : v \in Nat
    BY DEF Amount, ShopConstantsOK
  <1>3. ASSUME NEW i \in 1 .. n PROVE LineTotal(lines[i]) \in Amount
    <2>1. lines[i].price \in Nat /\ lines[i].quantity \in Nat
      BY LineKinds
    <2>2. lines[i].price * lines[i].quantity \in Nat
      BY <2>1
    <2> QED BY <2>2, WrapIsAmount DEF LineTotal
  <1>4. \A i \in 1 .. n, v \in Amount : Wrap(v + LineTotal(lines[i])) \in Amount
    BY <1>2, <1>3, WrapIsAmount
  <1>5. step \in [1 .. n -> [Amount -> Amount]]
    BY <1>4
  <1>6. PICK f \in [0 .. n -> Amount] : IsRun(f, 0, n, step)
    <2> HIDE DEF step
    <2> QED BY <1>2, <1>5, RunExists
  <1>7. \A i \in 1 .. n : step[i][f[i - 1]] = Wrap(f[i - 1] + LineTotal(lines[i]))
    BY <1>6
  <1>8. Loop(f)
    <2> HIDE DEF step
    <2> QED BY <1>6, <1>7 DEF IsRun
  <1>9. Loop(Subtotals(lines))
    <2>1. Subtotals(lines) = CHOOSE u : Loop(u)
      BY <1>1 DEF Subtotals
    <2> HIDE DEF Loop
    <2> QED BY <1>8, <2>1
  <1> DEFINE u == Subtotals(lines)
  <1>10. u \in [0 .. n -> Amount]
    <2> HIDE DEF u
    <2> DEFINE S == {i \in Nat : i <= n => u[i] \in Amount}
    <2>0. Loop(u)
      BY <1>9 DEF u
    <2>1. 0 \in S
      BY <1>2, <2>0
    <2>2. ASSUME NEW i \in Nat, i \in S PROVE i + 1 \in S
      <3> SUFFICES ASSUME i + 1 <= n PROVE u[i + 1] \in Amount
        OBVIOUS
      <3>1. u[i] \in Amount /\ i + 1 \in 1 .. n
        BY <2>2
      <3>2. u[i + 1] = Wrap(u[i] + LineTotal(lines[i + 1]))
        BY <2>0
      <3> QED BY <1>4, <3>1, <3>2
    <2>3. Nat \subseteq S
      <3> HIDE DEF S
      <3> QED BY <2>1, <2>2, SetInduction
    <2>4. \A i \in 0 .. n : u[i] \in Amount
      BY <2>3
    <2> QED BY <2>0, <2>4
  <1> QED BY <1>9, <1>10

\* The sums that do not wrap around.
LEMMA ExactSumsRun ==
    ASSUME ShopConstantsOK, NEW n \in Nat, NEW lines \in [1 .. n -> Lines]
    PROVE  LET upTo == ExactSums(lines)
           IN  upTo = [i \in 0 .. n |-> IF i = 0 THEN 0 ELSE upTo[i - 1] + lines[i].price * lines[i].quantity]
PROOF
  <1> DEFINE cost(i) == lines[i].price * lines[i].quantity
             step == [i \in 1 .. n |-> [v \in Nat |-> v + cost(i)]]
             Loop(f) == f = [i \in 0 .. n |-> IF i = 0 THEN 0 ELSE f[i - 1] + lines[i].price * lines[i].quantity]
  <1>1. Len(lines) = n
    OBVIOUS
  <1>2. ASSUME NEW i \in 1 .. n PROVE cost(i) \in Nat
    <2>1. lines[i].price \in Nat /\ lines[i].quantity \in Nat
      BY LineKinds
    <2> QED BY <2>1
  <1>3. step \in [1 .. n -> [Nat -> Nat]]
    <2> HIDE DEF cost
    <2> QED BY <1>2
  <1>4. PICK f \in [0 .. n -> Nat] : IsRun(f, 0, n, step)
    <2> HIDE DEF step
    <2> QED BY <1>3, RunExists
  <1>5. \A i \in 1 .. n : step[i][f[i - 1]] = f[i - 1] + cost(i)
    <2> HIDE DEF cost
    <2> QED BY <1>4
  <1>6. Loop(f)
    <2> HIDE DEF step
    <2> QED BY <1>4, <1>5 DEF IsRun
  <1>7. ExactSums(lines) = CHOOSE u : Loop(u)
    BY <1>1 DEF ExactSums
  <1> HIDE DEF Loop
  <1>8. Loop(ExactSums(lines))
    BY <1>6, <1>7
  <1> QED BY <1>8 DEF Loop

\* The checks of a quote let the exact total pass and no other.
LEMMA ValidAmountsAreExact ==
    ASSUME ShopConstantsOK, NEW q, NEW n \in Nat, q.lines \in [1 .. n -> Lines], q.tax \in Amount,
           ValidAmounts(q)
    PROVE  q.total = Exact(q)
PROOF
  <1> DEFINE lines == q.lines
             u == Subtotals(lines)
             e == ExactSums(lines)
             S == {i \in Nat : i <= n => u[i] = e[i]}
  <1>1. Len(lines) = n /\ DOMAIN lines = 1 .. n
    OBVIOUS
  <1>2. /\ u \in [0 .. n -> Amount]
        /\ u = [i \in 0 .. n |-> IF i = 0 THEN 0 ELSE Wrap(u[i - 1] + LineTotal(lines[i]))]
    BY SubtotalsRun
  <1>3. e = [i \in 0 .. n |-> IF i = 0 THEN 0 ELSE e[i - 1] + lines[i].price * lines[i].quantity]
    BY ExactSumsRun
  <1>4. ASSUME NEW i \in 1 .. n
        PROVE  /\ LineTotal(lines[i]) = lines[i].price * lines[i].quantity
               /\ LineTotal(lines[i]) \in Amount
               /\ u[i] >= LineTotal(lines[i])
    <2>1. lines[i] \in Lines /\ ValidLine(lines[i])
      BY <1>1 DEF ValidAmounts
    <2>2. lines[i].price * lines[i].quantity \in Nat
      <3>1. lines[i].price \in Nat /\ lines[i].quantity \in Nat
        BY <2>1, LineKinds
      <3> QED BY <3>1
    <2>3. u[i] >= LineTotal(lines[i])
      BY <1>1 DEF ValidAmounts, TotalsReconcile
    <2> QED BY <2>1, <2>2, <2>3, ProductIsExact, WrapIsAmount DEF LineTotal
  <1> HIDE DEF u, e, lines
  <1>5. 0 \in S
    BY <1>2, <1>3
  <1>6. ASSUME NEW i \in Nat, i \in S PROVE i + 1 \in S
    <2> SUFFICES ASSUME i + 1 <= n PROVE u[i + 1] = e[i + 1]
      OBVIOUS
    <2>1. i + 1 \in 1 .. n /\ i \in 0 .. n /\ u[i] \in Amount /\ u[i] = e[i]
      BY <1>2, <1>6
    <2>2. u[i + 1] = Wrap(u[i] + LineTotal(lines[i + 1]))
      BY <1>2, <2>1
    <2>3. e[i + 1] = e[i] + lines[i + 1].price * lines[i + 1].quantity
      BY <1>3, <2>1
    <2>4. u[i + 1] = u[i] + LineTotal(lines[i + 1])
      BY <1>4, <2>1, <2>2, SumIsExact
    <2> QED BY <1>4, <2>1, <2>3, <2>4
  <1>7. u[n] = e[n] /\ u[n] \in Amount
    <2> HIDE DEF S
    <2>1. n \in S
      BY <1>5, <1>6, SetInduction
    <2> QED BY <1>2, <2>1 DEF S
  <1>8. q.subtotal = u[n] /\ q.total = Wrap(q.subtotal + q.tax) /\ q.total >= q.subtotal
    BY <1>1 DEF ValidAmounts, TotalsReconcile, u, lines
  <1>9. q.total = q.subtotal + q.tax
    <2>1. q.subtotal \in Amount /\ q.tax \in Amount /\ q.subtotal + q.tax = q.tax + q.subtotal
      BY <1>7, <1>8 DEF Amount
    <2> QED BY <1>8, <2>1, SumIsExact
  <1>10. Exact(q) = e[n] + q.tax
    BY <1>1 DEF Exact, e, lines
  <1> QED BY <1>7, <1>8, <1>9, <1>10 DEF Amount

-----------------------------------------------------------------------------
\* What is held and what was charged are quotes that were accepted once.
Quotes == [account : Accounts, expires : 0 .. MaxTime, amounts : Accepted]
Charge == [account : Accounts, quote : Quotes, at : Nat, holder : Accounts \cup {NoAccount}]
ShopTypeOK ==
    /\ now \in Nat
    /\ session \in Answers \cup {NoSession}
    /\ quote \in Quotes \cup {NoQuote}
    /\ charges \in Seq(Charge)

ShopInv == ShopTypeOK /\ ChargesAreExact

LEMMA AcceptedAreExact ==
    ASSUME ShopConstantsOK, NEW amounts \in Accepted PROVE amounts.total = Exact(amounts)
PROOF
  <1>1. PICK lines \in SeqOf(Lines, MaxLines), tax \in Prices \union {0} :
          amounts.lines = lines /\ amounts.tax = tax
    BY DEF Accepted, Amounts
  <1>2. PICK n \in Nat : lines \in [1 .. n -> Lines]
    BY DEF SeqOf, ShopConstantsOK
  <1>3. tax \in Amount
    BY DEF Amount, ShopConstantsOK
  <1>4. ValidAmounts(amounts)
    BY DEF Accepted
  <1> QED BY <1>1, <1>2, <1>3, <1>4, ValidAmountsAreExact

\* An order is charged for a quote that is checked once more.
LEMMA CompleteKeepsShopInv == ASSUME ShopConstantsOK, ShopInv, Complete PROVE ShopInv'
PROOF
  <1> DEFINE charge == [account |-> quote.account, quote |-> quote, at |-> now, holder |-> session.account]
  <1>1. quote \in Quotes /\ UNCHANGED <<now, session, quote>>
    BY DEF Complete, ShopInv, ShopTypeOK
  <1>2. CASE UNCHANGED charges
    BY <1>1, <1>2 DEF ShopInv, ShopTypeOK, ChargesAreExact
  <1>3. CASE ValidateQuote(quote, quote.account) /\ charges' = Append(charges, charge)
    <2>1. session.account \in Accounts \cup {NoAccount}
      BY DEF ShopInv, ShopTypeOK, Answers, NoSession
    <2>2. charge \in Charge
      BY <1>1, <2>1 DEF Charge, Quotes, ShopInv, ShopTypeOK
    <2>3. /\ charge.quote.amounts.total = Exact(charge.quote.amounts)
          /\ charge.quote.account = charge.account
          /\ charge.at < charge.quote.expires
      <3>1. quote.amounts.total = Exact(quote.amounts)
        BY <1>1, AcceptedAreExact DEF Quotes
      <3>2. quote.expires > now /\ quote.expires \in Nat /\ now \in Nat
        BY <1>1, <1>3 DEF ValidateQuote, Quotes, ShopInv, ShopTypeOK, ShopConstantsOK
      <3> QED BY <3>1, <3>2
    <2> HIDE DEF charge
    <2>4. charges \in Seq(Charge)
      BY DEF ShopInv, ShopTypeOK
    <2>5. charges' \in Seq(Charge)
      BY <1>3, <2>2, <2>4
    <2>6. ASSUME NEW i \in DOMAIN charges' 
          PROVE  charges'[i] = charge \/ (i \in DOMAIN charges /\ charges'[i] = charges[i])
      <3>1. i \in 1 .. Len(charges) + 1 /\ Len(charges) \in Nat
        BY <1>3, <2>2, <2>4
      <3>2. CASE i = Len(charges) + 1
        BY <1>3, <2>2, <2>4, <3>1, <3>2
      <3>3. CASE i # Len(charges) + 1
        BY <1>3, <2>2, <2>4, <3>1, <3>3
      <3> QED BY <3>2, <3>3
    <2>7. ASSUME NEW i \in DOMAIN charges'
          PROVE  /\ charges'[i].quote.amounts.total = Exact(charges'[i].quote.amounts)
                 /\ charges'[i].quote.account = charges'[i].account
                 /\ charges'[i].at < charges'[i].quote.expires
      BY <2>3, <2>6, <2>7 DEF ShopInv, ChargesAreExact
    <2>8. ChargesAreExact'
      BY <2>7 DEF ChargesAreExact, Exact, ExactSums
    <2> QED BY <1>1, <2>5, <2>8 DEF ShopInv, ShopTypeOK
  <1> QED BY <1>2, <1>3 DEF Complete

LEMMA NextKeepsShopInv == ShopConstantsOK /\ ShopInv /\ [Next]_vars => ShopInv'
PROOF
  <1> SUFFICES ASSUME ShopConstantsOK, ShopInv, [Next]_vars PROVE ShopInv' OBVIOUS
  <1>0. /\ session \in Answers \cup {NoSession} /\ quote \in Quotes \cup {NoQuote}
        /\ now \in Nat /\ charges \in Seq(Charge) /\ ChargesAreExact
    BY DEF ShopInv, ShopTypeOK
  <1>1. CASE SignIn \/ RefreshSession \/ SignOut
    <2>1. session' \in Answers \cup {NoSession} /\ UNCHANGED <<now, quote, charges>>
      BY <1>0, <1>1 DEF SignIn, RefreshSession, SignOut
    <2> QED BY <1>0, <2>1 DEF ShopInv, ShopTypeOK, ChargesAreExact
  <1>2. CASE CreateQuote
    <2>1. quote' \in Quotes \cup {NoQuote}
      <3>1. CASE quote' = NoQuote
        BY <3>1
      <3>2. ASSUME NEW buyer \in Accounts, NEW expires \in 0 .. MaxTime, NEW amounts \in Accepted,
                   quote' = [account |-> buyer, expires |-> expires, amounts |-> amounts]
            PROVE  quote' \in Quotes
        BY <3>2 DEF Quotes
      <3> QED BY <1>2, <3>1, <3>2 DEF CreateQuote
    <2>2. UNCHANGED <<now, session, charges>>
      BY <1>2 DEF CreateQuote
    <2> QED BY <1>0, <2>1, <2>2 DEF ShopInv, ShopTypeOK, ChargesAreExact
  <1>3. CASE Tick
    <2>1. now' \in Nat /\ UNCHANGED <<session, quote, charges>>
      BY <1>0, <1>3 DEF Tick
    <2> QED BY <1>0, <2>1 DEF ShopInv, ShopTypeOK, ChargesAreExact
  <1>4. CASE UNCHANGED vars
    BY <1>0, <1>4 DEF vars, ShopInv, ShopTypeOK, ChargesAreExact
  <1> QED BY <1>1, <1>2, <1>3, <1>4, CompleteKeepsShopInv DEF Next

-----------------------------------------------------------------------------
\* What is charged is the exact sum of the lines, of a quote made for that account that had not
\* expired, whatever the service answers and however many bits an amount has.
THEOREM ChargesStayExact == ASSUME ShopConstantsOK PROVE Spec => []ChargesAreExact
PROOF
  <1>1. Init => ShopInv
    BY DEF Init, ShopInv, ShopTypeOK, ChargesAreExact
  <1>2. ShopInv /\ [Next]_vars => ShopInv'
    BY NextKeepsShopInv
  <1>3. ShopInv => ChargesAreExact
    BY DEF ShopInv
  <1> QED BY <1>1, <1>2, <1>3, PTL DEF Spec

\* While somebody stays signed in it is the same account: a refresh that brings another one is
\* not taken.
THEOREM AccountsStick == Spec => AccountSticks
PROOF
  <1>1. [Next]_vars =>
            [{session, session'} \intersect {NoSession} = {} => session'.account = session.account]_vars
    BY DEF Next, vars, SignIn, RefreshSession, SameAccount, SignOut, CreateQuote, Complete, Tick
  <1> QED BY <1>1, PTL DEF Spec, AccountSticks

(***************************************************************************)
(* Sums over finite sets, as the library computes them: element by         *)
(* element, in the order of a choice.  The sum does not depend on that     *)
(* order, and one sum is within another when its members can be told apart *)
(* in the other and count at least as much there.                          *)
(***************************************************************************)
\* What has a member with no more members than any bound is proved from the smaller sets on.
LEMMA SizeInduction ==
    ASSUME NEW U, NEW P,
           \A T \in SUBSET U : IsFiniteSet(T) /\ (\A x \in T : T \ {x} \in P) => T \in P
    PROVE  \A T \in SUBSET U : IsFiniteSet(T) => T \in P
PROOF
  <1> DEFINE S == {n \in Nat : \A T \in SUBSET U :
                      IsFiniteSet(T) /\ Cardinality(T) = n => T \in P}
  <1>1. 0 \in S
    <2> SUFFICES ASSUME NEW T \in SUBSET U, IsFiniteSet(T), Cardinality(T) = 0 PROVE T \in P
      OBVIOUS
    <2>1. T = {}
      BY FS_EmptySet
    <2> QED BY <2>1
  <1>2. ASSUME NEW n \in Nat, n \in S PROVE n + 1 \in S
    <2> SUFFICES ASSUME NEW T \in SUBSET U, IsFiniteSet(T), Cardinality(T) = n + 1 PROVE T \in P
      OBVIOUS
    <2>1. ASSUME NEW x \in T PROVE T \ {x} \in P
      <3>1. IsFiniteSet(T \ {x}) /\ Cardinality(T \ {x}) = n
        BY FS_RemoveElement
      <3> QED BY <1>2, <3>1
    <2> QED BY <2>1
  <1>3. Nat \subseteq S
    <2> HIDE DEF S
    <2> QED BY <1>1, <1>2, SetInduction
  <1> SUFFICES ASSUME NEW T \in SUBSET U, IsFiniteSet(T) PROVE T \in P
    OBVIOUS
  <1>4. Cardinality(T) \in S
    BY <1>3, FS_CardinalityType
  <1> QED BY <1>4

LEMMA ImageIsFinite ==
    ASSUME NEW S, IsFiniteSet(S), NEW f PROVE IsFiniteSet({f[x] : x \in S})
PROOF
  <1> DEFINE T == {f[x] : x \in S}
             m == [x \in S |-> f[x]]
  <1>1. m \in Surjection(S, T)
    BY DEF Surjection
  <1> HIDE DEF T, m
  <1>2. IsFiniteSet(T)
    BY <1>1, FS_Surjection
  <1> QED BY <1>2 DEF T

\* The greatest number of a finite set.
LEMMA MaxIs ==
    ASSUME NEW T \in SUBSET Nat, IsFiniteSet(T), T # {}
    PROVE  Max(T) \in T /\ \A y \in T : y <= Max(T)
PROOF
  <1> DEFINE P == {Q \in SUBSET Nat : Q = {} \/ \E m \in Q : \A y \in Q : m >= y}
  <1>1. ASSUME NEW Q \in SUBSET Nat, IsFiniteSet(Q), \A x \in Q : Q \ {x} \in P PROVE Q \in P
    <2> SUFFICES ASSUME Q # {} PROVE \E m \in Q : \A y \in Q : m >= y
      OBVIOUS
    <2>1. PICK x \in Q : TRUE
      OBVIOUS
    <2>2. CASE Q \ {x} = {}
      BY <2>1, <2>2
    <2>3. CASE Q \ {x} # {}
      <3>1. PICK m \in Q \ {x} : \A y \in Q \ {x} : m >= y
        BY <1>1, <2>1, <2>3
      <3>2. m \in Nat /\ x \in Nat
        BY <2>1, <3>1
      <3>3. CASE m >= x
        BY <3>1, <3>3
      <3>4. CASE x >= m
        <4>1. \A y \in Q : x >= y
          BY <3>1, <3>2, <3>4
        <4> QED BY <2>1, <4>1
      <3> QED BY <3>2, <3>3, <3>4
    <2> QED BY <2>2, <2>3
  <1>2. T \in P
    <2> HIDE DEF P
    <2> QED BY <1>1, SizeInduction
  <1>3. \E m \in T : \A y \in T : m >= y
    BY <1>2
  <1> QED BY <1>3 DEF Max

\* The function that the library chooses for the sum over the subsets of a set.
AddsUp(F, f, S) ==
    F = [T \in SUBSET S |-> IF T = {} THEN 0
                            ELSE f[CHOOSE x \in T : TRUE] + F[T \ {CHOOSE x \in T : TRUE}]]

LEMMA AdderExists ==
    ASSUME NEW S, IsFiniteSet(S), NEW f, \A x \in S : f[x] \in Nat
    PROVE  \E F : AddsUp(F, f, S)
PROOF
  <1> DEFINE Step(G, T) == IF T = {} THEN 0
                           ELSE f[CHOOSE x \in T : TRUE] + G[T \ {CHOOSE x \in T : TRUE}]
             UpTo(G, n) == \A T \in SUBSET S : Cardinality(T) <= n => G[T] = Step(G, T)
             N == {n \in Nat : \E G : G = [T \in SUBSET S |-> G[T]] /\ UpTo(G, n)}
  <1>0. ASSUME NEW T \in SUBSET S
        PROVE  /\ IsFiniteSet(T) /\ Cardinality(T) \in Nat /\ (T = {} <=> Cardinality(T) = 0)
               /\ T # {} => /\ (CHOOSE x \in T : TRUE) \in T
                            /\ Cardinality(T \ {CHOOSE x \in T : TRUE}) = Cardinality(T) - 1
    <2>1. IsFiniteSet(T)
      BY FS_Subset
    <2>2. T # {} => (CHOOSE x \in T : TRUE) \in T
      OBVIOUS
    <2> QED BY <2>1, <2>2, FS_CardinalityType, FS_EmptySet, FS_RemoveElement
  <1>1. 0 \in N
    <2> DEFINE G == [T \in SUBSET S |-> 0]
    <2>1. G = [T \in SUBSET S |-> G[T]]
      OBVIOUS
    <2>2. UpTo(G, 0)
      <3> SUFFICES ASSUME NEW T \in SUBSET S, Cardinality(T) <= 0 PROVE G[T] = Step(G, T)
        OBVIOUS
      <3>1. T = {}
        <4>1. \A k \in Nat : k <= 0 => k = 0
          OBVIOUS
        <4> QED BY <1>0, <4>1
      <3> QED BY <3>1
    <2> QED BY <2>1, <2>2
  <1>2. ASSUME NEW n \in Nat, n \in N PROVE n + 1 \in N
    <2>1. PICK G : G = [T \in SUBSET S |-> G[T]] /\ UpTo(G, n)
      BY <1>2
    <2> DEFINE H == [T \in SUBSET S |-> Step(G, T)]
    <2>2. H = [T \in SUBSET S |-> H[T]]
      OBVIOUS
    <2>3. UpTo(H, n + 1)
      <3> SUFFICES ASSUME NEW T \in SUBSET S, Cardinality(T) <= n + 1 PROVE H[T] = Step(H, T)
        OBVIOUS
      <3>1. CASE T = {}
        BY <3>1
      <3>2. CASE T # {}
        <4> DEFINE c == CHOOSE x \in T : TRUE
        <4>1. T \ {c} \in SUBSET S /\ Cardinality(T \ {c}) <= n
          BY <1>0, <3>2
        <4>2. G[T \ {c}] = Step(G, T \ {c})
          <5> HIDE DEF Step, c
          <5> QED BY <2>1, <4>1
        <4>3. H[T \ {c}] = Step(G, T \ {c})
          <5> HIDE DEF Step, c
          <5> QED BY <4>1
        <4>4. H[T] = f[c] + G[T \ {c}]
          BY <3>2
        <4> QED BY <3>2, <4>2, <4>3, <4>4
      <3> QED BY <3>1, <3>2
    <2> HIDE DEF H, UpTo
    <2> QED BY <2>2, <2>3
  <1>3. Cardinality(S) \in N
    <2>1. Cardinality(S) \in Nat
      BY <1>0
    <2> HIDE DEF N
    <2> QED BY <1>1, <1>2, <2>1, SetInduction
  <1>4. PICK G : G = [T \in SUBSET S |-> G[T]] /\ UpTo(G, Cardinality(S))
    BY <1>3
  <1>5. \A T \in SUBSET S : G[T] = Step(G, T)
    <2> SUFFICES ASSUME NEW T \in SUBSET S PROVE G[T] = Step(G, T)
      OBVIOUS
    <2>1. Cardinality(T) <= Cardinality(S)
      BY FS_Subset
    <2> QED BY <1>4, <2>1
  <1>6. G = [T \in SUBSET S |-> Step(G, T)]
    <2> HIDE DEF Step
    <2> QED BY <1>4, <1>5
  <1> QED BY <1>6 DEF AddsUp

\* The sum takes one of its members away after the other.
LEMMA SumUnfolds ==
    ASSUME NEW S, IsFiniteSet(S), NEW f, \A x \in S : f[x] \in Nat
    PROVE  /\ SumFunctionOnSet(f, {}) = 0
           /\ SumFunctionOnSet(f, S) \in Nat
           /\ S # {} => \E x \in S : SumFunctionOnSet(f, S) = f[x] + SumFunctionOnSet(f, S \ {x})
PROOF
  <1> DEFINE F(T) == CHOOSE G : AddsUp(G, f, T)
  <1>1. \A T : SumFunctionOnSet(f, T) = F(T)[T]
    BY Zenon DEF SumFunctionOnSet, FoldFunctionOnSet, MapThenFoldSet, AddsUp
  <1>2. ASSUME NEW T \in SUBSET S
        PROVE  /\ IsFiniteSet(T) /\ AddsUp(F(T), f, T)
               /\ \A Q \in SUBSET T : F(T)[Q] = IF Q = {} THEN 0
                       ELSE f[CHOOSE x \in Q : TRUE] + F(T)[Q \ {CHOOSE x \in Q : TRUE}]
    <2>1. IsFiniteSet(T) /\ \A x \in T : f[x] \in Nat
      BY FS_Subset
    <2>2. AddsUp(F(T), f, T)
      BY <2>1, AdderExists
    <2> HIDE DEF F
    <2> QED BY <2>1, <2>2 DEF AddsUp
  <1> HIDE DEF F
  <1>3. ASSUME NEW Q \in SUBSET S, Q # {}
        PROVE  (CHOOSE x \in Q : TRUE) \in Q
    BY <1>3
  \* The same subset has the same sum in every set, and the sums are numbers.
  <1>4. ASSUME NEW T \in SUBSET S, NEW Q \in SUBSET T
        PROVE  F(T)[Q] = F(Q)[Q] /\ F(T)[Q] \in Nat
    <2> DEFINE P == {R \in SUBSET S : \A V, W \in SUBSET S :
                       R \subseteq V /\ R \subseteq W => F(V)[R] = F(W)[R] /\ F(V)[R] \in Nat}
    <2>1. ASSUME NEW R \in SUBSET S, IsFiniteSet(R), \A x \in R : R \ {x} \in P PROVE R \in P
      <3> SUFFICES ASSUME NEW V \in SUBSET S, NEW W \in SUBSET S, R \subseteq V, R \subseteq W
                   PROVE  F(V)[R] = F(W)[R] /\ F(V)[R] \in Nat
        OBVIOUS
      <3>1. CASE R = {}
        <4>1. /\ F(V)[R] = IF R = {} THEN 0
                           ELSE f[CHOOSE x \in R : TRUE] + F(V)[R \ {CHOOSE x \in R : TRUE}]
              /\ F(W)[R] = IF R = {} THEN 0
                           ELSE f[CHOOSE x \in R : TRUE] + F(W)[R \ {CHOOSE x \in R : TRUE}]
          BY <1>2
        <4> QED BY <3>1, <4>1
      <3>2. CASE R # {}
        <4> DEFINE c == CHOOSE x \in R : TRUE
        <4>1. c \in R /\ f[c] \in Nat
          BY <1>3, <3>2
        <4>2. /\ F(V)[R] = f[c] + F(V)[R \ {c}]
              /\ F(W)[R] = f[c] + F(W)[R \ {c}]
          BY <1>2, <3>2
        <4> HIDE DEF c
        <4>3. F(V)[R \ {c}] = F(W)[R \ {c}] /\ F(V)[R \ {c}] \in Nat
          BY <2>1, <4>1
        <4> QED BY <4>1, <4>2, <4>3
      <3> QED BY <3>1, <3>2
    <2>2. Q \in P
      <3> HIDE DEF P
      <3>1. IsFiniteSet(Q) /\ Q \in SUBSET S
        BY <1>2
      <3> QED BY <2>1, <3>1, SizeInduction
    <2> QED BY <2>2
  <1>5. SumFunctionOnSet(f, {}) = 0
    BY <1>1, <1>2
  <1>6. SumFunctionOnSet(f, S) \in Nat
    BY <1>1, <1>4
  <1>7. ASSUME S # {}
        PROVE  \E x \in S : SumFunctionOnSet(f, S) = f[x] + SumFunctionOnSet(f, S \ {x})
    <2> DEFINE c == CHOOSE x \in S : TRUE
    <2>1. c \in S
      BY <1>3, <1>7
    <2>2. F(S)[S] = f[c] + F(S)[S \ {c}]
      BY <1>2, <1>7
    <2> HIDE DEF c
    <2>3. F(S)[S \ {c}] = F(S \ {c})[S \ {c}]
      BY <1>4
    <2> QED BY <1>1, <2>1, <2>2, <2>3
  <1> QED BY <1>5, <1>6, <1>7

\* Whichever member it takes.
LEMMA SumTakes ==
    ASSUME NEW S, IsFiniteSet(S), NEW f, \A x \in S : f[x] \in Nat, NEW y \in S
    PROVE  SumFunctionOnSet(f, S) = f[y] + SumFunctionOnSet(f, S \ {y})
PROOF
  <1> DEFINE Sum(T) == SumFunctionOnSet(f, T)
             P == {T \in SUBSET S : \A x \in T : Sum(T) = f[x] + Sum(T \ {x})}
  <1>1. ASSUME NEW T \in SUBSET S
        PROVE  /\ IsFiniteSet(T) /\ Sum(T) \in Nat
               /\ T # {} => \E x \in T : Sum(T) = f[x] + Sum(T \ {x})
    <2>1. IsFiniteSet(T) /\ \A x \in T : f[x] \in Nat
      BY FS_Subset
    <2> QED BY <2>1, SumUnfolds
  <1> HIDE DEF Sum
  <1>2. ASSUME NEW T \in SUBSET S, \A x \in T : T \ {x} \in P PROVE T \in P
    <2> SUFFICES ASSUME NEW x \in T PROVE Sum(T) = f[x] + Sum(T \ {x})
      OBVIOUS
    <2>1. PICK c \in T : Sum(T) = f[c] + Sum(T \ {c})
      BY <1>1
    <2>2. CASE c = x
      BY <2>1, <2>2
    <2>3. CASE c # x
      <3> DEFINE R == T \ {c, x}
      <3>1. Sum(T \ {c}) = f[x] + Sum(R)
        <4>1. x \in T \ {c} /\ (T \ {c}) \ {x} = R
          BY <2>3
        <4> QED BY <1>2, <4>1
      <3>2. Sum(T \ {x}) = f[c] + Sum(R)
        <4>1. c \in T \ {x} /\ (T \ {x}) \ {c} = R
          BY <2>3
        <4> QED BY <1>2, <4>1
      <3>3. f[c] \in Nat /\ f[x] \in Nat /\ Sum(R) \in Nat
        BY <1>1
      <3> HIDE DEF R
      <3> QED BY <2>1, <3>1, <3>2, <3>3
    <2> QED BY <2>2, <2>3
  <1>3. S \in P
    <2> HIDE DEF P
    <2> QED BY <1>1, <1>2, SizeInduction
  <1> QED BY <1>3 DEF Sum

\* A sum is within another that has at least as much for each of its members.
LEMMA SumWithin ==
    ASSUME NEW S, IsFiniteSet(S), NEW f, \A x \in S : f[x] \in Nat,
           NEW R, IsFiniteSet(R), NEW g, \A y \in R : g[y] \in Nat,
           NEW h, \A x \in S : h[x] \in R /\ f[x] <= g[h[x]],
           \A x, y \in S : h[x] = h[y] => x = y
    PROVE  SumFunctionOnSet(f, S) <= SumFunctionOnSet(g, R)
PROOF
  <1> DEFINE Image(T) == {h[x] : x \in T}
             F(T) == SumFunctionOnSet(f, T)
             G(Q) == SumFunctionOnSet(g, Q)
             P == {T \in SUBSET S : \A Q \in SUBSET R : Image(T) \subseteq Q => F(T) <= G(Q)}
  <1>1. ASSUME NEW T \in SUBSET S
        PROVE  /\ F({}) = 0 /\ F(T) \in Nat
               /\ \A x \in T : f[x] \in Nat /\ F(T) = f[x] + F(T \ {x})
    <2>1. IsFiniteSet(T) /\ \A x \in T : f[x] \in Nat
      BY FS_Subset
    <2>2. SumFunctionOnSet(f, {}) = 0 /\ SumFunctionOnSet(f, T) \in Nat
      BY <2>1, SumUnfolds
    <2>3. \A x \in T : SumFunctionOnSet(f, T) = f[x] + SumFunctionOnSet(f, T \ {x})
      BY <2>1, SumTakes
    <2> QED BY <2>1, <2>2, <2>3
  <1>2. ASSUME NEW Q \in SUBSET R
        PROVE  G(Q) \in Nat /\ \A y \in Q : g[y] \in Nat /\ G(Q) = g[y] + G(Q \ {y})
    <2>1. IsFiniteSet(Q) /\ \A y \in Q : g[y] \in Nat
      BY FS_Subset
    <2>2. SumFunctionOnSet(g, Q) \in Nat
      BY <2>1, SumUnfolds
    <2>3. \A y \in Q : SumFunctionOnSet(g, Q) = g[y] + SumFunctionOnSet(g, Q \ {y})
      BY <2>1, SumTakes
    <2> QED BY <2>1, <2>2, <2>3
  <1> HIDE DEF F, G
  <1>3. ASSUME NEW T \in SUBSET S, \A x \in T : T \ {x} \in P PROVE T \in P
    <2> SUFFICES ASSUME NEW Q \in SUBSET R, Image(T) \subseteq Q PROVE F(T) <= G(Q)
      OBVIOUS
    <2>1. CASE T = {}
      BY <1>1, <1>2, <2>1
    <2>2. CASE T # {}
      <3>1. PICK x \in T : TRUE
        BY <2>2
      <3>2. h[x] \in Q
        OBVIOUS
      <3>3. Image(T \ {x}) \subseteq Q \ {h[x]}
        OBVIOUS
      <3>4. F(T \ {x}) <= G(Q \ {h[x]})
        BY <1>3, <3>3
      <3>5. F(T \ {x}) \in Nat /\ G(Q \ {h[x]}) \in Nat
        BY <1>1, <1>2
      <3>6. F(T) = f[x] + F(T \ {x}) /\ f[x] \in Nat
        BY <1>1
      <3>7. G(Q) = g[h[x]] + G(Q \ {h[x]}) /\ g[h[x]] \in Nat
        BY <1>2, <3>2
      <3>8. f[x] <= g[h[x]]
        OBVIOUS
      <3> QED BY <3>4, <3>5, <3>6, <3>7, <3>8
    <2> QED BY <2>1, <2>2
  <1>4. S \in P
    <2> HIDE DEF P
    <2> QED BY <1>3, SizeInduction
  <1>5. Image(S) \subseteq R
    OBVIOUS
  <1> QED BY <1>4, <1>5 DEF F, G

(***************************************************************************)
(* Proofs about AccountRecords, for any accounts, achievements, scores and *)
(* number of records.  What the console holds was sent, each piece by some *)
(* record; the score then is within what was earned because an unlock is   *)
(* known by its account and achievement alone.                             *)
(***************************************************************************)
SentRecords ==
    [kind : {"definition"}, achievement : Achievements, score : Scores]
        \union [kind : {"unlock"}, achievement : Achievements, account : Owners, time : Times]
        \union [kind : {"device"}, device : OwnedDevices, account : Owners, state : DeviceStates,
                trusted : BOOLEAN]

DefinitionsWereSent ==
    /\ definitions \in [Achievements -> Scores \union {NoScore}]
    /\ \A a \in Achievements : definitions[a] # NoScore =>
          \E r \in Definitions : r.achievement = a /\ r.score = definitions[a]
UnlocksWereSent ==
    \A u \in unlocks : HasDefinition(u) /\ \E r \in Awards : u = UnlockKey(r)
DevicesWereSent ==
    /\ DOMAIN devices = OwnedDevices
    /\ \A d \in OwnedDevices : devices[d].trusted =>
          \E r \in sent : /\ r.kind = "device" /\ r.device = d /\ r.account = devices[d].account
                         /\ r.state = devices[d].state /\ r.trusted
RecordsInv ==
    /\ sent \subseteq SentRecords /\ IsFiniteSet(sent)
    /\ DefinitionsWereSent /\ UnlocksWereSent /\ DevicesWereSent

LEMMA InitRecordsInv == RecordsInit => RecordsInv
PROOF
  <1> SUFFICES ASSUME RecordsInit PROVE RecordsInv
    OBVIOUS
  <1>1. IsFiniteSet(sent) /\ sent \subseteq SentRecords
    BY FS_EmptySet DEF RecordsInit
  <1> QED BY <1>1 DEF RecordsInit, RecordsInv, DefinitionsWereSent, UnlocksWereSent, DevicesWereSent,
                      NoScore, NoDevice

\* The service only adds to what it has sent.
LEMMA SendKeepsRecordsInv ==
    ASSUME RecordsInv, NEW r \in SentRecords, Send(r), UNCHANGED <<definitions, unlocks, devices>>
    PROVE  RecordsInv'
PROOF
  <1>1. sent' = sent \union {r}
    BY DEF Send
  <1>2. IsFiniteSet(sent') /\ sent' \subseteq SentRecords
    BY <1>1, FS_AddElement DEF RecordsInv
  <1>3. Definitions \subseteq Definitions' /\ Awards \subseteq Awards' /\ sent \subseteq sent'
    BY <1>1 DEF Definitions, Awards
  <1>4. DefinitionsWereSent'
    BY <1>3 DEF RecordsInv, DefinitionsWereSent
  <1>5. UnlocksWereSent'
    BY <1>3 DEF RecordsInv, UnlocksWereSent, HasDefinition
  <1>6. DevicesWereSent'
    BY <1>3 DEF RecordsInv, DevicesWereSent
  <1> QED BY <1>2, <1>4, <1>5, <1>6 DEF RecordsInv

LEMMA NextKeepsRecordsInv ==
    RecordsConstantsOK /\ RecordsInv /\ [RecordsNext]_recordVars => RecordsInv'
PROOF
  <1> SUFFICES ASSUME RecordsConstantsOK, RecordsInv, [RecordsNext]_recordVars PROVE RecordsInv'
    OBVIOUS
  <1>1. CASE Define
    <2>1. PICK a \in Achievements, s \in Scores :
            Send([kind |-> "definition", achievement |-> a, score |-> s])
      BY <1>1 DEF Define
    <2>2. [kind |-> "definition", achievement |-> a, score |-> s] \in SentRecords
      BY DEF SentRecords
    <2> QED BY <1>1, <2>1, <2>2, SendKeepsRecordsInv DEF Define
  <1>2. CASE Award
    <2>1. PICK a \in Achievements, owner \in Owners, time \in Times :
            Send([kind |-> "unlock", achievement |-> a, account |-> owner, time |-> time])
      BY <1>2 DEF Award
    <2>2. [kind |-> "unlock", achievement |-> a, account |-> owner, time |-> time] \in SentRecords
      BY DEF SentRecords
    <2> QED BY <1>2, <2>1, <2>2, SendKeepsRecordsInv DEF Award
  <1>3. CASE SendDevice
    <2>1. PICK d \in OwnedDevices, owner \in Owners, state \in DeviceStates, trust \in BOOLEAN :
            Send([kind |-> "device", device |-> d, account |-> owner, state |-> state,
                  trusted |-> trust])
      BY <1>3 DEF SendDevice
    <2>2. [kind |-> "device", device |-> d, account |-> owner, state |-> state,
           trusted |-> trust] \in SentRecords
      BY DEF SentRecords
    <2> QED BY <1>3, <2>1, <2>2, SendKeepsRecordsInv DEF SendDevice
  <1>4. CASE ApplyDefinition
    <2>1. PICK r \in Definitions : definitions' = [definitions EXCEPT ![r.achievement] = r.score]
      BY <1>4 DEF ApplyDefinition
    <2>2. UNCHANGED <<sent, unlocks, devices>> /\ Definitions' = Definitions /\ Awards' = Awards
      BY <1>4 DEF ApplyDefinition, Definitions, Awards
    <2>3. r.achievement \in Achievements /\ r.score \in Scores /\ r.score # NoScore
      BY DEF RecordsInv, SentRecords, Definitions, RecordsConstantsOK, NoScore
    <2>4. DefinitionsWereSent'
      BY <2>1, <2>2, <2>3 DEF RecordsInv, DefinitionsWereSent
    <2>5. UnlocksWereSent'
      BY <2>1, <2>2, <2>3 DEF RecordsInv, UnlocksWereSent, HasDefinition, DefinitionsWereSent
    <2> QED BY <2>2, <2>4, <2>5 DEF RecordsInv, DevicesWereSent
  <1>5. CASE ApplyUnlock
    <2>1. PICK r \in Awards : HasDefinition(r) /\ unlocks' = unlocks \union {UnlockKey(r)}
      BY <1>5 DEF ApplyUnlock
    <2>2. /\ UNCHANGED <<sent, definitions, devices>>
          /\ Definitions' = Definitions /\ Awards' = Awards
      BY <1>5 DEF ApplyUnlock, Definitions, Awards
    <2>3. UnlocksWereSent'
      BY <2>1, <2>2 DEF RecordsInv, UnlocksWereSent, HasDefinition, UnlockKey
    <2> QED BY <2>2, <2>3 DEF RecordsInv, DefinitionsWereSent, DevicesWereSent
  <1>6. CASE ApplyDevice
    <2>1. PICK r \in sent :
            /\ r.kind = "device"
            /\ devices' = [devices EXCEPT ![r.device] =
                  [account |-> r.account, state |-> r.state,
                   trusted |-> r.trusted /\ r.state # "Revoked"]]
      BY <1>6 DEF ApplyDevice
    <2>2. /\ UNCHANGED <<sent, definitions, unlocks>>
          /\ Definitions' = Definitions /\ Awards' = Awards
      BY <1>6 DEF ApplyDevice, Definitions, Awards
    <2>3. DevicesWereSent'
      BY <2>1, <2>2 DEF RecordsInv, DevicesWereSent
    <2> QED BY <2>2, <2>3 DEF RecordsInv, DefinitionsWereSent, UnlocksWereSent, HasDefinition
  <1>7. CASE AddCapture \/ SetSyncState \/ UNCHANGED recordVars
    <2>1. UNCHANGED <<sent, definitions, unlocks, devices>>
      BY <1>7 DEF AddCapture, SetSyncState, recordVars
    <2>2. Definitions' = Definitions /\ Awards' = Awards
      BY <2>1 DEF Definitions, Awards
    <2> QED BY <2>1, <2>2 DEF RecordsInv, DefinitionsWereSent, UnlocksWereSent, DevicesWereSent,
                              HasDefinition
  <1> QED BY <1>1, <1>2, <1>3, <1>4, <1>5, <1>6, <1>7 DEF RecordsNext

\* The best score of an achievement is at least every score that was sent for it.
LEMMA BestIs ==
    ASSUME RecordsConstantsOK, RecordsInv, NEW a
    PROVE  /\ Best(a) \in Nat
           /\ \A r \in Definitions : r.achievement = a => r.score <= Best(a)
PROOF
  <1> DEFINE ofA == {x \in Definitions : x.achievement = a}
             scores == {d.score : d \in ofA} \union {0}
  <1>1. IsFiniteSet(ofA)
    BY FS_Subset DEF RecordsInv, Definitions
  <1>2. IsFiniteSet({d.score : d \in ofA})
    <2> DEFINE k == [d \in ofA |-> d.score]
    <2>1. {d.score : d \in ofA} = {k[d] : d \in ofA}
      OBVIOUS
    <2> HIDE DEF ofA, k
    <2> QED BY <1>1, <2>1, ImageIsFinite
  <1>3. IsFiniteSet(scores)
    <2> HIDE DEF ofA
    <2> QED BY <1>2, FS_AddElement
  <1>4. scores \in SUBSET Nat
    <2>1. \A d \in Definitions : d.score \in Scores
      BY DEF RecordsInv, SentRecords, Definitions
    <2>2. \A d \in ofA : d.score \in Nat
      BY <2>1 DEF RecordsConstantsOK
    <2> HIDE DEF ofA
    <2> QED BY <2>2
  <1>5. Best(a) = Max(scores)
    BY DEF Best
  <1>6. \A r \in Definitions : r.achievement = a => r.score \in scores
    OBVIOUS
  <1>7. scores # {}
    OBVIOUS
  <1> HIDE DEF scores
  <1> QED BY <1>3, <1>4, <1>5, <1>6, <1>7, MaxIs

LEMMA ScoresAreWithin ==
    ASSUME RecordsConstantsOK, RecordsInv, NEW owner PROVE ScoreFor(owner) <= Earned(owner)
PROOF
  <1> DEFINE S == {u \in unlocks : u.account = owner /\ HasDefinition(u)}
             f == [u \in unlocks |-> definitions[u.achievement]]
             awards == {x \in Awards : x.account = owner}
             R == {r.achievement : r \in awards}
             g == [a \in Achievements |-> Best(a)]
             h == [u \in S |-> u.achievement]
  <1>1. IsFiniteSet(Awards) /\ IsFiniteSet(awards)
    BY FS_Subset DEF RecordsInv, Awards
  <1>2. IsFiniteSet(R)
    <2> DEFINE k == [r \in awards |-> r.achievement]
    <2>1. R = {k[r] : r \in awards}
      OBVIOUS
    <2> HIDE DEF awards, k, R
    <2> QED BY <1>1, <2>1, ImageIsFinite
  <1>3. IsFiniteSet(S)
    <2> DEFINE keys == {UnlockKey(r) : r \in Awards}
               k == [r \in Awards |-> UnlockKey(r)]
    <2>0. keys = {k[r] : r \in Awards}
      OBVIOUS
    <2>1. IsFiniteSet(keys)
      <3> HIDE DEF k, keys
      <3> QED BY <1>1, <2>0, ImageIsFinite
    <2>2. S \subseteq keys
      BY DEF RecordsInv, UnlocksWereSent
    <2> HIDE DEF keys, S
    <2> QED BY <2>1, <2>2, FS_Subset
  <1>4. \A r \in Awards : r.achievement \in Achievements
    BY DEF RecordsInv, SentRecords, Awards
  <1>5. \A a \in R : g[a] \in Nat
    BY <1>4, BestIs
  <1>6. ASSUME NEW u \in S
        PROVE  f[u] \in Nat /\ h[u] \in R /\ f[u] <= g[h[u]]
    <2>1. PICK r \in Awards : u = UnlockKey(r)
      BY DEF RecordsInv, UnlocksWereSent
    <2>2. u.achievement = r.achievement /\ u.account = r.account
      BY <2>1 DEF UnlockKey
    <2>3. h[u] \in R /\ u.achievement \in Achievements
      BY <1>4, <2>2
    <2>4. PICK d \in Definitions : d.achievement = u.achievement /\ d.score = definitions[u.achievement]
      BY <2>3 DEF RecordsInv, DefinitionsWereSent, HasDefinition
    <2>5. d.score \in Nat
      BY DEF RecordsInv, SentRecords, Definitions, RecordsConstantsOK
    <2>6. d.score <= Best(u.achievement)
      BY <2>4, BestIs
    <2>7. f[u] = d.score /\ g[h[u]] = Best(u.achievement)
      BY <2>3, <2>4
    <2> QED BY <2>3, <2>5, <2>6, <2>7
  <1>7. \A u, v \in S : h[u] = h[v] => u = v
    BY DEF RecordsInv, UnlocksWereSent, UnlockKey
  <1>8. ScoreFor(owner) = SumFunctionOnSet(f, S) /\ Earned(owner) = SumFunctionOnSet(g, R)
    BY DEF ScoreFor, Earned
  <1> HIDE DEF S, f, R, g, h
  <1> QED BY <1>2, <1>3, <1>5, <1>6, <1>7, <1>8, SumWithin

\* An account does not score more than it earned, and what can be installed from afar goes to a
\* device that was called online and trusted, whatever records come when and how often.
THEOREM RecordsStayTrue == ASSUME RecordsConstantsOK PROVE RecordsSpec => []RecordsAreTrue
PROOF
  <1>1. RecordsInit => RecordsInv
    BY InitRecordsInv
  <1>2. RecordsInv /\ [RecordsNext]_recordVars => RecordsInv'
    BY NextKeepsRecordsInv
  <1>3. RecordsInv => RecordsAreTrue
    <2> SUFFICES ASSUME RecordsInv PROVE RecordsAreTrue
      OBVIOUS
    <2>1. ScoreIsEarned
      BY ScoresAreWithin DEF ScoreIsEarned, RecordsInv, UnlocksWereSent, HasDefinition
    <2>2. InstallsAreGranted
      BY DEF RecordsInv, DevicesWereSent, InstallsAreGranted, CanRemoteInstall
    <2> QED BY <2>1, <2>2 DEF RecordsAreTrue
  <1> QED BY <1>1, <1>2, <1>3, PTL DEF RecordsSpec

(***************************************************************************)
(* Proofs about Wire, for any writers, limits and messages: first that     *)
(* Decode takes what Encode makes and makes the same of it, field by field *)
(* from the last one, then that the reader is never out of step.           *)
(***************************************************************************)
\* The parts of s on their own, one after the other: g from the first on, r from the last.
Grows(g, s, n) ==
    /\ g \in [0 .. n -> Seq(Nat)] /\ g[0] = <<>>
    /\ \A k \in 1 .. n : g[k] = g[k - 1] \o s[k]
Follows(r, s, n) ==
    /\ r \in [0 .. n -> Seq(Nat)] /\ r[n] = <<>>
    /\ \A k \in 1 .. n : r[k - 1] = s[k] \o r[k]

\* What is flattened is put together part by part.
LEMMA FlattenGrows ==
    ASSUME NEW n \in Nat, NEW s \in [1 .. n -> Seq(Nat)]
    PROVE  \E g : Grows(g, s, n) /\ FlattenSeq(s) = g[n]
PROOF
  <1> DEFINE step == [i \in 1 .. n |-> [v \in Seq(Nat) |-> v \o s[i]]]
             Loop(u) == u = [i \in 1 .. Len(s) |-> IF i = 1 THEN s[i] ELSE u[i - 1] \o s[i]]
  <1>1. Len(s) = n
    OBVIOUS
  <1>2. <<>> \in Seq(Nat)
    OBVIOUS
  <1>3. step \in [1 .. n -> [Seq(Nat) -> Seq(Nat)]]
    <2>1. ASSUME NEW i \in 1 .. n, NEW v \in Seq(Nat) PROVE v \o s[i] \in Seq(Nat)
      BY s[i] \in Seq(Nat)
    <2> QED BY <2>1
  <1>4. PICK g \in [0 .. n -> Seq(Nat)] : IsRun(g, <<>>, n, step)
    <2> HIDE DEF step
    <2> QED BY <1>2, <1>3, RunExists
  <1>5. ASSUME NEW i \in 1 .. n PROVE g[i] = g[i - 1] \o s[i]
    <2>1. i \in 0 .. n /\ i # 0 /\ i - 1 \in 0 .. n
      OBVIOUS
    <2>2. g[i] = step[i][g[i - 1]]
      <3> HIDE DEF step
      <3> QED BY <1>4, <2>1 DEF IsRun
    <2>3. g[i - 1] \in Seq(Nat)
      BY <2>1
    <2> QED BY <2>2, <2>3
  <1>6. Grows(g, s, n)
    <2>1. g[0] = <<>>
      <3> HIDE DEF step
      <3> QED BY <1>4 DEF IsRun
    <2> QED BY <1>5, <2>1 DEF Grows
  <1> HIDE DEF step
  <1>7. CASE n = 0
    <2>1. s = <<>>
      BY <1>7
    <2> QED BY <1>1, <1>6, <1>7, <2>1 DEF FlattenSeq, Grows
  <1>8. CASE n # 0
    <2>1. Loop([i \in 1 .. n |-> g[i]])
      <3>1. ASSUME NEW i \in 1 .. n
            PROVE  g[i] = IF i = 1 THEN s[i] ELSE [j \in 1 .. n |-> g[j]][i - 1] \o s[i]
        <4>1. s[i] \in Seq(Nat)
          OBVIOUS
        <4>2. <<>> \o s[i] = s[i]
          BY <4>1, ConcatEmptySeq
        <4>3. CASE i = 1
          <5>1. i - 1 = 0
            BY <4>3
          <5>2. g[i] = g[0] \o s[i]
            BY <1>5, <5>1
          <5> QED BY <1>6, <4>2, <4>3, <5>2 DEF Grows
        <4>4. CASE i # 1
          <5>1. i - 1 \in 1 .. n
            BY <4>4
          <5>2. [j \in 1 .. n |-> g[j]][i - 1] = g[i - 1]
            BY <5>1
          <5> QED BY <1>5, <4>4, <5>2
        <4> QED BY <4>3, <4>4
      <3>2. [i \in 1 .. n |-> g[i]] =
                [i \in 1 .. n |-> IF i = 1 THEN s[i] ELSE [j \in 1 .. n |-> g[j]][i - 1] \o s[i]]
        BY <3>1
      <3> QED BY <1>1, <3>2
    <2> DEFINE u == CHOOSE u : Loop(u)
    <2>2. Loop(u)
      <3> HIDE DEF Loop
      <3> QED BY <2>1
    <2>3. FlattenSeq(s) = u[n]
      BY <1>1, <1>8 DEF FlattenSeq
    <2>4. ASSUME NEW i \in 1 .. n PROVE u[i] = IF i = 1 THEN s[i] ELSE u[i - 1] \o s[i]
      <3> HIDE DEF u
      <3> QED BY <1>1, <2>2
    <2> HIDE DEF u, Loop
    <2> DEFINE S == {k \in Nat : k + 1 <= n => u[k + 1] = g[k + 1]}
    <2>5. u[1] = g[1]
      <3>1. u[1] = s[1] /\ g[1] = <<>> \o s[1] /\ s[1] \in Seq(Nat)
        <4>1. 1 \in 1 .. n
          BY <1>8
        <4>2. 1 - 1 = 0
          OBVIOUS
        <4>3. g[1] = g[0] \o s[1]
          BY <1>5, <4>2, <4>1
        <4> QED BY <1>6, <2>4, <4>1, <4>3 DEF Grows
      <3> QED BY <3>1, ConcatEmptySeq
    <2>6. 0 \in S
      BY <2>5
    <2>7. ASSUME NEW k \in Nat, k \in S PROVE k + 1 \in S
      <3> SUFFICES ASSUME k + 1 + 1 <= n PROVE u[k + 1 + 1] = g[k + 1 + 1]
        OBVIOUS
      <3> DEFINE i == k + 2
      <3>1. i \in 1 .. n /\ i # 1 /\ i - 1 = k + 1 /\ k + 1 + 1 = i
        OBVIOUS
      <3> HIDE DEF i
      <3>2. u[i] = u[i - 1] \o s[i] /\ g[i] = g[i - 1] \o s[i]
        BY <1>5, <2>4, <3>1
      <3>3. u[i - 1] = g[i - 1]
        BY <2>7, <3>1
      <3> QED BY <3>1, <3>2, <3>3
    <2>8. n - 1 \in S
      <3>1. n - 1 \in Nat
        BY <1>8
      <3> HIDE DEF S
      <3> QED BY <2>6, <2>7, <3>1, SetInduction
    <2>9. u[n] = g[n]
      BY <1>8, <2>8
    <2> QED BY <1>6, <2>3, <2>9
  <1> QED BY <1>7, <1>8

\* From any part on, what is left is the parts from there.
LEMMA FollowsExists ==
    ASSUME NEW n \in Nat, NEW s \in [1 .. n -> Seq(Nat)]
    PROVE  \E r : Follows(r, s, n)
PROOF
  <1> DEFINE step == [i \in 1 .. n |-> [v \in Seq(Nat) |-> s[n + 1 - i] \o v]]
  <1>1. step \in [1 .. n -> [Seq(Nat) -> Seq(Nat)]]
    <2>1. ASSUME NEW i \in 1 .. n, NEW v \in Seq(Nat) PROVE s[n + 1 - i] \o v \in Seq(Nat)
      <3>1. n + 1 - i \in 1 .. n
        OBVIOUS
      <3> QED BY <3>1, s[n + 1 - i] \in Seq(Nat)
    <2> QED BY <2>1
  <1>2. <<>> \in Seq(Nat)
    OBVIOUS
  <1>3. PICK f \in [0 .. n -> Seq(Nat)] : IsRun(f, <<>>, n, step)
    <2> HIDE DEF step
    <2> QED BY <1>1, <1>2, RunExists
  <1> DEFINE r == [k \in 0 .. n |-> f[n - k]]
  <1>4. r \in [0 .. n -> Seq(Nat)]
    BY \A k \in 0 .. n : n - k \in 0 .. n
  <1>5. r[n] = <<>>
    <2>1. f[0] = <<>>
      <3> HIDE DEF step
      <3> QED BY <1>3 DEF IsRun
    <2> QED BY <2>1
  <1>6. ASSUME NEW k \in 1 .. n PROVE r[k - 1] = s[k] \o r[k]
    <2> DEFINE i == n - (k - 1)
    <2>1. i \in 1 .. n /\ i \in 0 .. n /\ i - 1 \in 0 .. n /\ i - 1 = n - k /\ n + 1 - i = k /\ i # 0
      OBVIOUS
    <2>2. r[k - 1] = f[i] /\ r[k] = f[i - 1]
      <3>1. k - 1 \in 0 .. n /\ k \in 0 .. n
        OBVIOUS
      <3> QED BY <2>1, <3>1
    <2> HIDE DEF i
    <2>3. f[i] = step[i][f[i - 1]]
      <3> HIDE DEF step
      <3> QED BY <1>3, <2>1 DEF IsRun
    <2>4. f[i - 1] \in Seq(Nat)
      BY <2>1
    <2>5. step[i][f[i - 1]] = s[n + 1 - i] \o f[i - 1]
      BY <2>1, <2>4
    <2> QED BY <2>1, <2>2, <2>3, <2>5
  <1> HIDE DEF r
  <1>7. Follows(r, s, n)
    BY <1>4, <1>5, <1>6 DEF Follows
  <1> QED BY <1>7

\* What the library says of sequences, of cells.
LEMMA CellsJoin ==
    \A a, b \in Seq(Nat) :
        /\ a \o b \in Seq(Nat) /\ Len(a \o b) = Len(a) + Len(b)
        /\ \A i \in 1 .. Len(a) + Len(b) :
              (a \o b)[i] = IF i <= Len(a) THEN a[i] ELSE b[i - Len(a)]
PROOF
  BY ConcatProperties

LEMMA NoCells == \A a \in Seq(Nat) : a \o <<>> = a /\ <<>> \o a = a
PROOF
  BY ConcatEmptySeq

LEMMA CellsBetween ==
    ASSUME NEW p, NEW m \in Int, NEW e \in Int, \A i \in m .. e : p[i] \in Nat
    PROVE  /\ SubSeq(p, m, e) \in Seq(Nat)
           /\ Len(SubSeq(p, m, e)) = IF m <= e THEN e - m + 1 ELSE 0
           /\ \A i \in 1 .. e - m + 1 : SubSeq(p, m, e)[i] = p[m + i - 1]
PROOF
  <1> DEFINE S == Nat
  <1> SUFFICES /\ SubSeq(p, m, e) \in Seq(S)
               /\ Len(SubSeq(p, m, e)) = IF m <= e THEN e - m + 1 ELSE 0
               /\ \A i \in 1 .. e - m + 1 : SubSeq(p, m, e)[i] = p[m + i - 1]
    OBVIOUS
  <1>1. \A i \in m .. e : p[i] \in S
    OBVIOUS
  <1> HIDE DEF S
  <1> QED BY <1>1, SubSeqProperties

LEMMA CellsAssociate == \A a, b, c \in Seq(Nat) : (a \o b) \o c = a \o (b \o c)
PROOF
  BY ConcatAssociative

\* What has come and what is to come are the whole, wherever it is cut.
LEMMA CutAnywhere ==
    ASSUME NEW n \in Nat, NEW s \in [1 .. n -> Seq(Nat)], NEW g, NEW r,
           Grows(g, s, n), Follows(r, s, n), NEW k \in 0 .. n
    PROVE  g[k] \o r[k] = g[n]
PROOF
  <1> DEFINE W == {i \in 0 .. n : g[i] \o r[i] = g[n]}
             S == {d \in Nat : d <= n => n - d \in W}
  <1>1. \A i \in 0 .. n : g[i] \in Seq(Nat) /\ r[i] \in Seq(Nat)
    BY DEF Grows, Follows
  <1>2. 0 \in S
    <2>1. r[n] = <<>> /\ n - 0 = n /\ g[n] \in Seq(Nat)
      BY <1>1 DEF Follows
    <2>2. n \in W
      <3>1. g[n] \o <<>> = g[n]
        BY <2>1, NoCells
      <3>2. g[n] \o r[n] = g[n]
        BY <2>1, <3>1, Zenon
      <3>3. n \in 0 .. n
        OBVIOUS
      <3> QED BY <3>2, <3>3, Zenon
    <2> HIDE DEF W
    <2> QED BY <2>1, <2>2
  <1>3. ASSUME NEW d \in Nat, d \in S PROVE d + 1 \in S
    <2> SUFFICES ASSUME d + 1 <= n PROVE n - (d + 1) \in W
      <3> HIDE DEF W
      <3> QED OBVIOUS
    <2> DEFINE i == n - d
    <2>1. i \in 1 .. n /\ i \in 0 .. n /\ i - 1 \in 0 .. n /\ n - (d + 1) = i - 1
      OBVIOUS
    <2>2. i \in W
      <3> HIDE DEF W
      <3> QED BY <1>3
    <2> HIDE DEF i
    <2>3. g[i] = g[i - 1] \o s[i] /\ r[i - 1] = s[i] \o r[i]
      BY <2>1 DEF Grows, Follows
    <2>4. g[i - 1] \in Seq(Nat) /\ s[i] \in Seq(Nat) /\ r[i] \in Seq(Nat)
      BY <1>1, <2>1
    <2>5. (g[i - 1] \o s[i]) \o r[i] = g[i - 1] \o (s[i] \o r[i])
      BY <2>4, CellsAssociate
    <2> QED BY <2>1, <2>2, <2>3, <2>5
  <1>4. n - k \in S
    <2>1. n - k \in Nat
      OBVIOUS
    <2> HIDE DEF S
    <2> QED BY <1>2, <1>3, <2>1, SetInduction
  <1>5. k \in W
    <2>1. n - (n - k) = k /\ n - k <= n
      OBVIOUS
    <2> HIDE DEF W
    <2> QED BY <1>4, <2>1
  <1> QED BY <1>5

\* Wherever a flattened sequence is cut between two parts, the parts from there follow.
LEMMA FlattenParts ==
    ASSUME NEW n \in Nat, NEW s \in [1 .. n -> Seq(Nat)]
    PROVE  \E r : /\ Follows(r, s, n) /\ FlattenSeq(s) = r[0]
                  /\ \A k \in 0 .. n : \E q \in Seq(Nat) : FlattenSeq(s) = q \o r[k]
PROOF
  <1>1. PICK g : Grows(g, s, n) /\ FlattenSeq(s) = g[n]
    BY FlattenGrows
  <1>2. PICK r : Follows(r, s, n)
    BY FollowsExists
  <1>3. ASSUME NEW k \in 0 .. n PROVE g[k] \o r[k] = g[n]
    BY <1>1, <1>2, CutAnywhere
  <1>4. \A k \in 0 .. n : g[k] \in Seq(Nat) /\ r[k] \in Seq(Nat)
    BY <1>1, <1>2 DEF Grows, Follows
  <1>5. FlattenSeq(s) = r[0]
    <2>1. 0 \in 0 .. n /\ g[0] = <<>>
      BY <1>1 DEF Grows
    <2>2. <<>> \o r[0] = r[0]
      BY <1>4, <2>1, NoCells
    <2>3. g[0] \o r[0] = r[0]
      BY <2>1, <2>2, Zenon
    <2> QED BY <1>1, <1>3, <2>1, <2>3
  <1> QED BY <1>1, <1>2, <1>3, <1>4, <1>5

\* A field stands in a payload after q.
FieldStands(p, q, field, rest) == p = q \o ((<<Len(field)>> \o field) \o rest)

\* It is found there, whole.
LEMMA FieldIsFound ==
    ASSUME NEW q \in Seq(Nat), NEW f \in Seq(Nat), NEW rest \in Seq(Nat),
           NEW p, FieldStands(p, q, f, rest)
    PROVE  /\ p \in Seq(Nat) /\ Len(p) = Len(q) + 1 + Len(f) + Len(rest)
           /\ p[Len(q) + 1] = Len(f) /\ HasField(p, Len(q) + 1) /\ FieldAt(p, Len(q) + 1) = f
PROOF
  <1>1. Len(f) \in Nat /\ Len(q) \in Nat /\ Len(rest) \in Nat
    OBVIOUS
  <1>2. <<Len(f)>> \in Seq(Nat) /\ Len(<<Len(f)>>) = 1 /\ <<Len(f)>>[1] = Len(f)
    BY <1>1
  <1> DEFINE c == <<Len(f)>> \o f
             t == c \o rest
  <1>3. /\ c \in Seq(Nat) /\ Len(c) = 1 + Len(f)
        /\ \A i \in 1 .. 1 + Len(f) : c[i] = IF i <= 1 THEN <<Len(f)>>[i] ELSE f[i - 1]
    <2> DEFINE l == <<Len(f)>>
    <2> HIDE DEF l
    <2>1. l \in Seq(Nat) /\ Len(l) = 1
      BY <1>2 DEF l
    <2>2. /\ l \o f \in Seq(Nat) /\ Len(l \o f) = Len(l) + Len(f)
          /\ \A i \in 1 .. Len(l) + Len(f) : (l \o f)[i] = IF i <= Len(l) THEN l[i] ELSE f[i - Len(l)]
      BY <2>1, CellsJoin
    <2> QED BY <2>1, <2>2 DEF l
  <1> HIDE DEF c
  <1>4. /\ t \in Seq(Nat) /\ Len(t) = Len(c) + Len(rest)
        /\ \A i \in 1 .. Len(c) + Len(rest) : t[i] = IF i <= Len(c) THEN c[i] ELSE rest[i - Len(c)]
    BY <1>3, CellsJoin
  <1> HIDE DEF t
  <1>5. /\ p \in Seq(Nat) /\ Len(p) = Len(q) + Len(t)
        /\ \A i \in 1 .. Len(q) + Len(t) : p[i] = IF i <= Len(q) THEN q[i] ELSE t[i - Len(q)]
    <2>1. p = q \o t
      BY DEF t, c, FieldStands
    <2>2. /\ q \o t \in Seq(Nat) /\ Len(q \o t) = Len(q) + Len(t)
          /\ \A i \in 1 .. Len(q) + Len(t) :
                (q \o t)[i] = IF i <= Len(q) THEN q[i] ELSE t[i - Len(q)]
      BY <1>4, CellsJoin
    <2> QED BY <2>1, <2>2, Zenon
  <1>6. Len(p) = Len(q) + 1 + Len(f) + Len(rest)
    BY <1>1, <1>3, <1>4, <1>5
  <1>7. p[Len(q) + 1] = Len(f)
    <2>1. p[Len(q) + 1] = t[1]
      <3>1. Len(t) \in Nat /\ 1 <= Len(t)
        BY <1>1, <1>3, <1>4
      <3> DEFINE k == Len(q) + 1
      <3>2. k \in 1 .. Len(q) + Len(t) /\ ~(k <= Len(q)) /\ k - Len(q) = 1
        BY <1>1, <3>1
      <3> HIDE DEF k
      <3>3. p[k] = t[1]
        BY <1>5, <3>2
      <3> QED BY <3>3 DEF k
    <2>2. t[1] = c[1]
      BY <1>1, <1>3, <1>4
    <2>3. c[1] = Len(f)
      BY <1>1, <1>2, <1>3
    <2> QED BY <2>1, <2>2, <2>3
  <1>8. HasField(p, Len(q) + 1)
    BY <1>1, <1>6, <1>7 DEF HasField
  <1>9. FieldAt(p, Len(q) + 1) = f
    <2> DEFINE m == Len(q) + 2
               e == Len(q) + 1 + Len(f)
    <2>1. FieldAt(p, Len(q) + 1) = SubSeq(p, m, e)
      <3>1. Len(q) + 1 + 1 = m
        BY <1>1
      <3> HIDE DEF m
      <3> QED BY <1>7, <3>1 DEF FieldAt
    <2>2. m \in Int /\ e \in Int /\ e - m + 1 = Len(f)
      BY <1>1
    <2>3. \A i \in m .. e : p[i] \in Nat
      <3>1. Len(p) \in Nat /\ \A i \in 1 .. Len(p) : p[i] \in Nat
        BY <1>5
      <3>2. \A i \in m .. e : i \in 1 .. Len(p)
        BY <1>1, <1>6, <3>1
      <3> QED BY <3>1, <3>2
    <2>4. /\ SubSeq(p, m, e) \in Seq(Nat)
          /\ Len(SubSeq(p, m, e)) = IF m <= e THEN e - m + 1 ELSE 0
          /\ \A i \in 1 .. e - m + 1 : SubSeq(p, m, e)[i] = p[m + i - 1]
      <3> HIDE DEF m, e
      <3> QED BY <2>2, <2>3, CellsBetween
    <2>5. Len(SubSeq(p, m, e)) = Len(f)
      <3>1. m <= e \/ Len(f) = 0
        BY <1>1
      <3> HIDE DEF m, e
      <3> QED BY <1>1, <2>2, <2>4, <3>1
    <2>6. ASSUME NEW i \in 1 .. Len(f) PROVE SubSeq(p, m, e)[i] = f[i]
      <3>1. SubSeq(p, m, e)[i] = p[m + i - 1]
        <4> HIDE DEF m, e
        <4> QED BY <2>2, <2>4
      <3>2. m + i - 1 = Len(q) + (i + 1) /\ i + 1 \in 1 .. 1 + Len(f)
        BY <1>1
      <3>3. p[Len(q) + (i + 1)] = t[i + 1]
        <4>1. Len(t) \in Nat /\ i + 1 <= Len(t)
          BY <1>1, <1>3, <1>4
        <4> DEFINE k == Len(q) + (i + 1)
        <4>2. k \in 1 .. Len(q) + Len(t) /\ ~(k <= Len(q)) /\ k - Len(q) = i + 1
          BY <1>1, <4>1
        <4> HIDE DEF k
        <4>3. p[k] = t[i + 1]
          BY <1>5, <4>2
        <4> QED BY <4>3 DEF k
      <3>4. t[i + 1] = c[i + 1]
        BY <1>1, <1>3, <1>4, <3>2
      <3>5. c[i + 1] = f[i]
        <4>1. ~(i + 1 <= 1) /\ (i + 1) - 1 = i
          OBVIOUS
        <4> QED BY <1>3, <3>2, <4>1
      <3> QED BY <3>1, <3>2, <3>3, <3>4, <3>5
    <2> HIDE DEF m, e
    <2>7. SubSeq(p, m, e) = f
      BY <2>4, <2>5, <2>6, SeqEqual
    <2> QED BY <2>1, <2>7
  <1> QED BY <1>5, <1>6, <1>7, <1>8, <1>9

Messages == [type : Nat, id : Nat, fields : Seq(Seq(Nat))]

\* The cells of each field, and the numbers before them.
FieldCells(m) == [i \in DOMAIN m.fields |-> <<Len(m.fields[i])>> \o m.fields[i]]
Header(m) == <<Version, m.type, m.id, Len(m.fields)>>

LEMMA HeaderIs ==
    ASSUME Version \in Nat, NEW m \in Messages, NEW r \in Seq(Nat), NEW p, p = Header(m) \o r
    PROVE  /\ Header(m) \in Seq(Nat) /\ Len(Header(m)) = 4
           /\ p \in Seq(Nat) /\ Len(p) = 4 + Len(r)
           /\ p[1] = Version /\ p[2] = m.type /\ p[3] = m.id /\ p[4] = Len(m.fields)
PROOF
  <1> DEFINE h == Header(m)
  <1>1. Len(m.fields) \in Nat /\ m.type \in Nat /\ m.id \in Nat
    BY DEF Messages
  <1>2. /\ h \in Seq(Nat) /\ Len(h) = 4
        /\ h[1] = Version /\ h[2] = m.type /\ h[3] = m.id /\ h[4] = Len(m.fields)
    BY <1>1 DEF Header
  <1> HIDE DEF h
  <1>3. /\ h \o r \in Seq(Nat) /\ Len(h \o r) = Len(h) + Len(r)
        /\ \A i \in 1 .. Len(h) + Len(r) : (h \o r)[i] = IF i <= Len(h) THEN h[i] ELSE r[i - Len(h)]
    BY <1>2, CellsJoin
  <1>4. p = h \o r
    BY DEF h
  <1>5. Len(r) \in Nat
    OBVIOUS
  <1>6. \A i \in 1 .. 4 : (h \o r)[i] = h[i]
    BY <1>2, <1>3, <1>5
  <1>7. p[1] = h[1] /\ p[2] = h[2] /\ p[3] = h[3] /\ p[4] = h[4]
    <2>1. 1 \in 1 .. 4 /\ 2 \in 1 .. 4 /\ 3 \in 1 .. 4 /\ 4 \in 1 .. 4
      OBVIOUS
    <2>2. (h \o r)[1] = h[1] /\ (h \o r)[2] = h[2] /\ (h \o r)[3] = h[3] /\ (h \o r)[4] = h[4]
      BY <1>6, <2>1
    <2> QED BY <1>4, <2>2
  <1>8. p \in Seq(Nat) /\ Len(p) = 4 + Len(r)
    BY <1>2, <1>3, <1>4
  <1> QED BY <1>2, <1>7, <1>8 DEF h

\* Wherever a payload is cut between two fields, the fields from there follow.
LEMMA PayloadParts ==
    ASSUME Version \in Nat, NEW m \in Messages, NEW n, n = Len(m.fields)
    PROVE  \E r : /\ Follows(r, FieldCells(m), n) /\ Payload(m) = Header(m) \o r[0]
                  /\ \A k \in 0 .. n : \E q \in Seq(Nat) : Payload(m) = q \o r[k]
PROOF
  <1> DEFINE s == FieldCells(m)
  <1>1. n \in Nat /\ m.fields \in Seq(Seq(Nat)) /\ DOMAIN m.fields = 1 .. n
    BY DEF Messages
  <1>2. s \in [1 .. n -> Seq(Nat)]
    <2>1. ASSUME NEW i \in 1 .. n PROVE <<Len(m.fields[i])>> \o m.fields[i] \in Seq(Nat)
      <3>1. m.fields[i] \in Seq(Nat)
        BY <1>1
      <3> DEFINE f == m.fields[i]
      <3> HIDE DEF f
      <3>2. f \in Seq(Nat) /\ Len(f) \in Nat
        BY <3>1 DEF f
      <3>3. <<Len(f)>> \in Seq(Nat)
        BY <3>2
      <3>4. <<Len(f)>> \o f \in Seq(Nat)
        BY <3>2, <3>3
      <3> QED BY <3>4 DEF f
    <2> QED BY <1>1, <2>1 DEF FieldCells
  <1>3. Payload(m) = Header(m) \o FlattenSeq(s)
    BY DEF Payload, Header, FieldCells
  <1> HIDE DEF s
  <1>4. PICK r : /\ Follows(r, s, n) /\ FlattenSeq(s) = r[0]
                 /\ \A k \in 0 .. n : \E q \in Seq(Nat) : FlattenSeq(s) = q \o r[k]
    BY <1>1, <1>2, FlattenParts
  <1>5. r[0] \in Seq(Nat) /\ \A k \in 0 .. n : r[k] \in Seq(Nat)
    <2>1. 0 \in 0 .. n
      BY <1>1
    <2>2. r \in [0 .. n -> Seq(Nat)]
      BY <1>4 DEF Follows
    <2> QED BY <2>1, <2>2
  <1>6. Header(m) \in Seq(Nat)
    BY <1>5, HeaderIs
  <1>7. Payload(m) = Header(m) \o r[0]
    BY <1>3, <1>4
  <1>8. ASSUME NEW k \in 0 .. n PROVE \E q \in Seq(Nat) : Payload(m) = q \o r[k]
    <2>1. PICK q \in Seq(Nat) : FlattenSeq(s) = q \o r[k]
      BY <1>4
    <2>2. (Header(m) \o q) \o r[k] = Header(m) \o (q \o r[k])
      BY <1>5, <1>6, CellsAssociate
    <2>3. Payload(m) = (Header(m) \o q) \o r[k]
      BY <1>3, <2>1, <2>2, Zenon
    <2>4. Header(m) \o q \in Seq(Nat)
      BY <1>6, CellsJoin
    <2> QED BY <2>3, <2>4
  <1> QED BY <1>4, <1>7, <1>8 DEF s

\* From any place on, the fields are sequences of cells, if there are any.
LEMMA FieldsHaveTypes ==
    ASSUME NEW p \in Seq(Nat), NEW V, V = [1 .. Len(p) + 1 -> SUBSET Seq(Seq(Nat))]
    PROVE  NoMore(p) \in V /\ \A v \in V : OneMore(p, v) \in V
PROOF
  <1>1. NoMore(p) \in V
    <2>1. <<>> \in Seq(Seq(Nat))
      OBVIOUS
    <2> QED BY <2>1 DEF NoMore
  <1>2. ASSUME NEW v \in V PROVE OneMore(p, v) \in V
    <2>1. ASSUME NEW i \in 1 .. Len(p) + 1, HasField(p, i)
          PROVE  {<<FieldAt(p, i)>> \o fields : fields \in v[i + p[i] + 1]} \in SUBSET Seq(Seq(Nat))
      <3>1. i \in 1 .. Len(p) /\ p[i] \in Nat /\ i + p[i] <= Len(p)
        <4>1. Len(p) \in Nat /\ i \in 1 .. Len(p)
          BY <2>1 DEF HasField
        <4> QED BY <2>1, <4>1 DEF HasField
      <3>2. FieldAt(p, i) \in Seq(Nat)
        <4> DEFINE a == i + 1
                   e == i + p[i]
        <4>1. a \in Int /\ e \in Int /\ \A j \in a .. e : p[j] \in Nat
          BY <3>1
        <4> HIDE DEF a, e
        <4>2. SubSeq(p, a, e) \in Seq(Nat)
          BY <4>1, CellsBetween
        <4> QED BY <4>2 DEF a, e, FieldAt
      <3>3. i + p[i] + 1 \in 1 .. Len(p) + 1
        BY <3>1
      <3>4. v[i + p[i] + 1] \subseteq Seq(Seq(Nat))
        BY <3>3
      <3> DEFINE field == FieldAt(p, i)
                 rest == v[i + p[i] + 1]
      <3> HIDE DEF field, rest
      <3>5. \A fields \in rest : <<field>> \o fields \in Seq(Seq(Nat))
        <4>1. <<field>> \in Seq(Seq(Nat))
          BY <3>2 DEF field
        <4>2. \A fields \in rest : fields \in Seq(Seq(Nat))
          BY <3>4 DEF rest
        <4> QED BY <4>1, <4>2
      <3>6. {<<field>> \o fields : fields \in rest} \in SUBSET Seq(Seq(Nat))
        BY <3>5
      <3> QED BY <3>6 DEF field, rest
    <2> DEFINE more(i) == {<<FieldAt(p, i)>> \o fields : fields \in v[i + p[i] + 1]}
               has(i) == HasField(p, i) /\ IsValidUtf8(FieldAt(p, i))
    <2>2. OneMore(p, v) = [i \in 1 .. Len(p) + 1 |-> IF has(i) THEN more(i) ELSE {}]
      BY DEF OneMore
    <2>3. \A i \in 1 .. Len(p) + 1 : has(i) => more(i) \in SUBSET Seq(Seq(Nat))
      BY <2>1
    <2> HIDE DEF has, more
    <2>4. \A i \in 1 .. Len(p) + 1 : (IF has(i) THEN more(i) ELSE {}) \in SUBSET Seq(Seq(Nat))
      BY <2>3
    <2> QED BY <2>2, <2>4
  <1> QED BY <1>1, <1>2

\* Decode's loop over the fields.
LEMMA FieldsUnfold ==
    ASSUME WireConstantsOK, NEW p \in Seq(Nat)
    PROVE  \E rest : /\ rest[0] = NoMore(p)
                     /\ \A d \in 1 .. MaxFields : rest[d] = OneMore(p, rest[d - 1])
                     /\ \A d \in 0 .. MaxFields : FieldsOf(p, d) = rest[d][5]
PROOF
  <1> DEFINE V == [1 .. Len(p) + 1 -> SUBSET Seq(Seq(Nat))]
             step == [i \in 1 .. MaxFields |-> [v \in V |-> OneMore(p, v)]]
             Loop(u) == u = [i \in 0 .. MaxFields |->
                                IF i = 0 THEN NoMore(p) ELSE OneMore(p, u[i - 1])]
             u == CHOOSE u : Loop(u)
  <1>1. NoMore(p) \in V /\ \A v \in V : OneMore(p, v) \in V
    <2> HIDE DEF V
    <2> QED BY FieldsHaveTypes DEF V
  <1> HIDE DEF V
  <1>2. step \in [1 .. MaxFields -> [V -> V]]
    BY <1>1
  <1>3. MaxFields \in Nat
    BY DEF WireConstantsOK
  <1>4. PICK f \in [0 .. MaxFields -> V] : IsRun(f, NoMore(p), MaxFields, step)
    <2> HIDE DEF step
    <2> QED BY <1>1, <1>2, <1>3, RunExists
  <1>5. Loop(f)
    <2>1. ASSUME NEW i \in 0 .. MaxFields, i # 0 PROVE step[i][f[i - 1]] = OneMore(p, f[i - 1])
      <3>1. i \in 1 .. MaxFields /\ i - 1 \in 0 .. MaxFields
        BY <1>3, <2>1
      <3>2. f[i - 1] \in V
        BY <3>1
      <3> QED BY <3>1, <3>2
    <2> HIDE DEF step
    <2>2. f = [i \in 0 .. MaxFields |-> IF i = 0 THEN NoMore(p) ELSE step[i][f[i - 1]]]
      BY <1>4 DEF IsRun
    <2>3. [i \in 0 .. MaxFields |-> IF i = 0 THEN NoMore(p) ELSE step[i][f[i - 1]]]
            = [i \in 0 .. MaxFields |-> IF i = 0 THEN NoMore(p) ELSE OneMore(p, f[i - 1])]
      BY <2>1
    <2> QED BY <2>2, <2>3, Zenon
  <1>6. Loop(u)
    <2> HIDE DEF Loop
    <2> QED BY <1>5
  <1>7. \A d \in 0 .. MaxFields : FieldsOf(p, d) = u[d][5]
    BY DEF FieldsOf
  <1> HIDE DEF u
  <1>8. u[0] = NoMore(p)
    <2>1. 0 \in 0 .. MaxFields
      BY <1>3
    <2> QED BY <1>6, <2>1
  <1>9. ASSUME NEW d \in 1 .. MaxFields PROVE u[d] = OneMore(p, u[d - 1])
    <2>1. d \in 0 .. MaxFields /\ d # 0
      BY <1>3
    <2> QED BY <1>6, <2>1
  <1> QED BY <1>7, <1>8, <1>9

\* The fields of a message are all that its payload can be read as.
LEMMA FieldsAreRead ==
    ASSUME WireConstantsOK, NEW m \in Messages, Encodes(m)
    PROVE  FieldsOf(Payload(m), Len(m.fields)) = {m.fields}
PROOF
  <1> DEFINE F == m.fields
             n == Len(F)
             p == Payload(m)
  <1>1. F \in Seq(Seq(Nat)) /\ n \in Nat /\ DOMAIN F = 1 .. n /\ n <= MaxFields /\ MaxFields \in Nat
    BY DEF Messages, Encodes, WireConstantsOK
  <1>2. PICK r : /\ Follows(r, FieldCells(m), n) /\ p = Header(m) \o r[0]
                 /\ \A k \in 0 .. n : \E q \in Seq(Nat) : p = q \o r[k]
    BY PayloadParts DEF WireConstantsOK
  <1>3. \A k \in 0 .. n : r[k] \in Seq(Nat) /\ Len(r[k]) \in Nat
    <2>1. r \in [0 .. n -> Seq(Nat)]
      BY <1>2 DEF Follows
    <2> HIDE DEF n
    <2> QED BY <2>1
  <1>4. p \in Seq(Nat) /\ Len(p) = 4 + Len(r[0]) /\ Len(p) \in Nat
    <2> DEFINE t == r[0]
    <2>1. t \in Seq(Nat) /\ Len(t) \in Nat
      BY <1>1, <1>3
    <2>2. p = Header(m) \o t
      BY <1>2
    <2> HIDE DEF t, p
    <2>3. p \in Seq(Nat) /\ Len(p) = 4 + Len(t)
      BY <2>1, <2>2, HeaderIs DEF WireConstantsOK
    <2>4. Len(p) \in Nat
      BY <2>1, <2>3
    <2> QED BY <2>3, <2>4 DEF t
  <1>5. \A i \in 1 .. n : IsValidUtf8(F[i]) /\ F[i] \in Seq(Nat)
    <2>1. \A i \in DOMAIN m.fields : IsValidUtf8(m.fields[i])
      BY DEF Encodes
    <2> QED BY <1>1, <2>1
  <1>6. \A k \in 1 .. n : r[k - 1] = (<<Len(F[k])>> \o F[k]) \o r[k]
    BY <1>1, <1>2 DEF Follows, FieldCells
  <1> HIDE DEF p
  <1>7. PICK rest : /\ rest[0] = NoMore(p)
                    /\ \A d \in 1 .. MaxFields : rest[d] = OneMore(p, rest[d - 1])
                    /\ \A d \in 0 .. MaxFields : FieldsOf(p, d) = rest[d][5]
    BY <1>4, FieldsUnfold
  <1> HIDE DEF n, F
  <1> DEFINE at(k) == Len(p) - Len(r[k]) + 1
             Read(k, d) == rest[d][at(k)] = {SubSeq(F, k + 1, n)}
             S == {d \in Nat : d <= n => Read(n - d, d)}
  <1>8. 0 \in S
    <2>1. r[n] = <<>> /\ n - 0 = n /\ Len(<<>>) = 0
      BY <1>1, <1>2 DEF Follows
    <2>2. at(n) = Len(p) + 1 /\ Len(p) + 1 \in 1 .. Len(p) + 1
      BY <1>4, <2>1
    <2>3. NoMore(p)[Len(p) + 1] = {<<>>}
      BY <2>2 DEF NoMore
    <2>4. SubSeq(F, n + 1, n) = <<>>
      <3>1. n + 1 \in Int /\ n \in Int /\ n < n + 1
        BY <1>1
      <3> QED BY <3>1, SubSeqEmpty
    <2> HIDE DEF at
    <2>5. Read(n, 0)
      BY <1>7, <2>2, <2>3, <2>4
    <2> HIDE DEF Read
    <2> QED BY <2>1, <2>5
  <1>9. ASSUME NEW d \in Nat, d \in S PROVE d + 1 \in S
    <2> SUFFICES ASSUME d + 1 <= n PROVE Read(n - (d + 1), d + 1)
      <3> HIDE DEF Read
      <3> QED OBVIOUS
    <2> DEFINE k == n - d
    <2>1. k \in 1 .. n /\ k \in 0 .. n /\ k - 1 \in 0 .. n /\ n - (d + 1) = k - 1
      BY <1>1
    <2>2. Read(k, d)
      <3>1. d <= n
        BY <1>1
      <3> HIDE DEF Read
      <3> QED BY <1>9, <3>1
    <2> HIDE DEF k
    <2>3. PICK q \in Seq(Nat) : p = q \o r[k - 1]
      BY <1>2, <2>1 DEF p, n, F
    <2>4. p = q \o ((<<Len(F[k])>> \o F[k]) \o r[k])
      BY <1>6, <2>1, <2>3
    <2>5. F[k] \in Seq(Nat) /\ r[k] \in Seq(Nat) /\ IsValidUtf8(F[k])
      BY <1>3, <1>5, <2>1
    <2> DEFINE i == Len(q) + 1
    <2>6. /\ Len(p) = Len(q) + 1 + Len(F[k]) + Len(r[k])
          /\ p[i] = Len(F[k]) /\ HasField(p, i) /\ FieldAt(p, i) = F[k]
      <3> DEFINE f == F[k]
                 t == r[k]
      <3>1. f \in Seq(Nat) /\ t \in Seq(Nat) /\ FieldStands(p, q, f, t)
        BY <2>4, <2>5 DEF FieldStands
      <3> HIDE DEF f, t
      <3>2. /\ Len(p) = Len(q) + 1 + Len(f) + Len(t)
            /\ p[Len(q) + 1] = Len(f) /\ HasField(p, Len(q) + 1) /\ FieldAt(p, Len(q) + 1) = f
        BY <3>1, FieldIsFound
      <3> QED BY <3>2 DEF f, t
    <2>7. Len(q) \in Nat /\ Len(F[k]) \in Nat /\ Len(r[k]) \in Nat
      BY <2>5
    <2>8. at(k - 1) = i
      <3>1. r[k - 1] \in Seq(Nat)
        BY <1>3, <2>1
      <3>2. Len(p) = Len(q) + Len(r[k - 1]) /\ Len(r[k - 1]) \in Nat
        BY <2>3, <3>1, CellsJoin
      <3> QED BY <2>7, <3>2
    <2>9. i + p[i] + 1 = at(k) /\ i \in 1 .. Len(p) + 1
      <3>1. i = Len(q) + 1
        OBVIOUS
      <3> HIDE DEF i
      <3>2. p[i] = Len(F[k]) /\ Len(p) = Len(q) + 1 + Len(F[k]) + Len(r[k])
        BY <2>6
      <3> DEFINE a == Len(F[k])
                 b == Len(r[k])
                 c == Len(q)
      <3> HIDE DEF a, b, c
      <3>3. a \in Nat /\ b \in Nat /\ c \in Nat /\ i = c + 1 /\ Len(p) = c + 1 + a + b
        BY <2>7, <3>1, <3>2 DEF a, b, c
      <3>4. i + a + 1 = Len(p) - b + 1 /\ i \in 1 .. Len(p) + 1
        BY <3>3
      <3> QED BY <3>2, <3>4 DEF a, b
    <2>10. rest[d + 1] = OneMore(p, rest[d])
      <3>1. d + 1 \in 1 .. MaxFields /\ d + 1 - 1 = d
        BY <1>1
      <3> QED BY <1>7, <3>1
    <2> HIDE DEF at, i
    <2>11. OneMore(p, rest[d])[i] = {<<F[k]>> \o fields : fields \in rest[d][at(k)]}
      BY <2>5, <2>6, <2>9 DEF OneMore
    <2>12. rest[d][at(k)] = {SubSeq(F, k + 1, n)}
      BY <2>2
    <2>13. SubSeq(F, k, n) = <<F[k]>> \o SubSeq(F, k + 1, n)
      <3>1. k \in 1 .. Len(F) /\ n \in k .. Len(F)
        BY <1>1, <2>1 DEF n
      <3> QED BY <1>1, <3>1, SubSeqRecursiveFirst
    <2>14. rest[d + 1][at(k - 1)] = {SubSeq(F, k, n)}
      BY <2>8, <2>10, <2>11, <2>12, <2>13
    <2>15. k - 1 + 1 = k
      BY <2>1
    <2> QED BY <2>1, <2>14, <2>15
  <1>10. n \in S
    <2> HIDE DEF S
    <2> QED BY <1>1, <1>8, <1>9, SetInduction
  <1>11. Read(0, n)
    <2>1. n - n = 0 /\ n <= n
      BY <1>1
    <2> HIDE DEF Read
    <2> QED BY <1>10, <2>1
  <1>12. at(0) = 5
    <2>1. 0 \in 0 .. n
      BY <1>1
    <2> QED BY <1>3, <1>4, <2>1
  <1>13. SubSeq(F, 1, n) = F
    BY <1>1, SubSeqFull DEF n
  <1>14. FieldsOf(p, n) = rest[n][5]
    <2>1. n \in 0 .. MaxFields
      BY <1>1
    <2> QED BY <1>7, <2>1
  <1> HIDE DEF at
  <1>15. FieldsOf(p, n) = {F}
    <2>1. 0 + 1 = 1
      OBVIOUS
    <2> QED BY <1>11, <1>12, <1>13, <1>14, <2>1
  <1> QED BY <1>15 DEF p, n, F

\* Decode takes what Encode makes and makes the same of it.
LEMMA DecodesWhatEncodes ==
    ASSUME WireConstantsOK, NEW m \in Messages, Encodes(m)
    PROVE  /\ Payload(m) \in Seq(Nat) /\ Len(Payload(m)) \in 4 .. MaxCells
           /\ Decode(Payload(m)) = {m}
PROOF
  <1> DEFINE p == Payload(m)
             n == Len(m.fields)
  <1>1. n \in Nat /\ n <= MaxFields /\ Len(p) <= MaxCells /\ MaxCells \in Nat
    BY DEF Messages, Encodes, WireConstantsOK
  <1>2. PICK r : Follows(r, FieldCells(m), n) /\ p = Header(m) \o r[0]
    BY PayloadParts DEF WireConstantsOK
  <1>3. r[0] \in Seq(Nat)
    <2>1. 0 \in 0 .. n
      BY <1>1
    <2> QED BY <1>2, <2>1 DEF Follows
  <1>4. /\ p \in Seq(Nat) /\ Len(p) = 4 + Len(r[0])
        /\ p[1] = Version /\ p[2] = m.type /\ p[3] = m.id /\ p[4] = n
    BY <1>2, <1>3, HeaderIs DEF WireConstantsOK
  <1>5. FieldsOf(p, n) = {m.fields}
    BY FieldsAreRead
  <1>6. Len(p) \in 4 .. MaxCells
    <2>1. Len(r[0]) \in Nat
      BY <1>3
    <2> QED BY <1>1, <1>4, <2>1
  <1>7. m = [type |-> m.type, id |-> m.id, fields |-> m.fields]
    BY DEF Messages
  <1> HIDE DEF p, n
  <1>8. ~(Len(p) < 4 \/ Len(p) > MaxCells) /\ ~(p[1] # Version \/ p[4] > MaxFields)
    <2>1. p[1] = Version /\ p[4] = n
      BY <1>4
    <2>2. Len(p) \in Nat /\ 4 <= Len(p) /\ Len(p) <= MaxCells
      BY <1>1, <1>6
    <2>3. ~(Len(p) < 4) /\ ~(Len(p) > MaxCells) /\ ~(n > MaxFields)
      BY <1>1, <2>2 DEF WireConstantsOK
    <2> QED BY <2>1, <2>3
  <1>9. Decode(p) = {[type |-> p[2], id |-> p[3], fields |-> f] : f \in FieldsOf(p, p[4])}
    BY <1>8 DEF Decode
  <1>10. Decode(p) = {m}
    BY <1>4, <1>5, <1>7, <1>9
  <1> QED BY <1>4, <1>6, <1>10 DEF p

-----------------------------------------------------------------------------
(* The reader is in step: what is in the pipe and what is still to be      *)
(* written are the rest of the frame it is in and the frames after that.   *)

LEMMA CellsCancel == \A a, b, c \in Seq(Nat) : a \o b = a \o c => b = c
PROOF
  BY ConcatSimplifications, Zenon

\* What is cut off one side of a stream is what stands there on the other.
LEMMA CutOff ==
    ASSUME NEW a \in Seq(Nat), NEW b \in Seq(Nat), NEW c \in Seq(Nat), NEW d \in Seq(Nat),
           a \o b = c \o d, Len(c) <= Len(a)
    PROVE  /\ SubSeq(a, 1, Len(c)) = c
           /\ SubSeq(a, Len(c) + 1, Len(a)) \in Seq(Nat)
           /\ SubSeq(a, Len(c) + 1, Len(a)) \o b = d
PROOF
  <1> DEFINE l == Len(c)
             c1 == SubSeq(a, 1, l)
             a1 == SubSeq(a, l + 1, Len(a))
  <1>1. l \in Nat /\ Len(a) \in Nat /\ l <= Len(a) /\ Len(b) \in Nat /\ Len(d) \in Nat
    OBVIOUS
  <1>2. \A i \in 1 .. Len(a) : a[i] \in Nat
    OBVIOUS
  <1>3. c1 \in Seq(Nat) /\ Len(c1) = l /\ \A i \in 1 .. l : c1[i] = a[i]
    <2> HIDE DEF l
    <2>1. 1 \in Int /\ l \in Int /\ \A i \in 1 .. l : a[i] \in Nat
      BY <1>1, <1>2
    <2>2. /\ c1 \in Seq(Nat) /\ Len(c1) = IF 1 <= l THEN l - 1 + 1 ELSE 0
          /\ \A i \in 1 .. l - 1 + 1 : c1[i] = a[1 + i - 1]
      BY <2>1, CellsBetween
    <2> HIDE DEF c1
    <2>3. \A i \in 1 .. l : i \in 1 .. l - 1 + 1 /\ 1 + i - 1 = i
      BY <1>1
    <2>4. \A i \in 1 .. l : c1[i] = a[i]
      BY <2>2, <2>3
    <2> QED BY <1>1, <2>2, <2>4
  <1>4. a1 \in Seq(Nat)
    <2> HIDE DEF l
    <2> DEFINE from == l + 1
               to == Len(a)
    <2>1. from \in Int /\ to \in Int /\ \A i \in from .. to : a[i] \in Nat
      BY <1>1, <1>2
    <2> HIDE DEF from, to
    <2>2. SubSeq(a, from, to) \in Seq(Nat)
      BY <2>1, CellsBetween
    <2> QED BY <2>2 DEF from, to
  <1>5. c1 \o a1 = a
    <2> HIDE DEF l
    <2>1. 1 \in 1 .. Len(a) + 1 /\ l \in 1 - 1 .. Len(a) /\ Len(a) \in l .. Len(a)
      BY <1>1
    <2>2. c1 \o a1 = SubSeq(a, 1, Len(a))
      BY <2>1, ConcatAdjacentSubSeq
    <2> QED BY <2>2, SubSeqFull
  <1>6. c1 = c
    <2>1. ASSUME NEW i \in 1 .. l PROVE c1[i] = c[i]
      <3>1. i \in 1 .. Len(a) + Len(b) /\ i <= Len(a) /\ i \in 1 .. Len(c) + Len(d) /\ i <= Len(c)
        BY <1>1
      <3>2. (a \o b)[i] = a[i]
        BY <3>1, CellsJoin
      <3>3. (c \o d)[i] = c[i]
        BY <3>1, CellsJoin
      <3>4. a[i] = c[i]
        BY <3>2, <3>3, Zenon
      <3> HIDE DEF c1
      <3> QED BY <1>3, <3>4
    <2>2. l = Len(c)
      OBVIOUS
    <2> HIDE DEF c1, l
    <2> QED BY <1>3, <2>1, <2>2, SeqEqual
  <1> HIDE DEF c1, a1
  <1>7. a1 \o b \in Seq(Nat)
    BY <1>4, CellsJoin
  <1>8. c \o (a1 \o b) = c \o d
    <2>1. (c1 \o a1) \o b = c1 \o (a1 \o b)
      BY <1>3, <1>4, CellsAssociate
    <2> QED BY <1>5, <1>6, <2>1, Zenon
  <1>9. a1 \o b = d
    BY <1>7, <1>8, CellsCancel
  <1> QED BY <1>4, <1>6, <1>9 DEF c1, a1

\* The next cell goes over into the pipe.
LEMMA GoesOver ==
    ASSUME NEW a \in Seq(Nat), NEW b \in Seq(Nat), b # <<>>
    PROVE  Append(a, Head(b)) \o Tail(b) = a \o b /\ Append(a, Head(b)) \in Seq(Nat)
PROOF
  <1> DEFINE h == Head(b)
             t == Tail(b)
  <1>1. h \in Nat /\ t \in Seq(Nat) /\ <<h>> \in Seq(Nat)
    BY HeadTailProperties
  <1>2. Append(a, h) = a \o <<h>> /\ Append(a, h) \in Seq(Nat)
    <2> HIDE DEF h
    <2> QED BY <1>1, AppendIsConcat, AppendProperties
  <1>3. <<h>> \o t = b
    <2>1. 1 \in 1 .. Len(b) /\ Len(b) \in 1 .. Len(b)
      OBVIOUS
    <2>2. SubSeq(b, 1, Len(b)) = <<b[1]>> \o SubSeq(b, 1 + 1, Len(b))
      BY <2>1, SubSeqRecursiveFirst
    <2>3. SubSeq(b, 1, Len(b)) = b /\ t = SubSeq(b, 2, Len(b)) /\ h = b[1]
      BY SubSeqFull, TailIsSubSeq
    <2>4. 1 + 1 = 2
      OBVIOUS
    <2> HIDE DEF h, t
    <2> QED BY <2>2, <2>3, <2>4
  <1> HIDE DEF h, t
  <1>4. (a \o <<h>>) \o t = a \o (<<h>> \o t)
    BY <1>1, CellsAssociate
  <1>5. Append(a, h) \o t = a \o b
    BY <1>2, <1>3, <1>4, Zenon
  <1> QED BY <1>2, <1>5 DEF h, t

\* u is all that is to come: the rest of the frame that the reader is in, and those after it.
Frames == [j \in 1 .. Len(written) |-> Frame(written[j])]
Expected(h) ==
    IF want = 0 THEN h[Len(received)]
    ELSE Payload(written[Len(received) + 1]) \o h[Len(received) + 1]
ToCome(u) == \E h : Follows(h, Frames, Len(written)) /\ u = Expected(h)

Unwritten == IF writing = Nobody THEN <<>> ELSE left[writing]

WireTypes ==
    /\ written \in Seq(Messages) /\ \A j \in 1 .. Len(written) : Encodes(written[j])
    /\ pipe \in Seq(Nat) /\ want \in Nat /\ left \in [Writers -> Seq(Nat)]
    /\ writing \in Writers \cup {Nobody}
OneWriter == \A w \in Writers : left[w] # <<>> => writing = w
ReadSoFar ==
    /\ received \in Seq(Messages) /\ Len(received) <= Len(written)
    /\ \A j \in 1 .. Len(received) : received[j] = written[j]
    /\ want # 0 => /\ Len(received) < Len(written)
                  /\ want = Len(Payload(written[Len(received) + 1]))
InStep == \E rest \in Seq(Nat) : ToCome(pipe \o rest) /\ (~broken => rest = Unwritten)

WireInv == WireTypes /\ OneWriter /\ ReadSoFar /\ InStep /\ (stopped => broken)

\* A frame that can be written.
LEMMA FrameIs ==
    ASSUME WireConstantsOK, NEW m \in Messages, Encodes(m)
    PROVE  /\ Payload(m) \in Seq(Nat) /\ <<Len(Payload(m))>> \in Seq(Nat) /\ Frame(m) \in Seq(Nat)
           /\ Frame(m) # <<>> /\ Len(Payload(m)) \in 1 .. MaxCells /\ Decode(Payload(m)) = {m}
PROOF
  <1> DEFINE p == Payload(m)
             l == <<Len(p)>>
  <1>1. p \in Seq(Nat) /\ Len(p) \in 4 .. MaxCells /\ Decode(p) = {m} /\ MaxCells \in Nat
    BY DecodesWhatEncodes DEF WireConstantsOK
  <1> HIDE DEF p
  <1>2. l \in Seq(Nat) /\ Len(l) = 1
    BY <1>1
  <1> HIDE DEF l
  <1>3. l \o p \in Seq(Nat) /\ Len(l \o p) = 1 + Len(p)
    BY <1>1, <1>2, CellsJoin
  <1>4. l \o p # <<>>
    <2>1. Len(l \o p) # 0
      BY <1>1, <1>3
    <2> QED BY <2>1
  <1>5. Frame(m) = l \o p
    BY DEF Frame, l, p
  <1>6. Len(p) \in 1 .. MaxCells
    BY <1>1
  <1> QED BY <1>1, <1>2, <1>3, <1>4, <1>5, <1>6 DEF l, p

\* The frames of messages that can be written are cells.
LEMMA FramesAreCells ==
    ASSUME WireConstantsOK, WireTypes PROVE Frames \in [1 .. Len(written) -> Seq(Nat)]
PROOF
  <1>1. ASSUME NEW j \in 1 .. Len(written) PROVE Frame(written[j]) \in Seq(Nat)
    <2>1. written[j] \in Messages /\ Encodes(written[j])
      BY DEF WireTypes
    <2> QED BY <2>1, FrameIs
  <1> QED BY <1>1 DEF Frames

LEMMA InitWireInv == WireConstantsOK /\ WireInit => WireInv
PROOF
  <1> SUFFICES ASSUME WireConstantsOK, WireInit PROVE WireInv OBVIOUS
  <1>1. WireTypes /\ OneWriter
    BY DEF WireInit, WireTypes, OneWriter
  <1>2. ReadSoFar
    BY DEF WireInit, ReadSoFar
  <1>3. InStep
    <2>1. Len(written) = 0 /\ Len(received) = 0 /\ want = 0 /\ pipe = <<>> /\ Unwritten = <<>>
      BY DEF WireInit, Unwritten
    <2>2. Frames \in [1 .. 0 -> Seq(Nat)]
      BY <1>1, <2>1, FramesAreCells
    <2>3. PICK h : Follows(h, Frames, 0)
      BY <2>2, FollowsExists
    <2>4. h[0] = <<>>
      BY <2>3 DEF Follows
    <2>5. ToCome(<<>>)
      BY <2>1, <2>3, <2>4 DEF ToCome, Expected
    <2>6. <<>> \in Seq(Nat)
      OBVIOUS
    <2>7. pipe \o <<>> = <<>>
      BY <2>1, <2>6, NoCells
    <2> QED BY <2>1, <2>5, <2>6, <2>7 DEF InStep
  <1> QED BY <1>1, <1>2, <1>3 DEF WireInv, WireInit

\* One more message comes after all that was to come.
LEMMA OneMoreToCome ==
    ASSUME WireConstantsOK, WireTypes, ReadSoFar, NEW m \in Messages, Encodes(m),
           NEW u \in Seq(Nat), ToCome(u),
           written' = Append(written, m), UNCHANGED <<want, received>>
    PROVE  ToCome(u \o Frame(m))'
PROOF
  <1> DEFINE n == Len(written)
             f == Frame(m)
             k == Len(received)
  <1>1. /\ n \in Nat /\ k \in Nat /\ k <= n /\ written \in Seq(Messages)
        /\ Len(written') = n + 1 /\ written'[n + 1] = m
        /\ \A j \in 1 .. n : written'[j] = written[j]
    BY AppendProperties DEF WireTypes, ReadSoFar
  <1>2. f \in Seq(Nat)
    BY FrameIs
  <1>3. Frames \in [1 .. n -> Seq(Nat)]
    BY FramesAreCells
  <1>4. PICK h : Follows(h, Frames, n) /\ u = Expected(h)
    BY DEF ToCome
  <1> HIDE DEF f, n, k
  <1>5. h \in [0 .. n -> Seq(Nat)] /\ h[n] = <<>> /\ \A j \in 1 .. n : h[j - 1] = Frames[j] \o h[j]
    BY <1>4 DEF Follows
  <1>6. PICK g \in [0 .. n + 1 -> Seq(Nat)] :
          g[n + 1] = <<>> /\ \A j \in 0 .. n : g[j] = h[j] \o f
    <2> DEFINE e == [j \in 0 .. n + 1 |-> IF j = n + 1 THEN <<>> ELSE h[j] \o f]
    <2>1. ASSUME NEW j \in 0 .. n PROVE e[j] = h[j] \o f /\ e[j] \in Seq(Nat)
      <3>1. j \in 0 .. n + 1 /\ j # n + 1 /\ h[j] \in Seq(Nat)
        BY <1>1, <1>5
      <3>2. h[j] \o f \in Seq(Nat)
        BY <1>2, <3>1, CellsJoin
      <3> QED BY <3>1, <3>2
    <2>2. e[n + 1] = <<>> /\ <<>> \in Seq(Nat)
      BY <1>1
    <2>3. \A j \in 0 .. n + 1 : e[j] \in Seq(Nat)
      <3>1. \A j \in 0 .. n + 1 : j \in 0 .. n \/ j = n + 1
        BY <1>1
      <3> HIDE DEF e
      <3> QED BY <2>1, <2>2, <3>1
    <2>4. e = [j \in 0 .. n + 1 |-> e[j]]
      OBVIOUS
    <2> HIDE DEF e
    <2>5. e \in [0 .. n + 1 -> Seq(Nat)]
      BY <2>3, <2>4
    <2> QED BY <2>1, <2>2, <2>5
  <1>7. /\ \A j \in 1 .. n : Frames'[j] = Frames[j]
        /\ Frames'[n + 1] = f
    BY <1>1 DEF Frames, f, n
  <1>8. ASSUME NEW j \in 1 .. n + 1 PROVE g[j - 1] = Frames'[j] \o g[j]
    <2>1. CASE j = n + 1
      <3>1. j - 1 = n /\ n \in 0 .. n
        BY <1>1, <2>1
      <3>2. g[n] = h[n] \o f /\ h[n] \o f = f
        BY <1>2, <1>5, <1>6, <3>1, NoCells
      <3>3. f \o <<>> = f
        BY <1>2, NoCells
      <3> QED BY <1>6, <1>7, <2>1, <3>1, <3>2, <3>3
    <2>2. CASE j # n + 1
      <3>1. j \in 1 .. n /\ j \in 0 .. n /\ j - 1 \in 0 .. n
        BY <1>1, <2>2
      <3>2. Frames[j] \in Seq(Nat) /\ h[j] \in Seq(Nat)
        BY <1>3, <1>5, <3>1
      <3>3. (Frames[j] \o h[j]) \o f = Frames[j] \o (h[j] \o f)
        BY <1>2, <3>2, CellsAssociate
      <3>4. h[j - 1] = Frames[j] \o h[j]
        BY <1>5, <3>1
      <3>5. g[j - 1] = h[j - 1] \o f /\ g[j] = h[j] \o f /\ Frames'[j] = Frames[j]
        BY <1>6, <1>7, <3>1
      <3> QED BY <3>3, <3>4, <3>5, Zenon
    <2> QED BY <2>1, <2>2
  <1>9. Follows(g, Frames', n + 1)
    BY <1>6, <1>8 DEF Follows
  <1>10. Follows(g, Frames, Len(written))'
    BY <1>1, <1>9
  <1>11. u \o f = Expected(g)'
    <2>1. CASE want = 0
      <3>1. u = h[k] /\ Expected(g)' = g[k]
        BY <1>4, <2>1 DEF Expected, k
      <3>2. k \in 0 .. n
        BY <1>1
      <3> QED BY <1>6, <3>1, <3>2
    <2>2. CASE want # 0
      <3> DEFINE p == Payload(written[k + 1])
      <3>1. k + 1 \in 1 .. n /\ k + 1 \in 0 .. n
        BY <1>1, <2>2 DEF ReadSoFar, k, n
      <3>2. p \in Seq(Nat)
        <4>1. written[k + 1] \in Messages /\ Encodes(written[k + 1])
          BY <1>1, <3>1 DEF WireTypes, n
        <4> QED BY <4>1, FrameIs
      <3>3. u = p \o h[k + 1]
        BY <1>4, <2>2 DEF Expected, k
      <3>4. written'[k + 1] = written[k + 1]
        BY <1>1, <3>1
      <3>5. Expected(g)' = p \o g[k + 1]
        BY <2>2, <3>4 DEF Expected, k
      <3> HIDE DEF p
      <3>6. h[k + 1] \in Seq(Nat) /\ g[k + 1] = h[k + 1] \o f
        BY <1>5, <1>6, <3>1
      <3>7. (p \o h[k + 1]) \o f = p \o (h[k + 1] \o f)
        BY <1>2, <3>2, <3>6, CellsAssociate
      <3> QED BY <3>3, <3>5, <3>6, <3>7, Zenon
    <2> QED BY <2>1, <2>2
  <1> QED BY <1>10, <1>11 DEF ToCome, f

LEMMA WriteMessageKeeps ==
    ASSUME WireConstantsOK, WireInv, NEW w \in Writers, WriteMessage(w) PROVE WireInv'
PROOF
  <1>1. PICK m \in Offered :
          Encodes(m) /\ left' = [left EXCEPT ![w] = Frame(m)] /\ written' = Append(written, m)
    BY DEF WriteMessage
  <1>2. /\ writing = Nobody /\ writing' = w /\ left[w] = <<>>
        /\ UNCHANGED <<pipe, broken, want, stopped, received>>
    BY DEF WriteMessage, HasMutex
  <1>3. m \in Messages
    BY DEF WireConstantsOK, Messages
  <1>4. /\ WireTypes /\ OneWriter /\ ReadSoFar /\ InStep /\ (stopped => broken)
        /\ Nobody \notin Writers /\ Len(written) \in Nat /\ Len(received) \in Nat
    BY DEF WireInv, WireConstantsOK, WireTypes, ReadSoFar
  <1>5. Frame(m) \in Seq(Nat)
    BY <1>1, <1>3, FrameIs
  <1>6. /\ written' \in Seq(Messages) /\ Len(written') = Len(written) + 1
        /\ written'[Len(written) + 1] = m
        /\ \A j \in 1 .. Len(written) : written'[j] = written[j]
    BY <1>1, <1>3, <1>4, AppendProperties DEF WireTypes
  <1>7. WireTypes'
    <2>1. \A j \in 1 .. Len(written') : Encodes(written'[j])
      <3>1. \A j \in 1 .. Len(written) + 1 : j \in 1 .. Len(written) \/ j = Len(written) + 1
        BY <1>4
      <3> QED BY <1>1, <1>4, <1>6, <3>1 DEF WireTypes
    <2>2. left' \in [Writers -> Seq(Nat)] /\ writing' \in Writers \cup {Nobody}
      BY <1>1, <1>2, <1>4, <1>5 DEF WireTypes
    <2> QED BY <1>2, <1>4, <1>6, <2>1, <2>2 DEF WireTypes
  <1>8. OneWriter'
    BY <1>1, <1>2, <1>4 DEF OneWriter, WireTypes
  <1>9. ReadSoFar'
    <2>1. \A j \in 1 .. Len(received) : j \in 1 .. Len(written)
      BY <1>4 DEF ReadSoFar
    <2>2. want # 0 => written'[Len(received) + 1] = written[Len(received) + 1]
      BY <1>4, <1>6 DEF ReadSoFar
    <2> QED BY <1>2, <1>4, <1>6, <2>1, <2>2 DEF ReadSoFar
  <1>10. InStep'
    <2>1. PICK rest \in Seq(Nat) : ToCome(pipe \o rest) /\ (~broken => rest = Unwritten)
      BY <1>4 DEF InStep
    <2>2. pipe \in Seq(Nat) /\ pipe \o rest \in Seq(Nat)
      BY <1>4, <2>1, CellsJoin DEF WireTypes
    <2>3. ToCome((pipe \o rest) \o Frame(m))'
      <3> DEFINE u == pipe \o rest
      <3>1. \A v \in Seq(Nat) : ToCome(v) => ToCome(v \o Frame(m))'
        BY <1>1, <1>2, <1>3, <1>4, OneMoreToCome
      <3>2. PICK v \in Seq(Nat) : v = u
        BY <2>2
      <3>3. ToCome(v)
        BY <2>1, <3>2
      <3>4. ToCome(v \o Frame(m))'
        BY <3>1, <3>3
      <3>5. v = (pipe \o rest)'
        BY <1>2, <3>2
      <3> QED BY <3>4, <3>5
    <2>4. (pipe \o rest) \o Frame(m) = pipe \o (rest \o Frame(m))
      BY <1>5, <2>1, <2>2, CellsAssociate
    <2>5. ToCome(pipe \o (rest \o Frame(m)))'
      BY <1>2, <2>3, <2>4
    <2>6. rest \o Frame(m) \in Seq(Nat)
      BY <1>5, <2>1, CellsJoin
    <2>7. Unwritten' = Frame(m)
      BY <1>1, <1>2, <1>4 DEF Unwritten, WireTypes
    <2>8. ~broken => rest \o Frame(m) = Frame(m)
      BY <1>2, <1>5, <2>1, NoCells DEF Unwritten
    <2> QED BY <1>2, <2>5, <2>6, <2>7, <2>8 DEF InStep
  <1> QED BY <1>2, <1>4, <1>7, <1>8, <1>9, <1>10 DEF WireInv

\* Nothing that the messages and the reader's place depend on has changed.
LEMMA SameToCome ==
    ASSUME UNCHANGED <<written, received, want>>, NEW u PROVE ToCome(u)' <=> ToCome(u)
PROOF
  <1>1. Frames' = Frames
    BY DEF Frames
  <1>2. \A h : Expected(h)' = Expected(h)
    BY DEF Expected
  <1> QED BY <1>1, <1>2 DEF ToCome

LEMMA WriteExactKeeps ==
    ASSUME WireConstantsOK, WireInv, NEW w \in Writers, WriteExact(w) PROVE WireInv'
PROOF
  <1>1. /\ left[w] # <<>> /\ writing' = Released(w)
        /\ UNCHANGED <<broken, want, stopped, received, written>>
    BY DEF WriteExact
  <1>2. /\ WireTypes /\ OneWriter /\ ReadSoFar /\ InStep /\ (stopped => broken)
        /\ Nobody \notin Writers
    BY DEF WireInv, WireConstantsOK
  <1>3. writing = w /\ left[w] \in Seq(Nat) /\ Unwritten = left[w]
    BY <1>1, <1>2 DEF OneWriter, WireTypes, Unwritten
  <1>4. PICK rest \in Seq(Nat) : ToCome(pipe \o rest) /\ (~broken => rest = Unwritten)
    BY <1>2 DEF InStep
  <1>5. ReadSoFar'
    BY <1>1, <1>2 DEF ReadSoFar
  <1>6. CASE broken
    <2>1. left' = [left EXCEPT ![w] = <<>>] /\ pipe' = pipe
      BY <1>6 DEF WriteExact
    <2>2. writing' = Nobody
      BY <1>1, <1>2, <1>3, <2>1 DEF Released, WireTypes
    <2>3. WireTypes'
      <3>1. <<>> \in Seq(Nat)
        OBVIOUS
      <3> QED BY <1>1, <1>2, <2>1, <2>2, <3>1 DEF WireTypes
    <2>4. OneWriter'
      BY <1>2, <1>3, <2>1 DEF OneWriter, WireTypes
    <2>5. ToCome(pipe \o rest)'
      <3>1. PICK u : u = pipe \o rest
        OBVIOUS
      <3>2. ToCome(u)'
        BY <1>1, <1>4, <3>1, SameToCome
      <3>3. u = (pipe \o rest)'
        BY <2>1, <3>1
      <3> QED BY <3>2, <3>3
    <2>6. InStep'
      BY <1>1, <1>6, <2>5 DEF InStep
    <2> QED BY <1>1, <1>2, <1>5, <2>3, <2>4, <2>6 DEF WireInv
  <1>7. CASE ~broken
    <2>1. left' = [left EXCEPT ![w] = Tail(left[w])] /\ pipe' = Append(pipe, Head(left[w]))
      BY <1>7 DEF WriteExact
    <2>2. Tail(left[w]) \in Seq(Nat)
      BY <1>1, <1>3, HeadTailProperties
    <2>3. Append(pipe, Head(left[w])) \o Tail(left[w]) = pipe \o left[w] /\ pipe' \in Seq(Nat)
      BY <1>1, <1>2, <1>3, <2>1, GoesOver DEF WireTypes
    <2>4. left'[w] = Tail(left[w]) /\ left' \in [Writers -> Seq(Nat)]
      BY <1>2, <2>1, <2>2 DEF WireTypes
    <2>5. writing' = IF left'[w] = <<>> THEN Nobody ELSE w
      BY <1>1, <1>3 DEF Released
    <2>6. WireTypes'
      BY <1>1, <1>2, <2>3, <2>4, <2>5 DEF WireTypes
    <2>7. OneWriter'
      <3>1. \A v \in Writers : v # w => left'[v] = <<>>
        BY <1>2, <1>3, <2>1 DEF OneWriter, WireTypes
      <3> QED BY <2>5, <3>1 DEF OneWriter
    <2>8. Unwritten' = left'[w]
      BY <1>2, <2>5 DEF Unwritten
    <2>9. ToCome(pipe \o left[w])
      BY <1>3, <1>4, <1>7
    <2>10. InStep'
      <3>1. PICK u : u = pipe \o left[w]
        OBVIOUS
      <3>2. ToCome(u)'
        BY <1>1, <2>9, <3>1, SameToCome
      <3>3. PICK t \in Seq(Nat) : t = Tail(left[w])
        BY <2>2
      <3>4. u = pipe' \o t
        BY <2>1, <2>3, <3>1, <3>3
      <3>5. ToCome(pipe \o t)'
        BY <3>2, <3>4
      <3>6. t = Unwritten'
        BY <2>4, <2>8, <3>3
      <3> QED BY <3>5, <3>6 DEF InStep
    <2> QED BY <1>1, <1>2, <1>5, <2>6, <2>7, <2>10 DEF WireInv
  <1> QED BY <1>6, <1>7

\* What is to come to a reader that has not read all, by the place that it has reached.
LEMMA NextToCome ==
    ASSUME WireConstantsOK, WireTypes, ReadSoFar, NEW u, ToCome(u), u # <<>> \/ want # 0
    PROVE  LET m == written[Len(received) + 1] IN
           /\ Len(received) < Len(written) /\ m \in Messages /\ Encodes(m)
           /\ \E h :
                 /\ Follows(h, Frames, Len(written)) /\ h[Len(received) + 1] \in Seq(Nat)
                 /\ u = IF want = 0
                        THEN <<Len(Payload(m))>> \o (Payload(m) \o h[Len(received) + 1])
                        ELSE Payload(m) \o h[Len(received) + 1]
PROOF
  <1> DEFINE n == Len(written)
             k == Len(received)
             m == written[k + 1]
  <1>1. n \in Nat /\ k \in Nat /\ k <= n /\ want \in Nat
    BY DEF WireTypes, ReadSoFar
  <1>2. PICK h : Follows(h, Frames, n) /\ u = Expected(h)
    BY DEF ToCome
  <1>3. k < n
    <2>1. CASE want = 0
      <3>1. u = h[k] /\ h[n] = <<>>
        BY <1>2, <2>1 DEF Expected, Follows
      <3>2. k # n
        BY <2>1, <3>1
      <3> QED BY <1>1, <3>2
    <2>2. CASE want # 0
      BY <2>2 DEF ReadSoFar
    <2> QED BY <2>1, <2>2
  <1>4. k + 1 \in 1 .. n /\ k + 1 \in 0 .. n /\ k + 1 - 1 = k
    BY <1>1, <1>3
  <1>5. m \in Messages /\ Encodes(m)
    BY <1>4 DEF WireTypes
  <1>6. Frames[k + 1] = <<Len(Payload(m))>> \o Payload(m)
    BY <1>4 DEF Frames, Frame
  <1>7. h[k + 1] \in Seq(Nat) /\ h[k] = Frames[k + 1] \o h[k + 1]
    <2>1. h \in [0 .. n -> Seq(Nat)] /\ \A j \in 1 .. n : h[j - 1] = Frames[j] \o h[j]
      BY <1>2 DEF Follows
    <2> DEFINE i == k + 1
    <2>2. i \in 1 .. n /\ i \in 0 .. n /\ i - 1 = k
      BY <1>4
    <2> HIDE DEF n, k, m, i
    <2>3. h[i] \in Seq(Nat) /\ h[i - 1] = Frames[i] \o h[i]
      BY <2>1, <2>2
    <2>4. h[k] = Frames[i] \o h[i]
      BY <2>2, <2>3
    <2> QED BY <2>3, <2>4 DEF i
  <1> DEFINE p == Payload(m)
             l == <<Len(p)>>
             t == h[k + 1]
  <1>8. l \in Seq(Nat) /\ p \in Seq(Nat)
    BY <1>5, FrameIs
  <1>9. (l \o p) \o t = l \o (p \o t)
    <2>1. t \in Seq(Nat)
      BY <1>7
    <2> HIDE DEF l, p, t
    <2> QED BY <1>8, <2>1, CellsAssociate
  <1>10. u = IF want = 0 THEN l \o (p \o t) ELSE p \o t
    <2>1. u = IF want = 0 THEN h[k] ELSE p \o t
      BY <1>2 DEF Expected
    <2>2. h[k] = l \o (p \o t)
      BY <1>6, <1>7, <1>9
    <2> QED BY <2>1, <2>2
  <1> QED BY <1>2, <1>3, <1>5, <1>7, <1>10

LEMMA ReadLengthKeeps == ASSUME WireConstantsOK, WireInv, ReadLength PROVE WireInv'
PROOF
  <1> DEFINE k == Len(received)
             m == written[k + 1]
             p == Payload(m)
  <1>1. /\ want = 0 /\ pipe # <<>> /\ pipe' = Tail(pipe)
        /\ UNCHANGED <<writing, left, broken, received, written>>
    BY DEF ReadLength
  <1>2. WireTypes /\ OneWriter /\ ReadSoFar /\ InStep /\ (stopped => broken) /\ pipe \in Seq(Nat)
    BY DEF WireInv, WireTypes
  <1>3. PICK rest \in Seq(Nat) : ToCome(pipe \o rest) /\ (~broken => rest = Unwritten)
    BY <1>2 DEF InStep
  <1>4. pipe \o rest # <<>>
    BY <1>1, <1>2, ConcatEqualIffEmpty
  <1>5. /\ k < Len(written) /\ m \in Messages /\ Encodes(m)
        /\ \E h : /\ Follows(h, Frames, Len(written)) /\ h[k + 1] \in Seq(Nat)
                  /\ pipe \o rest = <<Len(p)>> \o (p \o h[k + 1])
    BY <1>1, <1>2, <1>3, <1>4, NextToCome
  <1>6. PICK h : /\ Follows(h, Frames, Len(written)) /\ h[k + 1] \in Seq(Nat)
                  /\ pipe \o rest = <<Len(p)>> \o (p \o h[k + 1])
    BY <1>5
  <1>7. PICK t \in Seq(Nat) : t = h[k + 1]
    BY <1>6
  <1>8. /\ Follows(h, Frames, Len(written)) /\ t = h[k + 1]
        /\ pipe \o rest = <<Len(p)>> \o (p \o t)
    BY <1>6, <1>7
  <1>9. p \in Seq(Nat) /\ <<Len(p)>> \in Seq(Nat) /\ Len(p) \in 1 .. MaxCells
    BY <1>5, FrameIs
  <1>10. Head(pipe) = Len(p) /\ Tail(pipe) \in Seq(Nat) /\ Tail(pipe) \o rest = p \o t
    <2> DEFINE l == <<Len(p)>>
               d == p \o t
    <2>1. d \in Seq(Nat)
      BY <1>8, <1>9, CellsJoin
    <2>2. l \in Seq(Nat) /\ Len(l) = 1 /\ l[1] = Len(p) /\ pipe \o rest = l \o d
      BY <1>8, <1>9
    <2>3. 1 <= Len(pipe) /\ Len(pipe) \in Nat
      BY <1>1, <1>2
    <2> HIDE DEF l, d
    <2>4. SubSeq(pipe, 1, Len(l)) = l /\ SubSeq(pipe, Len(l) + 1, Len(pipe)) \o rest = d
      <3>1. Len(l) <= Len(pipe)
        BY <2>2, <2>3
      <3>2. pipe \in Seq(Nat) /\ rest \in Seq(Nat) /\ l \in Seq(Nat) /\ pipe \o rest = l \o d
        BY <1>2, <1>3, <2>2
      <3> QED BY <2>1, <3>1, <3>2, CutOff, Zenon
    <2>5. Tail(pipe) = SubSeq(pipe, 2, Len(pipe)) /\ Tail(pipe) \in Seq(Nat)
      BY <1>1, <1>2, TailIsSubSeq, HeadTailProperties
    <2>6. Len(l) + 1 = 2
      BY <2>2
    <2>7. Head(pipe) = l[1]
      <3>1. 1 \in 1 .. Len(pipe) /\ 1 \in 1 .. Len(pipe)
        BY <2>3
      <3>2. Head(SubSeq(pipe, 1, Len(pipe))) = pipe[1]
        BY <1>2, <2>3, <3>1
      <3>3. SubSeq(pipe, 1, 1)[1] = pipe[1]
        BY <1>2, <2>3
      <3>4. SubSeq(pipe, 1, 1) = l
        BY <2>2, <2>4
      <3>5. Head(pipe) = pipe[1]
        BY <1>1, <1>2
      <3> QED BY <3>3, <3>4, <3>5
    <2> QED BY <2>2, <2>4, <2>5, <2>6, <2>7 DEF d
  <1>11. want' = Len(p) /\ UNCHANGED stopped
    BY <1>9, <1>10 DEF ReadLength, CanBe
  <1>12. WireTypes'
    BY <1>1, <1>2, <1>9, <1>10, <1>11 DEF WireTypes
  <1>13. OneWriter'
    BY <1>1, <1>2 DEF OneWriter
  <1>14. ReadSoFar'
    BY <1>1, <1>2, <1>5, <1>11 DEF ReadSoFar
  <1>15. InStep'
    <2>1. Frames' = Frames
      BY <1>1 DEF Frames
    <2>2. want' # 0
      BY <1>9, <1>11
    <2>3. Expected(h)' = p \o t
      BY <1>1, <1>8, <2>2 DEF Expected
    <2>4. Follows(h, Frames, Len(written))'
      BY <1>1, <1>8, <2>1
    <2>5. (pipe \o rest)' = p \o t
      BY <1>1, <1>10
    <2>6. ToCome(pipe \o rest)'
      BY <2>3, <2>4, <2>5 DEF ToCome
    <2>7. (~broken => rest = Unwritten)'
      BY <1>1, <1>3 DEF Unwritten
    <2> QED BY <2>6, <2>7 DEF InStep
  <1> QED BY <1>1, <1>2, <1>11, <1>12, <1>13, <1>14, <1>15 DEF WireInv

LEMMA ReadPayloadKeeps == ASSUME WireConstantsOK, WireInv, ReadPayload PROVE WireInv'
PROOF
  <1> DEFINE k == Len(received)
             m == written[k + 1]
             p == Payload(m)
  <1>1. /\ want > 0 /\ Len(pipe) >= want /\ pipe' = SubSeq(pipe, want + 1, Len(pipe)) /\ want' = 0
        /\ UNCHANGED <<writing, left, broken, written>>
    BY DEF ReadPayload
  <1>2. /\ WireTypes /\ OneWriter /\ ReadSoFar /\ InStep /\ (stopped => broken)
        /\ pipe \in Seq(Nat) /\ want \in Nat /\ k \in Nat /\ Len(written) \in Nat
        /\ received \in Seq(Messages)
    BY DEF WireInv, WireTypes, ReadSoFar
  <1>3. PICK rest \in Seq(Nat) : ToCome(pipe \o rest) /\ (~broken => rest = Unwritten)
    BY <1>2 DEF InStep
  <1>4. want # 0 /\ want = Len(p)
    BY <1>1, <1>2 DEF ReadSoFar
  <1>5. /\ k < Len(written) /\ m \in Messages /\ Encodes(m)
        /\ \E h : /\ Follows(h, Frames, Len(written)) /\ h[k + 1] \in Seq(Nat)
                  /\ pipe \o rest = p \o h[k + 1]
    BY <1>2, <1>3, <1>4, NextToCome
  <1>6. PICK h : /\ Follows(h, Frames, Len(written)) /\ h[k + 1] \in Seq(Nat)
                  /\ pipe \o rest = p \o h[k + 1]
    BY <1>5
  <1>7. PICK t \in Seq(Nat) : t = h[k + 1]
    BY <1>6
  <1>8. Follows(h, Frames, Len(written)) /\ t = h[k + 1] /\ pipe \o rest = p \o t
    BY <1>6, <1>7
  <1>9. p \in Seq(Nat) /\ Decode(p) = {m}
    BY <1>5, FrameIs
  <1>10. SubSeq(pipe, 1, want) = p /\ pipe' \in Seq(Nat) /\ pipe' \o rest = t
    <2> HIDE DEF p
    <2>1. Len(p) <= Len(pipe)
      BY <1>1, <1>2, <1>4
    <2>2. pipe \o rest = p \o t
      BY <1>8
    <2>3. /\ SubSeq(pipe, 1, Len(p)) = p /\ SubSeq(pipe, Len(p) + 1, Len(pipe)) \in Seq(Nat)
          /\ SubSeq(pipe, Len(p) + 1, Len(pipe)) \o rest = t
      BY <1>2, <1>9, <2>1, <2>2, CutOff
    <2> QED BY <1>1, <1>4, <2>3
  <1>11. received' = Append(received, m) /\ UNCHANGED stopped
    BY <1>9, <1>10 DEF ReadPayload
  <1>12. /\ received' \in Seq(Messages) /\ Len(received') = k + 1 /\ received'[k + 1] = m
         /\ \A j \in 1 .. k : received'[j] = received[j]
    <2> HIDE DEF m
    <2> QED BY <1>2, <1>5, <1>11, AppendProperties
  <1>13. WireTypes'
    BY <1>1, <1>2, <1>10 DEF WireTypes
  <1>14. OneWriter'
    BY <1>1, <1>2 DEF OneWriter
  <1>15. ReadSoFar'
    <2>1. \A j \in 1 .. k + 1 : j \in 1 .. k \/ j = k + 1
      BY <1>2
    <2>2. \A j \in 1 .. k + 1 : received'[j] = written[j]
      BY <1>2, <1>12, <2>1 DEF ReadSoFar
    <2>3. k + 1 <= Len(written)
      BY <1>2, <1>5
    <2> QED BY <1>1, <1>12, <2>2, <2>3 DEF ReadSoFar
  <1>16. InStep'
    <2>1. Frames' = Frames
      BY <1>1 DEF Frames
    <2>2. Expected(h)' = t
      BY <1>1, <1>8, <1>12 DEF Expected
    <2>3. Follows(h, Frames, Len(written))'
      BY <1>1, <1>8, <2>1
    <2>4. (pipe \o rest)' = t
      BY <1>10
    <2>5. ToCome(pipe \o rest)'
      BY <2>2, <2>3, <2>4 DEF ToCome
    <2>6. (~broken => rest = Unwritten)'
      BY <1>1, <1>3 DEF Unwritten
    <2> QED BY <2>5, <2>6 DEF InStep
  <1> QED BY <1>1, <1>2, <1>11, <1>13, <1>14, <1>15, <1>16 DEF WireInv

LEMMA BreakKeeps == ASSUME WireConstantsOK, WireInv, Break PROVE WireInv'
PROOF
  <1>1. broken' /\ pipe' \in {pipe, <<>>} /\ UNCHANGED <<writing, left, want, stopped, received, written>>
    BY DEF Break
  <1>2. WireTypes /\ OneWriter /\ ReadSoFar /\ InStep /\ pipe \in Seq(Nat) /\ <<>> \in Seq(Nat)
    BY DEF WireInv, WireTypes
  <1>3. PICK rest \in Seq(Nat) : ToCome(pipe \o rest)
    BY <1>2 DEF InStep
  <1>4. WireTypes' /\ OneWriter' /\ ReadSoFar'
    BY <1>1, <1>2 DEF WireTypes, OneWriter, ReadSoFar
  <1>5. PICK u \in Seq(Nat) : u = pipe \o rest
    BY <1>2, CellsJoin
  <1>6. ToCome(u)'
    BY <1>1, <1>3, <1>5, SameToCome
  <1>7. \E t \in Seq(Nat) : u = pipe' \o t
    <2>1. <<>> \o u = u
      BY <1>5, NoCells
    <2> QED BY <1>1, <1>5, <2>1
  <1>8. PICK t \in Seq(Nat) : u = pipe' \o t
    BY <1>7
  <1>9. ToCome(pipe \o t)'
    BY <1>6, <1>8
  <1>10. InStep'
    BY <1>1, <1>9 DEF InStep
  <1> QED BY <1>1, <1>4, <1>10 DEF WireInv

LEMMA NextKeepsWireInv ==
    ASSUME WireConstantsOK, WireInv, [WireNext]_wireVars PROVE WireInv'
PROOF
  <1>1. CASE ReadFails
    BY <1>1 DEF ReadFails, WireInv, WireTypes, OneWriter, ReadSoFar, InStep, ToCome, Expected,
       Frames, Unwritten
  <1>2. CASE UNCHANGED wireVars
    BY <1>2 DEF wireVars, WireInv, WireTypes, OneWriter, ReadSoFar, InStep, ToCome, Expected,
       Frames, Unwritten
  <1> QED BY <1>1, <1>2, WriteMessageKeeps, WriteExactKeeps, ReadLengthKeeps, ReadPayloadKeeps,
             BreakKeeps DEF WireNext

\* Whoever writes at the same time and wherever the pipe breaks, the messages that are read are
\* those that were written, whole and in order, and no frame that was written is refused.
THEOREM FramesArriveWhole == ASSUME WireConstantsOK PROVE WireSpec => []MessagesArriveWhole
PROOF
  <1>1. WireInit => WireInv
    BY InitWireInv
  <1>2. WireInv /\ [WireNext]_wireVars => WireInv'
    BY NextKeepsWireInv
  <1>3. WireInv => MessagesArriveWhole
    <2> SUFFICES ASSUME WireInv PROVE MessagesArriveWhole
      OBVIOUS
    <2> DEFINE k == Len(received)
               s == SubSeq(written, 1, k)
    <2>1. /\ received \in Seq(Messages) /\ written \in Seq(Messages)
          /\ k \in Nat /\ k <= Len(written) /\ Len(written) \in Nat
          /\ \A j \in 1 .. k : received[j] = written[j]
      BY DEF WireInv, ReadSoFar, WireTypes
    <2>2. s \in Seq(Messages) /\ Len(s) = k /\ \A j \in 1 .. k : s[j] = written[j]
      BY <2>1
    <2>3. received = s
      <3>1. \A j \in 1 .. k : received[j] = s[j]
        BY <2>1, <2>2
      <3> HIDE DEF s
      <3> QED BY <2>1, <2>2, <3>1, SeqEqual
    <2>4. SubSeq(received, 1, k) = received
      BY <2>1, SubSeqFull
    <2> QED BY <2>1, <2>3, <2>4 DEF MessagesArriveWhole, IsPrefix, WireInv
  <1> QED BY <1>1, <1>2, <1>3, PTL DEF WireSpec
=============================================================================
