---------------------------- MODULE CloudDomain ----------------------------
(***************************************************************************)
(* Saves in the cloud and games from the cloud:                            *)
(* src/src/v5/CloudDomain.cpp.                                             *)
(*                                                                         *)
(* Several devices of one account play, keep a save each, and follow the   *)
(* decision of CloudSaveCoordinator whenever they synchronise; who uploads *)
(* and downloads, and who asks the player, is not in the repository.  A    *)
(* stream is started in the region that answers fastest, with whatever the *)
(* service allocates.  A save is its content, a number, and the name of    *)
(* its version.                                                            *)
(***************************************************************************)
EXTENDS Integers, FiniteSets

CONSTANTS
    Devices, NoSave,
    VersionIds,             \* devices that play offline may give the same name
    ConflictPolicies,       \* subset of {"RequireChoice", "PreferLocal", "PreferCloud"}
    MaxSaves,               \* bound: saves that are made
    Regions, MaxLatency, MaxStreams

VARIABLES
    local,          \* the save on each device
    cloud,          \* the save in the cloud
    made,           \* how many saves were made
    wanted,         \* history: contents that nobody has played on from, or decided against
    stream,         \* the allocation that the page holds
    allocated       \* history: what the service has allocated and not got back

\* What is required of the constants.
CloudConstantsOK ==
    /\ NoSave \notin [content : Nat, versionId : VersionIds]
    /\ ConflictPolicies \subseteq {"RequireChoice", "PreferLocal", "PreferCloud"}

saveVars == <<local, cloud, made, wanted>>
streamVars == <<stream, allocated>>
cloudVars == <<local, cloud, made, wanted, stream, allocated>>

-----------------------------------------------------------------------------
(* Saves.                                                                  *)

\* What a synchronisation does with two saves.  A mutant takes that of the cloud without
\* asking for the policy.
DecideForCloud(mine, theirs, issued, policy) ==
    IF theirs # NoSave THEN "DownloadCloud" ELSE IF mine # NoSave THEN "UploadLocal" ELSE "NoOp"

\* A save of the cloud that the service did not issue, or that lacks a name, is not followed.
Decide(mine, theirs, issued, policy) ==
    IF mine = NoSave /\ theirs = NoSave THEN "NoOp"
    ELSE IF theirs # NoSave /\ ~issued THEN "Conflict"
    ELSE IF theirs = NoSave THEN "UploadLocal"
    ELSE IF mine = NoSave THEN "DownloadCloud"
    ELSE IF mine.content = theirs.content THEN "NoOp"
    ELSE IF mine.versionId = theirs.versionId THEN "Conflict"
    ELSE CASE policy = "PreferLocal" -> "UploadLocal"
           [] policy = "PreferCloud" -> "DownloadCloud"
           [] policy = "RequireChoice" -> "Conflict"

ContentOf(save) == IF save = NoSave THEN {} ELSE {save.content}

\* The game writes a save on from the one that is on the device.
Play ==
    \E d \in Devices, v \in VersionIds :
        /\ made < MaxSaves /\ made' = made + 1
        /\ local' = [local EXCEPT ![d] = [content |-> made', versionId |-> v]]
        /\ wanted' = (wanted \ ContentOf(local[d])) \cup {made'}
        /\ UNCHANGED <<cloud, streamVars>>

\* A save goes up or comes down; a policy that prefers one side decides against the other.
Upload(d, decided) ==
    /\ cloud' = local[d] /\ UNCHANGED <<local, made>>
    /\ wanted' = IF decided THEN wanted \ ContentOf(cloud) ELSE wanted

Download(d, decided) ==
    /\ local' = [local EXCEPT ![d] = cloud] /\ UNCHANGED <<cloud, made>>
    /\ wanted' = IF decided THEN wanted \ ContentOf(local[d]) ELSE wanted

Sync(d) ==
    /\ \E policy \in ConflictPolicies, issued \in BOOLEAN :
          LET decision == Decide(local[d], cloud, issued, policy)
          IN  \/ decision = "UploadLocal" /\ Upload(d, policy = "PreferLocal")
              \/ decision = "DownloadCloud" /\ Download(d, policy = "PreferCloud")
              \/ decision = "NoOp" /\ UNCHANGED saveVars
              \* The player is asked, and picks a side or neither.
              \/ decision = "Conflict" /\ (Upload(d, TRUE) \/ Download(d, TRUE) \/ UNCHANGED saveVars)
    /\ UNCHANGED streamVars

-----------------------------------------------------------------------------
(* Streams.                                                                *)

RegionRecord == [latency : 0 .. MaxLatency, capacity : BOOLEAN]
NoStream == [region |-> "none", valid |-> FALSE]

\* The service answers with a table of regions; those without capacity, or that are not the
\* service's own, do not count.
Fastest(table) ==
    LET open == {r \in Regions : table[r].capacity}
    IN  {r \in open : \A other \in open : table[r].latency <= table[other].latency}

\* An allocation that is not for this account, content and time, or not in the region that
\* was asked for, is refused.
ValidateAllocation(allocation) == allocation.valid

SameRegion(allocation, region) == allocation.region = region

StartStream ==
    \E table \in [Regions -> RegionRecord] : \E region \in Fastest(table) :
        \E allocation \in [region : Regions, valid : BOOLEAN] :
            /\ stream = NoStream
            /\ allocated < MaxStreams /\ allocated' = allocated + 1
            /\ stream' = IF ValidateAllocation(allocation) /\ SameRegion(allocation, region)
                         THEN [region |-> region, valid |-> TRUE] ELSE NoStream
            /\ UNCHANGED saveVars

\* The service may not get it back; the page may then forget the stream or try again.
StopStream ==
    /\ stream # NoStream
    /\ \/ stream' = NoStream /\ allocated' = allocated - 1
       \/ stream' \in {stream, NoStream} /\ UNCHANGED allocated
    /\ UNCHANGED saveVars

CloudInit ==
    /\ local = [d \in Devices |-> NoSave] /\ cloud = NoSave /\ made = 0 /\ wanted = {}
    /\ stream = NoStream /\ allocated = 0

CloudNext == Play \/ (\E d \in Devices : Sync(d)) \/ StartStream \/ StopStream

CloudSpec == CloudInit /\ [][CloudNext]_cloudVars

-----------------------------------------------------------------------------
\* A save that nobody has played on from, and that neither the player nor a policy has decided
\* against, is still on a device or in the cloud, whichever devices synchronise in which order.
NothingIsLostUnasked ==
    \A content \in wanted :
        content \in ContentOf(cloud) \cup UNION {ContentOf(local[d]) : d \in Devices}

\* What the service has allocated is held by the page.  Not so: StartStream forgets an allocation
\* that it refuses, and nothing gives it back.
NothingIsLeaked == allocated = IF stream = NoStream THEN 0 ELSE 1
=============================================================================
