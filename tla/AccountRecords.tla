--------------------------- MODULE AccountRecords ---------------------------
(***************************************************************************)
(* What the console keeps of an account: achievements, devices and         *)
(* captures (src/src/v5/AchievementProfileDomain.cpp and                   *)
(* CaptureDeviceDomain.cpp).                                               *)
(*                                                                         *)
(* The service defines achievements, awards them and says what its devices *)
(* are; `sent` holds every record it has ever sent, and any of them may    *)
(* arrive at any time, again or never.  Captures are made here and go to   *)
(* the service.  Left out: profiles (a map of the last record), titles,    *)
(* rarities, records that lack a field or come from somebody else, which   *)
(* are refused.                                                            *)
(***************************************************************************)
EXTENDS Integers, FiniteSets, FiniteSetsExt, Functions

CONSTANTS
    Owners,                 \* the accounts whose records these are
    Achievements, Scores,
    Times,                  \* of an award: the service may send it again with another
    MaxSent,                \* bound: records that the service sends
    OwnedDevices, Captures

DeviceStates == {"Offline", "Online", "Revoked"}

\* What is required of the constants.
RecordsConstantsOK == Scores \subseteq Nat

VARIABLES
    sent,           \* what the service has sent: definitions, unlocks and devices
    definitions,    \* score of each definition that has arrived
    unlocks,        \* unlocks_ by key: the account and the achievement
    devices,        \* devices_: the last record of each, if any
    captures        \* captures_: state of synchronisation, if it exists

recordVars == <<sent, definitions, unlocks, devices, captures>>

NoScore == -1
NoDevice == [account |-> "none", state |-> "Offline", trusted |-> FALSE]

Definitions == {r \in sent : r.kind = "definition"}
Awards == {r \in sent : r.kind = "unlock"}

-----------------------------------------------------------------------------
(* The service.                                                            *)

Send(r) == Cardinality(sent) < MaxSent /\ sent' = sent \cup {r}

Define ==
    \E a \in Achievements, s \in Scores :
        /\ Send([kind |-> "definition", achievement |-> a, score |-> s])
        /\ UNCHANGED <<definitions, unlocks, devices, captures>>

Award ==
    \E a \in Achievements, account \in Owners, time \in Times :
        /\ \E d \in Definitions : d.achievement = a
        /\ Send([kind |-> "unlock", achievement |-> a, account |-> account, time |-> time])
        /\ UNCHANGED <<definitions, unlocks, devices, captures>>

SendDevice ==
    \E d \in OwnedDevices, account \in Owners, state \in DeviceStates, trusted \in BOOLEAN :
        /\ Send([kind |-> "device", device |-> d, account |-> account, state |-> state, trusted |-> trusted])
        /\ UNCHANGED <<definitions, unlocks, devices, captures>>

-----------------------------------------------------------------------------
(* The console.                                                            *)

ApplyDefinition ==
    \E r \in Definitions :
        /\ definitions' = [definitions EXCEPT ![r.achievement] = r.score]
        /\ UNCHANGED <<sent, unlocks, devices, captures>>

\* A mutant keeps every time of an unlock.
KeyWithTime(r) == [account |-> r.account, achievement |-> r.achievement, time |-> r.time]
UnlockKey(r) == [account |-> r.account, achievement |-> r.achievement, time |-> 0]

HasDefinition(r) == definitions[r.achievement] # NoScore

ApplyUnlock ==
    \E r \in Awards :
        /\ HasDefinition(r)
        /\ unlocks' = unlocks \cup {UnlockKey(r)}
        /\ UNCHANGED <<sent, definitions, devices, captures>>

\* The unlocks without a definition count nothing.
ScoreFor(account) ==
    SumFunctionOnSet([u \in unlocks |-> definitions[u.achievement]],
                     {u \in unlocks : u.account = account /\ HasDefinition(u)})

ApplyDevice ==
    \E r \in sent :
        /\ r.kind = "device"
        /\ devices' = [devices EXCEPT ![r.device] =
              [account |-> r.account, state |-> r.state, trusted |-> r.trusted /\ r.state # "Revoked"]]
        /\ UNCHANGED <<sent, definitions, unlocks, captures>>

CanRemoteInstall(d, account) ==
    devices[d].account = account /\ devices[d].trusted /\ devices[d].state = "Online"

\* Captures.
AddCapture ==
    \E c \in Captures :
        /\ captures[c] = "None"
        /\ captures' = [captures EXCEPT ![c] = "LocalOnly"]
        /\ UNCHANGED <<sent, definitions, unlocks, devices>>

SyncSteps == {<<"LocalOnly", "PendingUpload">>, <<"PendingUpload", "Synced">>,
              <<"PendingUpload", "Failed">>, <<"Failed", "PendingUpload">>}

SetSyncState ==
    \E c \in Captures, step \in SyncSteps :
        /\ captures[c] = step[1]
        /\ captures' = [captures EXCEPT ![c] = step[2]]
        /\ UNCHANGED <<sent, definitions, unlocks, devices>>

RecordsInit ==
    /\ sent = {} /\ unlocks = {}
    /\ definitions = [a \in Achievements |-> NoScore]
    /\ devices = [d \in OwnedDevices |-> NoDevice]
    /\ captures = [c \in Captures |-> "None"]

RecordsNext ==
    \/ Define \/ Award \/ SendDevice
    \/ ApplyDefinition \/ ApplyUnlock \/ ApplyDevice
    \/ AddCapture \/ SetSyncState

RecordsSpec == RecordsInit /\ [][RecordsNext]_recordVars

-----------------------------------------------------------------------------
\* What an account has earned by the awards: each achievement once, at the best of its scores.
Best(a) == Max({d.score : d \in {x \in Definitions : x.achievement = a}} \cup {0})
Earned(account) ==
    SumFunctionOnSet([a \in Achievements |-> Best(a)],
                     {r.achievement : r \in {x \in Awards : x.account = account}})

\* However often and in whatever order definitions and unlocks arrive, an account does not
\* score more than it earned, and every achievement that it is shown to have counts something.
ScoreIsEarned ==
    \A account \in Owners :
        /\ ScoreFor(account) <= Earned(account)
        /\ \A u \in unlocks : definitions[u.achievement] # NoScore

\* Something can be installed from afar only on a device that the service has called online and
\* trusted for that account, whatever else it has said of it since or before.  It may have been
\* revoked: an older record that arrives late is taken for a new one.
InstallsAreGranted ==
    \A d \in OwnedDevices, account \in Owners :
        CanRemoteInstall(d, account) =>
            \E r \in sent : /\ r.kind = "device" /\ r.device = d /\ r.account = account
                           /\ r.state = "Online" /\ r.trusted

\* What the console tells of an account rests on what the service has sent of it.
RecordsAreTrue == ScoreIsEarned /\ InstallsAreGranted

\* A device that has been revoked takes no installation any more.  Not so: records carry no order,
\* and an older one of the device that arrives late, or again, replaces the revocation.
RevokedStaysRevoked ==
    [][\A d \in OwnedDevices : devices[d].state = "Revoked" => devices'[d].state = "Revoked"]_recordVars
=============================================================================
