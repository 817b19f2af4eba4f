---------------------------- MODULE LaunchChain ----------------------------
(***************************************************************************)
(* From the wish to play to a running game in the V5 core: RequestLaunch   *)
(* of src/include/v5/PlatformKernel.h and RuntimeAuthority of              *)
(* src/src/v5/RuntimeAuthority.cpp.                                        *)
(*                                                                         *)
(* The services answer as they like; the kernel and the authority check    *)
(* the answers.  Between the launch that is allowed and the session that   *)
(* is started the shell holds a descriptor, and the account may change.    *)
(* Left out: names and versions; fields that must not be empty; the        *)
(* runtime's RuntimeCore, which starts like RuntimeAuthority and keeps     *)
(* nothing.                                                                *)
(***************************************************************************)
EXTENDS Naturals, FiniteSets

CONSTANTS
    Players, Games,
    Package,            \* the package of a content
    ManagedGames,       \* the contents that need ZeroService; the others are local packages
    Capabilities,
    None

VARIABLES
    account,        \* the account of the authenticated session, or None
    descriptor,     \* the last launch that was allowed, or None
    runtime,        \* the lifecycle state of RuntimeAuthority
    identity,       \* the identity of its session
    granted,        \* the capabilities of its session
    host,           \* the identity that a process runs for, or None
    failure,        \* what the last call returned
    started         \* history: the launch and the request that the session was started with

chainSession == <<runtime, identity, granted, host, started>>
chain == <<account, descriptor, chainSession, failure>>

Sources == {"None", "LocalPackage", "ZeroService"}
Packages == {Package[c] : c \in Games}
Active == {"Starting", "Running"}

-----------------------------------------------------------------------------
(* PlatformKernel and the authority clients.                               *)

SessionBegins == account = None /\ account' \in Players /\ UNCHANGED <<descriptor, chainSession, failure>>
SessionEnds == account # None /\ account' = None /\ UNCHANGED <<descriptor, chainSession, failure>>

Entitlements == [account : Players, content : Games, source : Sources]
RequiredAuthority(content) == IF content \in ManagedGames THEN "ZeroService" ELSE "LocalPackage"

\* Why an entitlement does not allow a launch.
Refusal(content, grant) ==
    IF grant.account # account THEN "WrongAccount"
    ELSE IF grant.content # content THEN "WrongContent"
    ELSE IF grant.source # RequiredAuthority(content) THEN "WrongAuthority" ELSE "None"

Refuse(reason) == failure' = reason /\ UNCHANGED <<account, descriptor, chainSession>>

\* The catalog and the launch authority may refuse as well.  The package of the descriptor is
\* what the launch authority names: the kernel hands on what it answers.
RequestLaunch(content) ==
    \/ account = None /\ Refuse("NoAuthenticatedSession")
    \/ account # None /\ Refuse("ContentNotFound")
    \/ account # None /\ Refuse("EntitlementUnavailable")
    \/ /\ account # None
       /\ \E grant \in Entitlements :
             IF Refusal(content, grant) # "None" THEN Refuse(Refusal(content, grant))
             ELSE \/ Refuse("AuthorizationDenied")
                  \/ /\ \E package \in Packages :
                           descriptor' = [package |-> package, content |-> content,
                                          account |-> account, grant |-> grant]
                     /\ failure' = "None"
                     /\ UNCHANGED <<account, chainSession>>

-----------------------------------------------------------------------------
(* RuntimeAuthority.                                                       *)

Identities == [account : Players, package : Packages]

\* What is required of the constants.
ChainConstantsOK == None \notin Identities

\* A request names the account and the package itself.  It is wanted or not whether a
\* capability was asked for twice.
Requests == [identity : Identities, capabilities : SUBSET Capabilities, distinct : BOOLEAN]

\* What the broker grants.
GrantIsSubset(request, grant) ==
    /\ grant.identity = request.identity
    /\ grant.capabilities \subseteq request.capabilities

\* Idle, exited or failed, the authority may start a session.
\* A mutant lets it start another one beside the first.
NeverConflicts == FALSE
Conflicts == runtime \in {"Starting", "Running", "Terminating"}

Deny(reason) == failure' = reason /\ UNCHANGED <<account, descriptor, chainSession>>

Begin(request, grant) ==
    /\ identity' = request.identity
    /\ started' = [launch |-> descriptor, request |-> request]
    /\ UNCHANGED <<account, descriptor>>
    /\ \/ /\ runtime' = "Running" /\ host' = request.identity
          /\ granted' = grant.capabilities
          /\ failure' = "None"
       \/ /\ runtime' = "Failed" /\ granted' = {}
          /\ failure' = "ProcessStartFailed"
          /\ UNCHANGED host

Start(request) ==
    /\ descriptor # None
    /\ IF Conflicts THEN Deny("StateConflict")
       ELSE IF request.identity.package # descriptor.package THEN Deny("InvalidIdentity")
       ELSE IF ~request.distinct THEN Deny("InvalidCapabilityRequest")
       ELSE \/ Deny("PolicyDenied")
            \/ Deny("CapabilityDenied")
            \/ \E grant \in [identity : Identities, capabilities : SUBSET Capabilities] :
                  IF GrantIsSubset(request, grant) THEN Begin(request, grant) ELSE Deny("CapabilityEscalation")

Poll ==
    /\ runtime \in Active
    /\ runtime' \in {"Starting", "Running", "Exited", "Failed"}
    /\ host' = IF runtime' \in Active THEN host ELSE None
    /\ UNCHANGED <<account, descriptor, identity, granted, failure, started>>

Terminate ==
    /\ runtime \in Active
    /\ runtime' = "Exited" /\ host' = None
    /\ UNCHANGED <<account, descriptor, identity, granted, failure, started>>

-----------------------------------------------------------------------------
ChainInit ==
    /\ account = None /\ descriptor = None
    /\ runtime = "Idle" /\ identity = None /\ granted = {} /\ host = None
    /\ failure = "None" /\ started = None
ChainNext ==
    \/ SessionBegins \/ SessionEnds \/ Poll \/ Terminate
    \/ \E content \in Games : RequestLaunch(content)
    \/ \E request \in Requests : Start(request)
ChainSpec == ChainInit /\ [][ChainNext]_chain

-----------------------------------------------------------------------------
(* Properties.                                                             *)

\* Account, content and authority of a launch agree
\* (docs/ZERO_CORE_ARCHITECTURE_V5.md:55).
Agrees(launch) ==
    /\ launch.grant.account = launch.account
    /\ launch.grant.content = launch.content
    /\ launch.grant.source = RequiredAuthority(launch.content)

\* What runs is the package of the descriptor that the kernel handed out for an entitlement of
\* that account and content, with no more than it was asked for, and the process
\* is the one that the authority tells of, through every refusal, failure and later launch.
RunsWhatWasAllowed ==
    /\ host # None <=> runtime \in Active
    /\ runtime \in Active =>
          /\ host = identity
          /\ identity.package = started.launch.package
          /\ Agrees(started.launch)
          /\ granted \subseteq started.request.capabilities

\* The game runs for the account that it was allowed for (RuntimeAuthority.cpp:17).
RunsForItsAccount == runtime \in Active => identity.account = started.launch.account

\* A descriptor outlives neither the session of the account nor its entitlement.
AllowedIsSignedIn == runtime \in Active => account = started.launch.account
=============================================================================
