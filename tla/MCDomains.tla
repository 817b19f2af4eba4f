----------------------------- MODULE MCDomains -----------------------------
(* The parts of the console that hold their own state and share none: the  *)
(* authorities of the V5 core, the lists of the shell, the trust of        *)
(* packages, the frames on the pipe.  Each behaviour is one of a single    *)
(* part, on an instance given here.                                        *)
EXTENDS Checkout, LibraryDownloads, ShellKernel, ListView, LaunchChain, PackageGate,
    CloudDomain, SocialDomain, AccountRecords, Wire

VARIABLE part       \* the part whose behaviour it is

\* The controllers of ProductionShellIntegration, all but one of them, and one of them twice.
Production ==
    <<"Home", "Discover", "Store", "Library", "CloudPlay", "Downloads", "Friends", "Achievements",
      "Capture", "Profile", "Devices", "Settings", "GameDetail", "Wishlist", "Checkout",
      "Notifications", "Import">>
MCCompositions == {Production, Tail(Production), Append(Production, "Home")}

\* The package of a content has its name.
MCPackage == [game \in Games |-> game]

\* One message fits exactly, and three are refused for what is in them.
Message(type, fields) == [type |-> type, id |-> 1, fields |-> fields]
MCOffered ==
    {Message(1, <<>>), Message(2, <<<<2, 1>>, <<>>>>), Message(1, <<<<9>>>>),
     Message(1, <<<<1, 1, 1, 1>>>>), Message(3, <<<<>>, <<>>, <<>>>>)}

ASSUME ShopAssumption == ShopConstantsOK
ASSUME LibraryAssumption == LibraryConstantsOK
ASSUME KernelAssumption == KernelConstantsOK
ASSUME ListAssumption == ListConstantsOK
ASSUME ChainAssumption == ChainConstantsOK
ASSUME GateAssumption == GateConstantsOK
ASSUME CloudAssumption == CloudConstantsOK
ASSUME SocialAssumption == SocialConstantsOK
ASSUME RecordsAssumption == RecordsConstantsOK
ASSUME WireAssumption == WireConstantsOK

-----------------------------------------------------------------------------
Behave(p) == part = p /\ UNCHANGED part
LibraryStep ==
    /\ Behave("library") /\ LibraryNext
    /\ UNCHANGED <<vars, kernel, list, chain, cloudVars, socialVars, recordVars, gateVars, wireVars>>
KernelStep ==
    /\ Behave("kernel") /\ KernelNext
    /\ UNCHANGED <<libraryVars, list, vars, chain, cloudVars, socialVars, recordVars, gateVars, wireVars>>
ListStep ==
    /\ Behave("list") /\ ListNext
    /\ UNCHANGED <<libraryVars, kernel, vars, chain, cloudVars, socialVars, recordVars, gateVars, wireVars>>
ShopStep ==
    /\ Behave("shop") /\ Next
    /\ UNCHANGED <<libraryVars, kernel, list, chain, cloudVars, socialVars, recordVars, gateVars, wireVars>>
ChainStep ==
    /\ Behave("chain") /\ ChainNext
    /\ UNCHANGED <<libraryVars, kernel, list, vars, cloudVars, socialVars, recordVars, gateVars, wireVars>>
SavesStep ==
    /\ Behave("saves") /\ CloudNext
    /\ UNCHANGED <<libraryVars, kernel, list, vars, chain, socialVars, recordVars, gateVars, wireVars>>
SocialStep ==
    /\ Behave("social") /\ SocialNext
    /\ UNCHANGED <<libraryVars, kernel, list, vars, chain, cloudVars, recordVars, gateVars, wireVars>>
RecordsStep ==
    /\ Behave("records") /\ RecordsNext
    /\ UNCHANGED <<libraryVars, kernel, list, vars, chain, cloudVars, socialVars, gateVars, wireVars>>
GateStep ==
    /\ Behave("gate") /\ GateNext
    /\ UNCHANGED <<libraryVars, kernel, list, vars, chain, cloudVars, socialVars, recordVars, wireVars>>
WireStep ==
    /\ Behave("wire") /\ WireNext
    /\ UNCHANGED <<libraryVars, kernel, list, vars, chain, cloudVars, socialVars, recordVars, gateVars>>

\* The parts at rest have one initial state.
MCInit ==
    /\ part \in {"library", "kernel", "list", "shop", "chain", "saves", "social", "records", "gate", "wire"}
    /\ Init /\ LibraryInit /\ KernelInit /\ ListInit /\ ChainInit /\ CloudInit /\ SocialInit
    /\ RecordsInit /\ GateInit /\ WireInit
    /\ part # "kernel" => controllers = Production
    /\ part # "list" => ~reread
MCNext ==
    \/ LibraryStep \/ KernelStep \/ ListStep \/ ShopStep \/ ChainStep \/ SavesStep \/ SocialStep
    \/ RecordsStep \/ GateStep \/ WireStep
MCSpec ==
    MCInit /\ [][MCNext]_<<part, libraryVars, kernel, list, vars, chain, cloudVars, socialVars, recordVars, gateVars, wireVars>>
=============================================================================
