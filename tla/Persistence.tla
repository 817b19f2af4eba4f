---------------------------- MODULE Persistence ----------------------------
(***************************************************************************)
(* What the console keeps on disk: the settings and the setup, the records *)
(* of a game, the installed game, the identity of the player.  The four    *)
(* share neither files nor memory, so a behaviour is one of a single part. *)
(***************************************************************************)
EXTENDS PlayerSettings, GameImport, PlatformStores, LocalIdentity

VARIABLE part       \* the part whose behaviour it is

Behave(p) == part = p /\ UNCHANGED part
SettingsStep == Behave("settings") /\ Next /\ UNCHANGED <<storesVars, importVars, identityVars>>
StoresStep == Behave("stores") /\ StoresNext /\ UNCHANGED <<vars, importVars, identityVars>>
ImportStep == Behave("import") /\ ImportNext /\ UNCHANGED <<vars, storesVars, identityVars>>
IdentityStep == Behave("identity") /\ IdentityNext /\ UNCHANGED <<vars, storesVars, importVars>>

\* The parts at rest have one initial state.
PersistenceInit ==
    /\ part \in {"settings", "stores", "import", "identity"}
    /\ Init /\ StoresInit /\ ImportInit /\ IdentityInit
    /\ part # "settings" => ini = {}
    /\ part # "import" => op = CHOOSE operation \in Operations : TRUE
PersistenceNext == SettingsStep \/ StoresStep \/ ImportStep \/ IdentityStep
PersistenceSpec ==
    PersistenceInit /\ [][PersistenceNext]_<<part, vars, storesVars, importVars, identityVars>>

\* What any of the stores confirmed is there.
ConfirmedIsKept == GameRecordsAreKept /\ ConfirmedIsLoaded /\ IdentityIsKept
=============================================================================
