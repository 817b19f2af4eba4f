--------------------------- MODULE MCPersistence ---------------------------
(* Two sessions of one game that has two activities and two achievements,  *)
(* two versions to import, and consoles that start one after the other or  *)
(* at the same time.                                                       *)
EXTENDS Persistence

ASSUME StoresAssumption == StoresConstantsOK
ASSUME IdentityAssumption == IdentityConstantsOK
ASSUME MissingAssumption == MissingIsNoValue

\* No property of the passing run reads the history of the player's wishes, and settings.ini is
\* not looked at any more once the table has a row that can be read.
MirrorInUse == IF HasCanonicalState(db) THEN {} ELSE ini
WithoutWishes ==
    <<part, memory, boot, db, MirrorInUse, misread, told, storesVars, importVars, identityVars>>
=============================================================================
