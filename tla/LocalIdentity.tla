---------------------------- MODULE LocalIdentity ----------------------------
(***************************************************************************)
(* The identity of the player on this machine                              *)
(* (src/src/LocalIdentityProvider.cpp): made at the first start, written   *)
(* aside and renamed, read at every later one.  Nothing keeps two consoles *)
(* from starting at the same time, and all of them write aside to the same *)
(* file.  Identities are numbered in the order in which they are made.     *)
(***************************************************************************)
EXTENDS Naturals

CONSTANTS Consoles, NoIdentity, Damaged, MaxIds

\* What is required of the constants; the runs assume it.
IdentityConstantsOK ==
    MaxIds \in Nat /\ NoIdentity \notin Nat /\ Damaged \notin Nat /\ NoIdentity # Damaged

VARIABLES
    file,           \* local.id: an identity, NoIdentity or Damaged
    temp,           \* local.id.tmp
    ids,            \* identities made so far
    at,             \* where Initialize of each console stands, "off" before it
    own,            \* the identity that the console makes or has, or NoIdentity
    known,          \* history: the identity on disk since nobody makes one any more, or NoIdentity
    contested       \* history: consoles that run since an identity was made beside them

identityVars == <<file, temp, ids, at, own, known, contested>>

-----------------------------------------------------------------------------
Goes(c, place, identity) == at' = [at EXCEPT ![c] = place] /\ own' = [own EXCEPT ![c] = identity]
RefuseStart(c) == Goes(c, "refused", NoIdentity)
Has(c, identity) == Goes(c, "ready", identity)

Starting(c) == at[c] \in {"looking", "making", "renaming"}
StartingBeside(c) == {d \in Consoles \ {c} : Starting(d)}
BeingMade == \E c \in Consoles : at[c] \in {"making", "renaming"}
\* An identity on disk is the player's once nobody makes another.
Settles ==
    known' = IF known = NoIdentity /\ file' \notin {NoIdentity, Damaged} /\ ~BeingMade'
             THEN file' ELSE known

\* The directory may refuse.  Before there is an identity, starts at the same time compete.
Initialize(c) ==
    /\ at[c] = "off"
    /\ \/ /\ Goes(c, "looking", NoIdentity)
          /\ contested' = IF known = NoIdentity /\ StartingBeside(c) # {}
                          THEN contested \union StartingBeside(c) \union {c} ELSE contested
       \/ RefuseStart(c) /\ UNCHANGED contested
    /\ UNCHANGED <<file, temp, ids, known>>

\* A file that is no identity is left alone.  A mutant makes another.
MakesAnother(c) == Goes(c, "making", NoIdentity)
FindsDamage(c) == RefuseStart(c)

\* A look that fails is one that finds nothing: the identity of those who run is given up.
LookFails(c) ==
    /\ Goes(c, "making", NoIdentity)
    /\ known' = NoIdentity
    /\ contested' = contested \union {d \in Consoles \ {c} : at[d] # "off"}
                              \union (IF StartingBeside(c) # {} THEN {c} ELSE {})

Look(c) ==
    /\ at[c] = "looking"
    /\ \/ file = NoIdentity /\ Goes(c, "making", NoIdentity) /\ UNCHANGED <<known, contested>>
       \/ file = Damaged /\ FindsDamage(c) /\ UNCHANGED <<known, contested>>
       \/ file \notin {NoIdentity, Damaged} /\ Has(c, file) /\ UNCHANGED <<known, contested>>
       \/ LookFails(c)
    /\ UNCHANGED <<file, temp, ids>>

\* Chance or the disk may fail.
Make(c) ==
    /\ at[c] = "making"
    /\ \/ /\ ids < MaxIds /\ ids' = ids + 1 /\ temp' = ids'
          /\ Goes(c, "renaming", ids')
       \/ RefuseStart(c) /\ UNCHANGED ids /\ temp' \in {temp, Damaged}
    /\ UNCHANGED <<file, contested>>
    /\ Settles

RenameIdentity(c) ==
    /\ at[c] = "renaming"
    /\ \/ temp # NoIdentity /\ file' = temp /\ Has(c, own[c])
       \/ RefuseStart(c) /\ UNCHANGED file
    /\ temp' = NoIdentity
    /\ Settles
    /\ UNCHANGED <<ids, contested>>

\* A console ends wherever it stands.
End(c) ==
    /\ at[c] # "off" /\ Goes(c, "off", NoIdentity)
    /\ contested' = contested \ {c}
    /\ UNCHANGED <<file, temp, ids>>
    /\ Settles

\* Another program damages the file.
DamageIdentity ==
    /\ file # NoIdentity /\ file' = Damaged
    /\ UNCHANGED <<temp, ids, at, own, known, contested>>

IdentityInit ==
    /\ file = NoIdentity /\ temp = NoIdentity /\ ids = 0 /\ known = NoIdentity /\ contested = {}
    /\ at = [c \in Consoles |-> "off"] /\ own = [c \in Consoles |-> NoIdentity]
IdentityNext ==
    \/ DamageIdentity
    \/ \E c \in Consoles : Initialize(c) \/ Look(c) \/ Make(c) \/ RenameIdentity(c) \/ End(c)
IdentitySpec == IdentityInit /\ [][IdentityNext]_identityVars

-----------------------------------------------------------------------------
\* The identity that is on disk when nobody makes one any more is the player's at every later
\* start that gives one, though starts fail and end anywhere, consoles start at the same time and
\* the file is damaged.  Only consoles that were already running while that one was made beside
\* them may show another, until they end: those whose first starts overlap, and those that run when
\* a look at the file fails, after which an identity is made anew.
IdentityIsKept ==
    /\ \A c \in Consoles \ contested : at[c] = "ready" => own[c] = known
    /\ known # NoIdentity => file \in {known, Damaged}

\* The identity that a console shows is the one on disk.  Not so: of two consoles that start at
\* the same time for the first time, one may rename what the other has written.
ShownIsStored == \A c \in Consoles : at[c] = "ready" /\ file # Damaged => own[c] = file
=============================================================================
