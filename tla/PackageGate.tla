---------------------------- MODULE PackageGate ----------------------------
(***************************************************************************)
(* What may be installed and what may be launched: the inventory and the   *)
(* integrity manifest of a package (src/src/PackageSecurity.cpp,           *)
(* PackageIntegrityVerifier.cpp), its signature (PackageTrust.cpp,         *)
(* CngPublisherTrustProvider.cpp), and the two places that ask:            *)
(* ProductionPackagePlatform::Execute and ProductionRuntime::Launch.       *)
(*                                                                         *)
(* A package is its files, the text of zero.integrity.sha256 and what      *)
(* zero.signature.json signs.  The import copies all of it and writes the  *)
(* text anew from the files; the launch compares the text with the files   *)
(* and asks for the signature of the text.  Keys come and go, and files    *)
(* change, at any time.  GameImport has the steps of the import; here it   *)
(* is one.                                                                 *)
(*                                                                         *)
(* A text lists files with their digests, in ZERO's own form or in another *)
(* that reads the same.  Left out: links, reserved names and other files   *)
(* that no inventory accepts, sizes in bytes, and the fields of the        *)
(* manifest.                                                               *)
(***************************************************************************)
EXTENDS Naturals, FiniteSets

CONSTANTS
    Files, Digests, Absent,
    Keys,
    MaxFiles,       \* kMaxFiles
    MaxListed,      \* the lines that kMaxManifestBytes has room for
    MaxSigned       \* bound: packages that are signed

\* What is required of the constants.
GateConstantsOK == MaxFiles \in Nat /\ MaxListed \in Nat

Policies == {"AllowLocalUnsigned", "RequireTrustedPublisher"}
Inventories == [Files -> Digests \cup {Absent}]
Forms == {"own", "other"}
NoText == [lists |-> [f \in Files |-> Absent], form |-> "none"]
Texts == [lists : Inventories, form : Forms] \cup {NoText}

\* What the envelope says: a signature of a text, one that does not decode, or one of an
\* algorithm that is not supported.
NoSignature == [kind |-> "none"]
Signatures == [kind : {"valid"}, key : Keys, text : Texts] \cup {[kind |-> "malformed"], [kind |-> "unsupported"]}
NoPackage == [files |-> [f \in Files |-> Absent], text |-> NoText, signature |-> NoSignature]

VARIABLES
    source,         \* the package that is imported
    installed,      \* the package in the library
    trusted,        \* the keys under the trust root
    signed          \* history: who has signed which files

gateVars == <<source, installed, trusted, signed>>

-----------------------------------------------------------------------------
(* Integrity.                                                              *)

FilesOf(c) == {f \in Files : c[f] # Absent}

BuildInventory(c) == FilesOf(c) # {} /\ Cardinality(FilesOf(c)) <= MaxFiles

\* The text can be read, lists what it declares, and is not too long.
ReadExpected(text) == text.form # "none" /\ Cardinality(FilesOf(text.lists)) <= MaxListed

\* A mutant compares how many files there are.
SameCount(expected, actual) == Cardinality(FilesOf(expected)) = Cardinality(FilesOf(actual))
Equivalent(expected, actual) == expected = actual

Verify(package) ==
    /\ ReadExpected(package.text)
    /\ BuildInventory(package.files)
    /\ Equivalent(package.text.lists, package.files)

\* WriteIntegrityManifest.
WriteIntegrity(c) == [lists |-> c, form |-> "own"]

-----------------------------------------------------------------------------
(* Trust.                                                                  *)

\* The signature is one of these very bytes.
Signs(signature, text) == signature.text = text

\* CngPublisherTrustProvider::Verify: the record of the key is looked for under the trust root.
HasRecord(key) == key \in trusted

PublisherState(s, text) ==
    IF s.kind = "unsupported" THEN "UnsupportedAlgorithm"
    ELSE IF ~HasRecord(s.key) THEN "UntrustedPublisher"
    ELSE IF Signs(s, text) THEN "TrustedPublisher" ELSE "InvalidSignature"

\* PackageTrustService::Evaluate.
TrustState(package) ==
    LET s == package.signature IN
    IF s.kind = "none" THEN "Unsigned"
    ELSE IF s.kind = "malformed" THEN "InvalidSignatureEnvelope"
    ELSE IF package.text = NoText THEN "InvalidSignature"
    ELSE PublisherState(s, package.text)

LaunchAllowed(state, policy) ==
    IF policy = "RequireTrustedPublisher" THEN state = "TrustedPublisher"
    ELSE state \notin {"InvalidSignatureEnvelope", "InvalidSignature", "UnsupportedAlgorithm"}

-----------------------------------------------------------------------------
\* A publisher makes a package: with a text of its files or none, and signs it or not.  A
\* publisher signs what it has written of its own files.
Publish ==
    \E c \in Inventories, form \in Forms \cup {"none"} :
        LET text == IF form = "none" THEN NoText ELSE [lists |-> c, form |-> form]
            With(signature) == source' = [files |-> c, text |-> text, signature |-> signature]
        IN  /\ \/ \E s \in {NoSignature, [kind |-> "malformed"], [kind |-> "unsupported"]} :
                     With(s) /\ UNCHANGED signed
               \/ \E k \in Keys :
                     /\ text # NoText /\ Cardinality(signed) < MaxSigned
                     /\ With([kind |-> "valid", key |-> k, text |-> text])
                     /\ signed' = signed \cup {<<k, c>>}
            /\ UNCHANGED <<installed, trusted>>

\* The package is copied and its text written anew.
CopyOf(package) == [package EXCEPT !.text = WriteIntegrity(package.files)]

\* The shell imports what has an inventory; the platform asks for trust, too.  A copy that
\* cannot be verified is removed again.
Accepts(package, caller) ==
    /\ BuildInventory(package.files)
    /\ caller # "shell" => LaunchAllowed(TrustState(package), caller)

Import ==
    /\ \E caller \in Policies \cup {"shell"} : Accepts(source, caller)
    /\ Verify(CopyOf(source))
    /\ installed' = CopyOf(source)
    /\ UNCHANGED <<source, trusted, signed>>

\* A file of either package is changed, added or removed, or a text is damaged or removed.
Touched(package) ==
    {[package EXCEPT !.files[f] = d] : f \in Files, d \in Digests \cup {Absent}}
    \cup {[package EXCEPT !.text.lists[f] = d] : f \in FilesOf(package.text.lists), d \in Digests}
    \cup {[package EXCEPT !.text = NoText]}

FilesChange ==
    /\ \/ source' \in Touched(source) /\ UNCHANGED installed
       \/ installed' \in Touched(installed) /\ UNCHANGED source
    /\ UNCHANGED <<trusted, signed>>

KeysChange ==
    /\ \E k \in Keys : trusted' \in {trusted \cup {k}, trusted \ {k}}
    /\ UNCHANGED <<source, installed, signed>>

\* ProductionRuntime::Launch goes on.  It reads the files with the text, then the text again for
\* the signature, and starts the executable later: this is a launch in which nothing changes
\* between the three.
Launchable(policy) == Verify(installed) /\ LaunchAllowed(TrustState(installed), policy)

GateInit == source = NoPackage /\ installed = NoPackage /\ trusted = {} /\ signed = {}
GateNext == Publish \/ Import \/ FilesChange \/ KeysChange
GateSpec == GateInit /\ [][GateNext]_gateVars

-----------------------------------------------------------------------------
PackageRecords == [files : Inventories, text : Texts, signature : Signatures \cup {NoSignature}]

GateTypeOK ==
    /\ source \in PackageRecords /\ installed \in PackageRecords
    /\ trusted \subseteq Keys /\ signed \subseteq Keys \X Inventories

\* A game that can be launched as one of a trusted publisher has the very files that this
\* publisher signed, although the import writes the text anew, files, texts and keys change
\* before and after it, and a signature can come with any other text.  Nothing else can be
\* launched where a trusted publisher is required.  This is of the files when the launch checks
\* them; of a change between its checks and the start of the process it says nothing.
LaunchesAreGenuine ==
    /\ Launchable("RequireTrustedPublisher") => TrustState(installed) = "TrustedPublisher"
    /\ \A policy \in Policies :
          Launchable(policy) /\ TrustState(installed) = "TrustedPublisher"
             => <<installed.signature.key, installed.files>> \in signed

\* "Optional zero.signature.json signs the exact integrity-manifest bytes"
\* (src/docs/ARCHITECTURE.md:76): the copy of a package of a trusted publisher, whose text
\* lists its files, is of that publisher, too.
CopyKeepsTrust ==
    TrustState(source) = "TrustedPublisher" /\ Verify(source) => TrustState(CopyOf(source)) = "TrustedPublisher"

\* "more than 20,000 regular package files" are rejected (src/docs/PACKAGE_SECURITY.md:15),
\* fewer are not: a package that has an inventory can be installed.
LimitIsOfFiles == BuildInventory(source.files) => Verify(CopyOf(source))
=============================================================================
