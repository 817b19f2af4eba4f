---------------------------- MODULE GameSession ----------------------------
(***************************************************************************)
(* What the runtime promises the shell of its game sessions: one session   *)
(* at a time, which starts, perhaps becomes playable, and ends exactly     *)
(* once with a verdict.  At its end, and never later, the session may be   *)
(* written to the history, once, under its own package and with that       *)
(* verdict.                                                                *)
(***************************************************************************)
EXTENDS Naturals

CONSTANTS Packages, NoPackage, MaxSessions, Verdicts

VARIABLES
    phase,      \* of the current session: "none", "starting", "playing" or a verdict
    session,    \* number of the current session, 0 before the first
    package,    \* its package
    history     \* the sessions recorded

vars == <<phase, session, package, history>>

Live == phase \in {"starting", "playing"}

Init == phase = "none" /\ session = 0 /\ package = NoPackage /\ history = {}

Begin(p) ==
    /\ ~Live /\ session < MaxSessions
    /\ phase' = "starting" /\ session' = session + 1 /\ package' = p
    /\ UNCHANGED history

\* A launch that fails leaves no session behind.
Refuse ==
    /\ ~Live
    /\ phase' = "LaunchFailure"
    /\ UNCHANGED <<session, package, history>>

BecomePlayable ==
    /\ phase = "starting"
    /\ phase' = "playing"
    /\ UNCHANGED <<session, package, history>>

\* Only a game that became playable can stop responding.
End(verdict) ==
    /\ Live
    /\ verdict = "Hung" => phase = "playing"
    /\ phase' = verdict
    /\ history' \in {history,
                     history \union {[session |-> session, package |-> package, outcome |-> verdict]}}
    /\ UNCHANGED <<session, package>>

Next ==
    \/ Refuse \/ BecomePlayable
    \/ \E p \in Packages : Begin(p)
    \/ \E verdict \in Verdicts \ {"LaunchFailure"} : End(verdict)

Spec == Init /\ [][Next]_vars
=============================================================================
