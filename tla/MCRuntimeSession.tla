-------------------------- MODULE MCRuntimeSession --------------------------
(* Three launches are enough for a launch to follow a failed one and one   *)
(* that ran, each after a different end of its predecessor.                *)
EXTENDS RuntimeSession
=============================================================================
