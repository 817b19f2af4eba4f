------------------------- MODULE MCRuntimeIpcServer -------------------------
(* Instances of the pipe server for TLC.                                   *)
EXTENDS RuntimeIpcServer
=============================================================================
