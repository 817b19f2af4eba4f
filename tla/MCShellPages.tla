---------------------------- MODULE MCShellPages ----------------------------
(* Instances of the pages for TLC.                                         *)
EXTENDS ShellPages

ASSUME PagesAssumption == PagesConstantsOK
=============================================================================
